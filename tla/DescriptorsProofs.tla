------------------------- MODULE DescriptorsProofs -------------------------
(***************************************************************************)
(* Proofs about Descriptors and FileIO.  The operators that say what a     *)
(* call does to the library preserve Sound, a typing of the record L       *)
(* together with the two facts about handles; so does each action, which   *)
(* is built from them.  The same operators, in the same order, are then    *)
(* taken through the other facts that the theorems need of L: the counts   *)
(* of the FILEs (Even), what is held of the system (Keeps), which          *)
(* descriptors the program can count on (Good) and which FILEs are streams *)
(* (Streams).                                                              *)
(***************************************************************************)
EXTENDS FileIO, TLAPS, FiniteSetTheorems

LIB == [fp: [FDs -> Files \cup {NULL}], maxfd: InitMaxfd .. MaxfdBound,
        iob: [Files -> FILE], dos: [Handles -> DosState], sdidinit: BOOLEAN]

NoStale(L) == \A f \in Files : Own(L.iob[f].handle) => L.dos[L.iob[f].handle] # "closed"

Distinct(L) ==
  \A f, g \in Files : f # g /\ Own(L.iob[f].handle) => L.iob[f].handle # L.iob[g].handle

Sound(L) == L \in LIB /\ NoStale(L) /\ Distinct(L)

\* The typing of the variables that are not part of L.
RestOK ==
  /\ phase \in Phases /\ cursor \in Nat
  /\ owned \subseteq FDs
  /\ miscounted \in BOOLEAN /\ faulted \in BOOLEAN

\* h can be handed out: it is closed and no FILE holds it.
Fresh(L, h) == Own(h) /\ L.dos[h] = "closed"

----------------------------------------------------------------------------
(* The operators, and what they preserve of the handles.                   *)

\* A blank FILE, and the FILE of a standard stream, are FILEs.
LEMMA FilesTyped ==
  /\ Blank \in FILE
  /\ \A f \in 0 .. 2 : StdFile(f) \in FILE /\ StdFile(f).handle \in Std
BY SizeAssumption, ValueAssumption
   DEF Blank, StdFile, StdHandle, FILE, FileFlags, FdFlags, FDs, Std

\* A FILE that is found stale would hold a handle that is fresh: so a fresh handle
\* is held by no FILE.
LEMMA FreshUnheld ==
  ASSUME NEW L, Sound(L), NEW h, Fresh(L, h), NEW f \in Files
  PROVE  L.iob[f].handle # h
BY DEF Sound, NoStale, Fresh

\* __sinit()
LEMMA SinitedSound ==
  ASSUME NEW L, Sound(L)
  PROVE  /\ Sound(Sinited(L))
         /\ Sinited(L).dos = L.dos /\ Sinited(L).maxfd = L.maxfd
<1>1. CASE L.sdidinit
  BY <1>1 DEF Sinited
<1>2. CASE ~L.sdidinit
  <2> DEFINE S == Sinited(L)
  <2>1. S = [L EXCEPT !.iob = [f \in Files |-> IF f < 3 THEN StdFile(f) ELSE L.iob[f]],
                      !.fp  = [d \in FDs |-> IF d < 3 THEN d ELSE L.fp[d]],
                      !.sdidinit = TRUE]
    BY <1>2 DEF Sinited
  <2>2. S.iob = [f \in Files |-> IF f < 3 THEN StdFile(f) ELSE L.iob[f]]
    BY <2>1 DEF Sound, LIB
  <2>3. /\ S.fp = [d \in FDs |-> IF d < 3 THEN d ELSE L.fp[d]]
        /\ S.dos = L.dos /\ S.maxfd = L.maxfd
    BY <2>1 DEF Sound, LIB
  <2>4. \A f \in Files : f < 3 => f \in 0 .. 2
    BY DEF Files
  <2>5. S.iob \in [Files -> FILE]
    BY <2>2, <2>4, FilesTyped DEF Sound, LIB
  <2>6. S.fp \in [FDs -> Files \cup {NULL}]
    BY <2>3, SizeAssumption DEF Sound, LIB, FDs, Files
  <2>7. S \in LIB
    BY <2>1, <2>2, <2>3, <2>5, <2>6 DEF Sound, LIB
  <2>8. \A f \in Files : Own(S.iob[f].handle) => S.iob[f] = L.iob[f]
    BY <2>2, <2>4, FilesTyped DEF Own
  <2>9. NoStale(S) /\ Distinct(S)
    BY <2>8, <2>3 DEF Sound, NoStale, Distinct
  <2> QED BY <2>3, <2>7, <2>9 DEF Sound
<1> QED BY <1>1, <1>2

\* Replacing a FILE by one that keeps its handle, or gives it up.
LEMMA ReplaceFile ==
  ASSUME NEW L, Sound(L), NEW f \in Files, NEW r \in FILE,
         r.handle = L.iob[f].handle \/ ~Own(r.handle)
  PROVE  Sound([L EXCEPT !.iob[f] = r])
<1> DEFINE M == [L EXCEPT !.iob[f] = r]
<1>1. /\ M \in LIB
      /\ M.iob = [L.iob EXCEPT ![f] = r] /\ M.dos = L.dos
  BY DEF Sound, LIB
<1>2. \A g \in Files : Own(M.iob[g].handle) => M.iob[g].handle = L.iob[g].handle
  BY <1>1 DEF Sound, LIB
<1>3. NoStale(M)
  BY <1>1, <1>2 DEF Sound, NoStale
<1>4. Distinct(M)
  <2> SUFFICES ASSUME NEW g \in Files, NEW k \in Files, g # k, Own(M.iob[g].handle)
               PROVE  M.iob[g].handle # M.iob[k].handle
    BY DEF Distinct
  <2>1. M.iob[g].handle = L.iob[g].handle
    BY <1>2
  <2>2. CASE Own(M.iob[k].handle)
    BY <2>1, <2>2, <1>2 DEF Sound, Distinct
  <2>3. CASE ~Own(M.iob[k].handle)
    BY <2>3
  <2> QED BY <2>2, <2>3
<1> QED BY <1>1, <1>3, <1>4 DEF Sound

\* An entry of the table may be given any FILE, or none.
LEMMA ReplaceEntry ==
  ASSUME NEW L, Sound(L), NEW d \in FDs, NEW v \in Files \cup {NULL}
  PROVE  Sound([L EXCEPT !.fp[d] = v])
<1> DEFINE M == [L EXCEPT !.fp[d] = v]
<1>1. M \in LIB /\ M.iob = L.iob /\ M.dos = L.dos
  BY DEF Sound, LIB
<1> QED BY <1>1 DEF Sound, NoStale, Distinct

\* A FILE may take over a fresh handle once the system has opened it.
LEMMA TakeHandle ==
  ASSUME NEW L, Sound(L), NEW h \in Handles, Fresh(L, h), NEW f \in Files, NEW r \in FILE,
         r.handle = h, NEW kind \in DosState \ {"closed"}
  PROVE  Sound([L EXCEPT !.dos[h] = kind, !.iob[f] = r])
<1> DEFINE M == [L EXCEPT !.dos[h] = kind, !.iob[f] = r]
<1>1. /\ M \in LIB
      /\ M.iob = [L.iob EXCEPT ![f] = r] /\ M.dos = [L.dos EXCEPT ![h] = kind]
  BY DEF Sound, LIB
<1>2. \A g \in Files \ {f} : M.iob[g] = L.iob[g] /\ M.iob[g].handle # h
  BY <1>1, FreshUnheld DEF Sound, LIB
<1>3. M.iob[f].handle = h
  BY <1>1 DEF Sound, LIB
<1>4. M.dos[h] # "closed" /\ \A k \in Handles \ {h} : M.dos[k] = L.dos[k]
  BY <1>1 DEF Sound, LIB
<1>5. NoStale(M)
  BY <1>2, <1>3, <1>4 DEF Sound, NoStale, Own
<1>6. Distinct(M)
  BY <1>2, <1>3 DEF Sound, Distinct
<1> QED BY <1>1, <1>5, <1>6 DEF Sound

\* A fresh handle that is opened and kept by nobody.
LEMMA StrandHandle ==
  ASSUME NEW L, Sound(L), NEW h \in Handles, NEW kind \in DosState \ {"closed"}
  PROVE  Sound([L EXCEPT !.dos[h] = kind])
<1> DEFINE M == [L EXCEPT !.dos[h] = kind]
<1>1. M \in LIB /\ M.iob = L.iob /\ M.dos = [L.dos EXCEPT ![h] = kind]
  BY DEF Sound, LIB
<1>2. \A k \in Handles : L.dos[k] # "closed" => M.dos[k] # "closed"
  BY <1>1 DEF Sound, LIB
<1> QED BY <1>1, <1>2 DEF Sound, NoStale, Distinct, Own

\* __sinit() fills descriptors 0, 1 and 2, which getfd() does not look at.
LEMMA SinitedTable ==
  ASSUME NEW L, Sound(L), NEW fd, IsGetfd(L, fd)
  PROVE  IsGetfd(Sinited(L), fd)
<1> DEFINE S == Sinited(L)
<1>1. S.maxfd = L.maxfd
  BY SinitedSound
<1>2. \A d \in 3 .. L.maxfd - 1 : S.fp[d] = L.fp[d]
  BY SizeAssumption DEF Sinited, Sound, LIB, FDs
<1> HIDE DEF S
<1> QED BY <1>1, <1>2 DEF IsGetfd, TableFull, Sound, LIB, S

\* __sfp() leaves a blank FILE.
LEMMA ReservedSound ==
  ASSUME NEW L, Sound(L), NEW f \in Files
  PROVE  /\ Sound(Reserved(L, f))
         /\ Reserved(L, f).dos = L.dos /\ Reserved(L, f).maxfd = L.maxfd
         /\ Reserved(L, f).fp = L.fp
<1>1. [Blank EXCEPT !.flags = "reserved"] \in FILE /\ ~Own([Blank EXCEPT !.flags = "reserved"].handle)
  BY FilesTyped, ValueAssumption DEF FILE, FileFlags, Blank, Own
<1> QED BY <1>1, ReplaceFile DEF Reserved, Sound, LIB

\* The caller sets the flags of a FILE, and its descriptor.
LEMMA FlagsSound ==
  ASSUME NEW L, Sound(L), NEW f \in Files
  PROVE  /\ \A fl \in FileFlags : Sound(SetFlags(L, f, fl))
         /\ \A fd \in FDs : Sound(SetStream(L, f, fd))
<1> L.iob[f] \in FILE /\ L.iob \in [Files -> FILE]
  BY DEF Sound, LIB
<1>1. ASSUME NEW fl \in FileFlags PROVE Sound(SetFlags(L, f, fl))
  <2> DEFINE r == [L.iob[f] EXCEPT !.flags = fl]
  <2>1. r \in FILE /\ r.handle = L.iob[f].handle
    BY <1>1 DEF FILE
  <2>2. SetFlags(L, f, fl) = [L EXCEPT !.iob[f] = r]
    BY DEF SetFlags, Sound, LIB
  <2> HIDE DEF r
  <2>3. Sound([L EXCEPT !.iob[f] = r])
    BY <2>1, ReplaceFile
  <2> QED BY <2>2, <2>3
<1>2. ASSUME NEW fd \in FDs PROVE Sound(SetStream(L, f, fd))
  <2> DEFINE r == [L.iob[f] EXCEPT !.flags = "stream", !.file = fd]
  <2>1. r \in FILE /\ r.handle = L.iob[f].handle
    BY <1>2 DEF FILE, FileFlags
  <2>2. SetStream(L, f, fd) = [L EXCEPT !.iob[f] = r]
    BY DEF SetStream, Sound, LIB
  <2> HIDE DEF r
  <2>3. Sound([L EXCEPT !.iob[f] = r])
    BY <2>1, ReplaceFile
  <2> QED BY <2>2, <2>3
<1> QED BY <1>1, <1>2

\* getfd() returns a descriptor of the table it leaves.
LEMMA GetfdSound ==
  ASSUME NEW L, Sound(L), NEW fd \in FDs, IsGetfd(L, fd)
  PROVE  /\ Sound(Getfd(L, fd))
         /\ Getfd(L, fd).dos = L.dos /\ Getfd(L, fd).iob = L.iob
<1>1. CASE fd < L.maxfd
  BY <1>1 DEF Getfd
<1>2. CASE ~(fd < L.maxfd)
  <2> DEFINE M == Getfd(L, fd)
  <2>1. L.maxfd \in InitMaxfd .. MaxfdBound /\ fd = L.maxfd /\ L.maxfd + L.maxfd + Slack <= MaxfdBound
    BY <1>2 DEF IsGetfd, Sound, LIB, FDs
  <2>2. M = [L EXCEPT !.fp = [d \in FDs |-> IF d < L.maxfd THEN L.fp[d] ELSE NULL],
                      !.maxfd = L.maxfd + L.maxfd + Slack]
    BY <1>2 DEF Getfd
  <2>3. L.maxfd + L.maxfd + Slack \in InitMaxfd .. MaxfdBound
    BY <2>1, SizeAssumption
  <2>4. [d \in FDs |-> IF d < L.maxfd THEN L.fp[d] ELSE NULL] \in [FDs -> Files \cup {NULL}]
    BY DEF Sound, LIB
  <2>5. M \in LIB /\ M.iob = L.iob /\ M.dos = L.dos
    BY <2>2, <2>3, <2>4 DEF Sound, LIB
  <2> QED BY <2>5 DEF Sound, NoStale, Distinct
<1> QED BY <1>1, <1>2

\* Close() and CloseSocket() close at most the handle they are given.
LEMMA ReleaseTyped ==
  ASSUME NEW L \in LIB, NEW h \in Handles \cup {NoHandle}, NEW kind
  PROVE  /\ Release(L, h, kind) \in LIB
         /\ \A k \in Handles : k # h => Release(L, h, kind).dos[k] = L.dos[k]
         /\ \A k \in Handles : L.dos[k] = "closed" => Release(L, h, kind).dos[k] = "closed"
         /\ Release(L, h, kind).iob = L.iob /\ Release(L, h, kind).fp = L.fp
         /\ Release(L, h, kind).maxfd = L.maxfd
<1>1. CASE h # NoHandle /\ L.dos[h] = kind
  <2>1. h \in Handles /\ Release(L, h, kind) = [L EXCEPT !.dos[h] = "closed"]
    BY <1>1 DEF Release
  <2> QED BY <2>1 DEF LIB, DosState
<1>2. CASE ~(h # NoHandle /\ L.dos[h] = kind)
  BY <1>2 DEF Release
<1> QED BY <1>1, <1>2

\* close(): the FILE gives up its handle in the step that closes it, and no other
\* FILE has the same one.
LEMMA CloseFdSound ==
  ASSUME NEW L, Sound(L), NEW fd, NEW ok \in BOOLEAN
  PROVE  /\ Sound(CloseFd(L, fd, ok))
         /\ CloseFd(L, fd, ok).maxfd = L.maxfd
         /\ \A k \in Handles : L.dos[k] = "closed" => CloseFd(L, fd, ok).dos[k] = "closed"
<1> DEFINE f == L.fp[fd]
           r == L.iob[f]
           M == CloseFd(L, fd, ok)
<1>1. CASE fd \notin 3 .. L.maxfd - 1
  BY <1>1 DEF CloseFd
<1>2. CASE fd \in 3 .. L.maxfd - 1 /\ f = NULL
  BY <1>2 DEF CloseFd
<1>3. CASE fd \in 3 .. L.maxfd - 1 /\ f # NULL
  <2>1. fd \in FDs
    BY <1>3, SizeAssumption DEF Sound, LIB, FDs
  <2>2. f \in Files /\ r \in FILE
    BY <1>3, <2>1 DEF Sound, LIB
  <2>3. CASE IsNested(r)
    <3> DEFINE n == [r EXCEPT !.nestcnt = @ - 1]
    <3>1. n \in FILE /\ n.handle = r.handle
      BY <2>2, <2>3 DEF IsNested, FILE
    <3>2. M = [L EXCEPT !.iob[f] = n]
      BY <1>3, <2>2, <2>3 DEF CloseFd, CloseNested, Sound, LIB
    <3>3. M.dos = L.dos /\ M.maxfd = L.maxfd
      BY <3>2 DEF Sound, LIB
    <3> HIDE DEF n, M
    <3>4. Sound([L EXCEPT !.iob[f] = n])
      BY <3>1, <2>2, ReplaceFile
    <3> QED BY <3>2, <3>3, <3>4 DEF M
  <2>4. CASE ~IsNested(r) /\ CloseRefused(r, ok)
    BY <1>3, <2>4 DEF CloseFd
  <2>5. CASE ~IsNested(r) /\ ~CloseRefused(r, ok)
    <3> DEFINE R == Release(L, r.handle, ReleaseKind(r))
               e == Emptied(r)
    <3>1. /\ R \in LIB
          /\ \A k \in Handles : k # r.handle => R.dos[k] = L.dos[k]
          /\ \A k \in Handles : L.dos[k] = "closed" => R.dos[k] = "closed"
          /\ R.iob = L.iob /\ R.fp = L.fp /\ R.maxfd = L.maxfd
      <4>1. L \in LIB /\ r.handle \in Handles \cup {NoHandle}
        BY <2>2 DEF Sound, FILE
      <4> QED BY <4>1, ReleaseTyped
    <3>2. e \in FILE /\ e.handle = NoHandle
      BY <2>2 DEF Emptied, FILE
    <3>3. M = [R EXCEPT !.iob[f] = e, !.fp[fd] = NULL]
      BY <1>3, <2>2, <2>5, <3>1 DEF CloseFd, LIB
    <3> HIDE DEF R, e, M
    <3>4. /\ M \in LIB /\ M.dos = R.dos /\ M.maxfd = R.maxfd
          /\ M.iob = [L.iob EXCEPT ![f] = e]
      BY <3>1, <3>2, <3>3, <2>1, <2>2 DEF LIB
    <3>5. \A g \in Files \ {f} : M.iob[g] = L.iob[g]
      BY <3>4, <2>2 DEF Sound, LIB
    <3>6. ~Own(M.iob[f].handle)
      BY <3>2, <3>4, <2>2, ValueAssumption DEF Sound, LIB, Own
    <3>7. NoStale(M)
      <4> SUFFICES ASSUME NEW g \in Files, Own(M.iob[g].handle)
                   PROVE  M.dos[M.iob[g].handle] # "closed"
        BY DEF NoStale
      <4>1. g # f /\ M.iob[g] = L.iob[g]
        BY <3>5, <3>6
      <4>2. L.iob[g].handle # r.handle
        BY <4>1, <2>2 DEF Sound, Distinct
      <4>3. M.dos[L.iob[g].handle] = L.dos[L.iob[g].handle]
        BY <3>1, <3>4, <4>1, <4>2 DEF Own
      <4> QED BY <4>1, <4>3 DEF Sound, NoStale
    <3>8. Distinct(M)
      <4> SUFFICES ASSUME NEW g \in Files, NEW k \in Files, g # k, Own(M.iob[g].handle)
                   PROVE  M.iob[g].handle # M.iob[k].handle
        BY DEF Distinct
      <4>1. g # f
        BY <3>6
      <4>2. CASE k = f
        BY <4>2, <3>6
      <4>3. CASE k # f
        BY <4>1, <4>3, <3>5 DEF Sound, Distinct
      <4> QED BY <4>2, <4>3
    <3> QED BY <3>1, <3>4, <3>7, <3>8 DEF Sound, M
  <2> QED BY <2>3, <2>4, <2>5
<1> QED BY <1>1, <1>2, <1>3

\* fclose()
LEMMA FcloseSound ==
  ASSUME NEW L, Sound(L), NEW f \in Files, NEW ok \in BOOLEAN
  PROVE  Sound(FcloseFile(L, f, ok))
<1> DEFINE c == IF L.iob[f].flags = "stream" THEN CloseFd(L, L.iob[f].file, ok) ELSE L
<1>1. Sound(c)
  BY CloseFdSound
<1>2. FcloseFile(L, f, ok) = SetFlags(c, f, "free")
  BY DEF FcloseFile
<1> HIDE DEF c
<1> QED BY <1>1, <1>2, FlagsSound DEF FileFlags

\* The handle that an open function is given, and the answer it goes with.
Given(L, res, h) ==
  /\ res \in Results
  /\ h \in Handles \cup {NoHandle}
  /\ (h = NoHandle) <=> (res = "refused")
  /\ h # NoHandle => Fresh(L, h)

\* _open_fp()
LEMMA OpenFpSound ==
  ASSUME NEW L, Sound(L), NEW f \in Files, NEW fd \in FDs, IsGetfd(L, fd),
         NEW res, NEW h, Given(L, res, h)
  PROVE  Sound(OpenFp(L, f, fd, res, h))
<1> DEFINE G == Getfd(L, fd)
           O == OpenFp(L, f, fd, res, h)
<1>1. Sound(G) /\ G.dos = L.dos /\ G.iob = L.iob
  BY GetfdSound
<1>2. CASE res = "refused"
  BY <1>1, <1>2 DEF OpenFp
<1>3. CASE res = "stranded"
  <2>1. h \in Handles /\ O = [G EXCEPT !.dos[h] = "file"]
    BY <1>3 DEF OpenFp, Given
  <2> HIDE DEF G
  <2>2. Sound([G EXCEPT !.dos[h] = "file"])
    BY <1>1, <2>1, StrandHandle DEF DosState
  <2> QED BY <2>1, <2>2
<1>4. CASE res \in {"lock", "file"}
  <2> DEFINE r == Holding(G.iob[f], res, h)
             T == [G EXCEPT !.dos[h] = res, !.iob[f] = r]
  <2>1. h \in Handles /\ Fresh(G, h) /\ res \in DosState \ {"closed"}
    BY <1>1, <1>4 DEF Given, Fresh, DosState
  <2>2. r \in FILE /\ r.handle = h
    BY <1>1, <2>1 DEF Holding, Sound, LIB, FILE, FdFlags
  <2>3. O = [T EXCEPT !.fp[fd] = f]
    BY <1>1, <1>4 DEF OpenFp, Sound, LIB
  <2> HIDE DEF G, r, O
  <2>4. Sound(T)
    BY <1>1, <2>1, <2>2, TakeHandle
  <2> HIDE DEF T
  <2>5. Sound([T EXCEPT !.fp[fd] = f])
    BY <2>4, ReplaceEntry
  <2> QED BY <2>3, <2>5 DEF O
<1> QED BY <1>2, <1>3, <1>4 DEF Given, Results

\* _open_fp() as fopen() and freopen() finish it.
LEMMA OpenStreamSound ==
  ASSUME NEW L, Sound(L), NEW f \in Files, NEW fd \in FDs, IsGetfd(L, fd),
         NEW res, NEW h, Given(L, res, h)
  PROVE  Sound(OpenStream(L, f, fd, res, h))
<1> DEFINE O == OpenFp(L, f, fd, res, h)
<1>1. Sound(O)
  BY OpenFpSound
<1>2. OpenStream(L, f, fd, res, h) = IF Opened(res) THEN SetStream(O, f, fd) ELSE SetFlags(O, f, "free")
  BY DEF OpenStream
<1> HIDE DEF O
<1> QED BY <1>1, <1>2, FlagsSound DEF FileFlags

\* A FILE takes over a fresh socket.
LEMMA SocketFileSound ==
  ASSUME NEW L, Sound(L), NEW g \in Files, NEW fd \in FDs, NEW h \in Handles, Fresh(L, h)
  PROVE  Sound(SocketFile(L, g, fd, h))
<1> DEFINE r == [Blank EXCEPT !.flags = "reserved", !.file = fd, !.handle = h, !.fdflags = {"SOCKET"}]
           T == [L EXCEPT !.dos[h] = "sock", !.iob[g] = r]
<1>1. r \in FILE /\ r.handle = h
  BY FilesTyped DEF Blank, FILE, FileFlags, FdFlags
<1>2. SocketFile(L, g, fd, h) = [T EXCEPT !.fp[fd] = g]
  BY DEF SocketFile, Sound, LIB
<1> HIDE DEF r
<1>3. Sound(T)
  BY <1>1, TakeHandle DEF DosState
<1> HIDE DEF T
<1>4. Sound([T EXCEPT !.fp[fd] = g])
  BY <1>3, ReplaceEntry
<1> QED BY <1>2, <1>4

\* Another descriptor is made to share FILE f.
LEMMA ShareSound ==
  ASSUME NEW L, Sound(L), NEW f \in Files, NEW fd \in FDs
  PROVE  Sound([L EXCEPT !.fp[fd] = f, !.iob[f].nestcnt = @ + 1])
<1> DEFINE r == [L.iob[f] EXCEPT !.nestcnt = @ + 1]
           T == [L EXCEPT !.iob[f] = r]
<1>1. r \in FILE /\ r.handle = L.iob[f].handle
  BY DEF Sound, LIB, FILE
<1>2. [L EXCEPT !.fp[fd] = f, !.iob[f].nestcnt = @ + 1] = [T EXCEPT !.fp[fd] = f]
  BY DEF Sound, LIB
<1> HIDE DEF r
<1>3. Sound(T)
  BY <1>1, ReplaceFile
<1> HIDE DEF T
<1> QED BY <1>2, <1>3, ReplaceEntry

\* The variables take the values an operator computed.
LEMMA BecomesSound ==
  ASSUME NEW L, Sound(L), Becomes(L)
  PROVE  Sound(Lib)'
<1>1. Lib' = L
  BY DEF Becomes, Lib, Sound, LIB
<1> QED BY <1>1 DEF Sound, NoStale, Distinct

\* Sound and RestOK together are the two properties and the type invariant.
LEMMA SoundMeans ==
  (Sound(Lib) /\ RestOK) <=> (TypeOK /\ NoStaleHandle /\ OneOwner)
BY DEF Sound, RestOK, Lib, LIB, NoStale, Distinct, TypeOK, NoStaleHandle, OneOwner

----------------------------------------------------------------------------
(* The handles of the FILEs, step by step.                                 *)

IInv == Sound(Lib) /\ RestOK

\* The program starts with a table without FILEs.
LEMMA InitIInv == Init => IInv
<1> SUFFICES ASSUME Init PROVE IInv
  OBVIOUS
<1>1. Lib \in LIB
  <2>1. 0 \in Nat /\ InitMaxfd \in InitMaxfd .. MaxfdBound
    BY SizeAssumption
  <2> QED BY <2>1, FilesTyped DEF Init, Lib, LIB, DosState
<1>2. \A f \in Files : ~Own(Lib.iob[f].handle)
  BY ValueAssumption DEF Init, Lib, Blank, Own
<1>3. NoStale(Lib) /\ Distinct(Lib)
  BY <1>2 DEF NoStale, Distinct
<1>4. RestOK
  <2>1. 0 .. 2 \subseteq FDs
    BY SizeAssumption DEF FDs
  <2> QED BY <2>1 DEF Init, RestOK, Phases
<1> QED BY <1>1, <1>3, <1>4 DEF IInv, Sound

\* What _open_fp() can answer, and the handle that goes with the answer.
LEMMA OpenAnswers ==
  ASSUME NEW L, Sound(L), NEW flags \in Requests, NEW res \in OpenResults[flags],
         NEW h \in FreeHandles(L) \cup {NoHandle}, (h = NoHandle) <=> (res = "refused")
  PROVE  Given(L, res, h)
<1>1. res \in Results
  BY DEF OpenResults, OpenResult, Results
<1>2. h # NoHandle => h \in Handles /\ Fresh(L, h)
  BY DEF FreeHandles, Fresh, Own
<1> QED BY <1>1, <1>2 DEF Given

\* The bookkeeping of a call that stays inside the program's main part.
LEMMA LearnsOK ==
  ASSUME RestOK, NEW got \in SUBSET FDs, NEW lost, Learns(got, lost),
         UNCHANGED <<phase, cursor, faulted>>, miscounted' \in BOOLEAN
  PROVE  RestOK'
BY DEF RestOK, Learns

\* A step that leaves the library alone keeps it sound.
LEMMA LibUnchanged ==
  ASSUME Sound(Lib), UNCHANGED <<fp, maxfd, iob, dos, sdidinit>>
  PROVE  Sound(Lib)'
<1>1. Lib' = Lib
  BY DEF Lib
<1> QED BY <1>1 DEF Sound, NoStale, Distinct

\* The calls that open.
LEMMA OpenSteps ==
  ASSUME IInv, NEW flags \in Requests
  PROVE  /\ Open(flags) => IInv'
         /\ Fopen(flags) => IInv'
         /\ \A f \in Files : Freopen(f, flags) => IInv'
<1> DEFINE S == Sinited(Lib)
<1>s. Sound(S) /\ S.dos = Lib.dos /\ S.maxfd = Lib.maxfd
  BY SinitedSound DEF IInv
<1>1. ASSUME Open(flags) PROVE IInv'
  <2>1. PICK f \in Files, fd \in FDs, res \in OpenResults[flags], h \in FreeHandles(S) \cup {NoHandle} :
          LET R == Reserved(S, f) IN
          /\ IsSfp(S, f) /\ IsGetfd(R, fd)
          /\ (h = NoHandle) <=> (res = "refused")
          /\ Becomes(OpenFp(R, f, fd, res, h))
          /\ Learns(IF Opened(res) THEN {fd} ELSE {}, {})
    BY <1>1 DEF Open
  <2> HIDE DEF S
  <2> DEFINE R == Reserved(S, f)
  <2>2. Sound(R) /\ R.dos = S.dos
    BY <1>s, ReservedSound
  <2>3. Given(S, res, h)
    BY <1>s, <2>1, OpenAnswers
  <2>4. Given(R, res, h)
    BY <2>2, <2>3 DEF Given, Fresh
  <2>5. IsGetfd(R, fd) /\ Becomes(OpenFp(R, f, fd, res, h))
    BY <2>1
  <2> HIDE DEF R
  <2>6. Sound(OpenFp(R, f, fd, res, h))
    BY <2>2, <2>4, <2>5, OpenFpSound
  <2>7. Sound(Lib)'
    BY <2>5, <2>6, BecomesSound
  <2>8. RestOK'
    <3>1. RestOK /\ Quiet
      BY <1>1 DEF IInv, Open
    <3> QED BY <2>1, <3>1, LearnsOK DEF Quiet, RestOK
  <2> QED BY <2>7, <2>8 DEF IInv
<1>2. ASSUME Fopen(flags) PROVE IInv'
  <2>1. PICK f \in Files, fd \in FDs, res \in OpenResults[flags], h \in FreeHandles(S) \cup {NoHandle} :
          LET R == Reserved(S, f) IN
          /\ IsSfp(S, f) /\ IsGetfd(R, fd)
          /\ (h = NoHandle) <=> (res = "refused")
          /\ Becomes(OpenStream(R, f, fd, res, h))
          /\ Learns(IF Opened(res) THEN {fd} ELSE {}, {})
    BY <1>2 DEF Fopen
  <2> HIDE DEF S
  <2> DEFINE R == Reserved(S, f)
  <2>2. Sound(R) /\ R.dos = S.dos
    BY <1>s, ReservedSound
  <2>3. Given(S, res, h)
    BY <1>s, <2>1, OpenAnswers
  <2>4. Given(R, res, h)
    BY <2>2, <2>3 DEF Given, Fresh
  <2>5. IsGetfd(R, fd) /\ Becomes(OpenStream(R, f, fd, res, h))
    BY <2>1
  <2> HIDE DEF R
  <2>6. Sound(OpenStream(R, f, fd, res, h))
    BY <2>2, <2>4, <2>5, OpenStreamSound
  <2>7. Sound(Lib)'
    BY <2>5, <2>6, BecomesSound
  <2>8. RestOK'
    <3>1. RestOK /\ Quiet
      BY <1>2 DEF IInv, Fopen
    <3> QED BY <2>1, <3>1, LearnsOK DEF Quiet, RestOK
  <2> QED BY <2>7, <2>8 DEF IInv
<1>3. ASSUME NEW f \in Files, Freopen(f, flags) PROVE IInv'
  <2> DEFINE Closed(ok) == IF S.iob[f].flags = "stream" THEN CloseFd(S, S.iob[f].file, ok) ELSE S
  <2>1. PICK ok \in BOOLEAN, fd \in FDs, res \in OpenResults[flags], h \in FreeHandles(S) \cup {NoHandle} :
          /\ IsGetfd(Closed(ok), fd)
          /\ (h = NoHandle) <=> (res = "refused")
          /\ Becomes(OpenStream(Closed(ok), f, fd, res, h))
          /\ Learns(IF Opened(res) THEN {fd} ELSE {}, {S.iob[f].file} \ (0 .. 2))
    BY <1>3 DEF Freopen
  <2> DEFINE C == Closed(ok)
  <2> HIDE DEF S
  <2>2. Sound(C) /\ \A k \in Handles : S.dos[k] = "closed" => C.dos[k] = "closed"
    BY <1>s, CloseFdSound
  <2>3. Given(S, res, h)
    BY <1>s, <2>1, OpenAnswers
  <2>4. Given(C, res, h)
    BY <2>2, <2>3 DEF Given, Fresh, Own
  <2>5. IsGetfd(C, fd) /\ Becomes(OpenStream(C, f, fd, res, h))
    BY <2>1
  <2> HIDE DEF C
  <2>6. Sound(OpenStream(C, f, fd, res, h))
    BY <2>2, <2>4, <2>5, OpenStreamSound
  <2>7. Sound(Lib)'
    BY <2>5, <2>6, BecomesSound
  <2>8. RestOK'
    <3>1. RestOK /\ Quiet
      BY <1>3 DEF IInv, Freopen
    <3> QED BY <2>1, <3>1, LearnsOK DEF Quiet, RestOK
  <2> QED BY <2>7, <2>8 DEF IInv
<1> QED BY <1>1, <1>2, <1>3

\* The calls on streams and descriptors.
LEMMA StreamSteps ==
  ASSUME IInv
  PROVE  /\ Stdio => IInv'
         /\ LoseTable => IInv'
         /\ \A f \in Files : Fclose(f) => IInv'
         /\ \A fd \in FDs : Fdopen(fd) => IInv'
         /\ \A fd \in FDs : FdopenUnused(fd) => IInv'
         /\ \A fd \in FDs : Close(fd) => IInv'
<1>s. Sound(Lib) /\ Sound(Sinited(Lib))
  BY SinitedSound DEF IInv
<1>t. Lib.fp = fp /\ Lib.iob = iob
  BY DEF Lib
<1>1. ASSUME Stdio PROVE IInv'
  <2>1. Sound(Lib)'
    BY <1>1, <1>s, BecomesSound DEF Stdio
  <2>2. RestOK'
    BY <1>1, LearnsOK DEF Stdio, IInv, Quiet, RestOK
  <2> QED BY <2>1, <2>2 DEF IInv
<1>2. ASSUME LoseTable PROVE IInv'
  <2>1. Sound(Lib)'
    BY <1>2, <1>s, BecomesSound DEF LoseTable
  <2>2. RestOK'
    BY <1>2 DEF LoseTable, NoTable, IInv, RestOK, Phases
  <2> QED BY <2>1, <2>2 DEF IInv
<1>3. ASSUME NEW f \in Files, Fclose(f) PROVE IInv'
  <2>1. PICK ok \in BOOLEAN : Becomes(FcloseFile(Lib, f, ok))
    BY <1>3 DEF Fclose
  <2>2. Sound(FcloseFile(Lib, f, ok))
    BY <1>s, FcloseSound
  <2>3. Sound(Lib)'
    BY <2>1, <2>2, BecomesSound
  <2>4. RestOK'
    BY <1>3, LearnsOK DEF Fclose, IInv, Quiet, RestOK
  <2> QED BY <2>3, <2>4 DEF IInv
<1>4. ASSUME NEW fd \in FDs, Fdopen(fd) PROVE IInv'
  <2>1. fp[fd] \in Files
    BY <1>4, <1>s, <1>t DEF Fdopen, Sound, LIB
  <2>2. Sound(SetStream(Lib, fp[fd], fd))
    BY <2>1, <1>s, FlagsSound
  <2>3. Sound(Lib)'
    BY <1>4, <2>2, BecomesSound DEF Fdopen
  <2>4. RestOK'
    BY <1>4, LearnsOK DEF Fdopen, IInv, Quiet, RestOK
  <2> QED BY <2>3, <2>4 DEF IInv
<1>5. ASSUME NEW fd \in FDs, FdopenUnused(fd) PROVE IInv'
  <2> DEFINE S == Sinited(Lib)
  <2>1. PICK f \in Files : Becomes([SetStream(Reserved(S, f), f, fd) EXCEPT !.fp[fd] = f])
    BY <1>5 DEF FdopenUnused
  <2> HIDE DEF S
  <2>2. Sound(Reserved(S, f))
    BY <1>s, ReservedSound DEF S
  <2>3. Sound(SetStream(Reserved(S, f), f, fd))
    BY <2>2, FlagsSound
  <2>4. Sound([SetStream(Reserved(S, f), f, fd) EXCEPT !.fp[fd] = f])
    BY <2>3, ReplaceEntry
  <2>5. Sound(Lib)'
    BY <2>1, <2>4, BecomesSound
  <2>6. RestOK'
    BY <1>5, LearnsOK DEF FdopenUnused, IInv, RestOK
  <2> QED BY <2>5, <2>6 DEF IInv
<1>6. ASSUME NEW fd \in FDs, Close(fd) PROVE IInv'
  <2>1. PICK ok \in BOOLEAN :
          /\ Becomes(CloseFd(Lib, fd, ok))
          /\ Learns({}, IF CloseSucceeds(Lib, fd, ok) THEN {fd} ELSE {})
    BY <1>6 DEF Close
  <2>2. Sound(CloseFd(Lib, fd, ok))
    BY <1>s, CloseFdSound
  <2>3. Sound(Lib)'
    BY <2>1, <2>2, BecomesSound
  <2>4. RestOK'
    BY <1>6, <2>1, LearnsOK DEF Close, IInv, Quiet, RestOK
  <2> QED BY <2>3, <2>4 DEF IInv
<1> QED BY <1>1, <1>2, <1>3, <1>4, <1>5, <1>6

\* What dup() and dup2() install.
LEMMA DuplicateSound ==
  ASSUME NEW L, Sound(L), NEW f \in Files, NEW newd \in FDs,
         Duplicate(L, f, newd) \/ NotDuplicated(L, f)
  PROVE  Sound(Lib)'
<1>1. CASE Becomes([L EXCEPT !.fp[newd] = f, !.iob[f].nestcnt = @ + 1])
  <2>1. Sound([L EXCEPT !.fp[newd] = f, !.iob[f].nestcnt = @ + 1])
    BY ShareSound
  <2> QED BY <1>1, <2>1, BecomesSound
<1>2. ASSUME NEW g \in Files, NEW h \in FreeHandles(L), Becomes(SocketFile(L, g, newd, h))
      PROVE  Sound(Lib)'
  <2>1. h \in Handles /\ Fresh(L, h)
    BY DEF FreeHandles, Fresh, Own
  <2>2. Sound(SocketFile(L, g, newd, h))
    BY <2>1, SocketFileSound
  <2> QED BY <1>2, <2>2, BecomesSound
<1>3. CASE Becomes(L)
  BY <1>3, BecomesSound
<1> QED BY <1>1, <1>2, <1>3 DEF Duplicate, DupSockets, NotDuplicated

\* The calls that duplicate, and sockets.
LEMMA DupSteps ==
  ASSUME IInv
  PROVE  /\ \A fd \in FDs : Dup(fd) => IInv'
         /\ \A fd \in FDs : FcntlDup(fd) => IInv'
         /\ \A oldd \in FDs, newd \in DupTargets : Dup2(oldd, newd) => IInv'
         /\ \A h \in Handles : Socket(h) => IInv'
         /\ \A h \in Handles : SocketNoFile(h) => IInv'
<1>s. Sound(Lib) /\ Sound(Sinited(Lib)) /\ Sinited(Lib).dos = Lib.dos /\ Sinited(Lib).maxfd = Lib.maxfd
  BY SinitedSound DEF IInv
<1>t. Lib.fp = fp /\ Lib.iob = iob /\ Lib.dos = dos /\ Lib.maxfd = maxfd
  BY DEF Lib
<1>d. 0 \in FDs /\ DupTargets \subseteq FDs
  BY SizeAssumption DEF FDs
<1>1. ASSUME NEW oldd \in FDs, Dup(oldd) PROVE IInv'
  <2>1. fp[oldd] \in Files
    BY <1>1, <1>s, <1>t DEF Dup, Sound, LIB
  <2>2. PICK fd \in FDs :
          /\ IsGetfd(Lib, fd)
          /\ \/ /\ Duplicate(Getfd(Lib, fd), fp[oldd], DupTarget(fd))
                /\ Learns({DupTarget(fd)}, {}) /\ miscounted' = (miscounted \/ DupTarget(fd) < 3)
             \/ /\ NotDuplicated(Getfd(Lib, fd), fp[oldd])
                /\ Learns({}, {}) /\ UNCHANGED miscounted
    BY <1>1 DEF Dup
  <2>3. Sound(Getfd(Lib, fd)) /\ DupTarget(fd) \in FDs
    BY <1>s, <1>d, <2>2, GetfdSound DEF DupTarget
  <2>4. Sound(Lib)'
    BY <2>1, <2>2, <2>3, DuplicateSound
  <2>5. RestOK'
    BY <1>1, <2>2, <2>3, LearnsOK DEF Dup, IInv, RestOK
  <2> QED BY <2>4, <2>5 DEF IInv
<1>2. ASSUME NEW fd \in FDs, FcntlDup(fd) PROVE IInv'
  <2>1. fp[fd] \in Files
    BY <1>2, <1>s, <1>t DEF FcntlDup, Sound, LIB
  <2>2. PICK newfd \in FDs :
          /\ IsGetfd(Lib, newfd)
          /\ Becomes([Getfd(Lib, newfd) EXCEPT !.fp[newfd] = fp[fd], !.iob[fp[fd]].nestcnt = @ + 1])
    BY <1>2 DEF FcntlDup
  <2>3. Sound(Getfd(Lib, newfd))
    BY <1>s, <2>2, GetfdSound
  <2>4. Sound([Getfd(Lib, newfd) EXCEPT !.fp[newfd] = fp[fd], !.iob[fp[fd]].nestcnt = @ + 1])
    BY <2>1, <2>3, ShareSound
  <2>5. Sound(Lib)'
    BY <2>2, <2>4, BecomesSound
  <2>6. RestOK'
    BY <1>2, LearnsOK DEF FcntlDup, IInv, Quiet, RestOK
  <2> QED BY <2>5, <2>6 DEF IInv
<1>3. ASSUME NEW oldd \in FDs, NEW newd \in DupTargets, Dup2(oldd, newd) PROVE IInv'
  <2> DEFINE Closed(ok) == IF fp[newd] # NULL THEN CloseFd(Lib, newd, ok) ELSE Lib
  <2>1. fp[oldd] \in Files /\ newd \in FDs
    BY <1>3, <1>s, <1>t, <1>d DEF Dup2, Sound, LIB
  <2>2. PICK ok \in BOOLEAN :
          \/ /\ Duplicate(Closed(ok), fp[oldd], newd)
             /\ Learns({newd}, {}) /\ miscounted' = (miscounted \/ Miscounts(oldd, newd, ok))
          \/ /\ NotDuplicated(Closed(ok), fp[oldd])
             /\ Learns({}, {newd} \ (0 .. 2)) /\ UNCHANGED miscounted
    BY <1>3 DEF Dup2
  <2>3. Sound(Closed(ok))
    BY <1>s, CloseFdSound
  <2> HIDE DEF Closed
  <2>4. Sound(Lib)'
    BY <2>1, <2>2, <2>3, DuplicateSound
  <2>5. miscounted' \in BOOLEAN
    BY <2>2 DEF IInv, RestOK, Miscounts
  <2>6. RestOK'
    BY <1>3, <2>1, <2>2, <2>5, LearnsOK DEF Dup2, IInv
  <2> QED BY <2>4, <2>6 DEF IInv
<1>4. ASSUME NEW h \in Handles, Socket(h) PROVE IInv'
  <2> DEFINE S == Sinited(Lib)
  <2>1. PICK fd \in FDs, f \in Files :
          /\ IsGetfd(Lib, fd) /\ IsSfp(S, f)
          /\ Becomes(SocketFile(Getfd(S, fd), f, fd, h))
          /\ Learns({fd}, {})
    BY <1>4 DEF Socket
  <2>2. IsGetfd(S, fd)
    BY <1>s, <2>1, SinitedTable
  <2>3. Sound(Getfd(S, fd)) /\ Getfd(S, fd).dos = Lib.dos
    BY <1>s, <2>2, GetfdSound
  <2>4. Fresh(Getfd(S, fd), h)
    BY <1>4, <1>t, <2>3 DEF Socket, FreeHandles, Fresh, Own
  <2>5. Sound(SocketFile(Getfd(S, fd), f, fd, h))
    BY <2>3, <2>4, SocketFileSound
  <2>6. Sound(Lib)'
    BY <2>1, <2>5, BecomesSound
  <2>7. RestOK'
    BY <1>4, <2>1, LearnsOK DEF Socket, IInv, Quiet, RestOK
  <2> QED BY <2>6, <2>7 DEF IInv
<1>5. ASSUME NEW h \in Handles, SocketNoFile(h) PROVE IInv'
  <2> DEFINE S == Sinited(Lib)
  <2>1. PICK fd \in FDs : IsGetfd(Lib, fd) /\ Becomes([Getfd(S, fd) EXCEPT !.dos[h] = "sock"])
    BY <1>5 DEF SocketNoFile
  <2>2. IsGetfd(S, fd)
    BY <1>s, <2>1, SinitedTable
  <2>3. Sound(Getfd(S, fd))
    BY <1>s, <2>2, GetfdSound
  <2>4. Sound([Getfd(S, fd) EXCEPT !.dos[h] = "sock"])
    BY <2>3, StrandHandle DEF DosState
  <2>5. Sound(Lib)'
    BY <2>1, <2>4, BecomesSound
  <2>6. RestOK'
    BY <1>5, LearnsOK DEF SocketNoFile, IInv, Quiet, RestOK
  <2> QED BY <2>5, <2>6 DEF IInv
<1> QED BY <1>1, <1>2, <1>3, <1>4, <1>5

\* The steps of exit().
LEMMA ExitSteps ==
  ASSUME IInv
  PROVE  /\ Exit => IInv'
         /\ Cleanup => IInv'
         /\ CleanupEnds => IInv'
         /\ ExitFd => IInv'
         /\ ExitFdEnds => IInv'
<1>s. Sound(Lib) /\ RestOK
  BY DEF IInv
<1>1. ASSUME Exit \/ CleanupEnds \/ ExitFdEnds PROVE IInv'
  <2>1. Sound(Lib)'
    BY <1>1, <1>s, LibUnchanged DEF Exit, CleanupEnds, ExitFdEnds
  <2>2. RestOK'
    BY <1>1, <1>s DEF Exit, CleanupEnds, ExitFdEnds, RestOK, Phases
  <2> QED BY <2>1, <2>2 DEF IInv
<1>2. ASSUME Cleanup PROVE IInv'
  <2>1. CASE Becomes(Lib) /\ UNCHANGED faulted
    <3>1. Sound(Lib)'
      BY <2>1, <1>s, BecomesSound
    <3>2. RestOK'
      BY <2>1, <1>2, <1>s DEF Cleanup, RestOK
    <3> QED BY <3>1, <3>2 DEF IInv
  <2>2. ASSUME NEW ok \in BOOLEAN, Becomes(FcloseFile(Lib, cursor, ok)), faulted' = (faulted \/ ~ok)
        PROVE  IInv'
    <3>1. Sound(FcloseFile(Lib, cursor, ok))
      BY <1>2, <1>s, FcloseSound DEF Cleanup
    <3>2. Sound(Lib)'
      BY <2>2, <3>1, BecomesSound
    <3>3. RestOK'
      BY <2>2, <1>2, <1>s DEF Cleanup, RestOK
    <3> QED BY <3>2, <3>3 DEF IInv
  <2> QED BY <1>2, <2>1, <2>2 DEF Cleanup
<1>3. ASSUME ExitFd PROVE IInv'
  <2>1. CASE Becomes(Lib) /\ UNCHANGED faulted
    <3>1. Sound(Lib)'
      BY <2>1, <1>s, BecomesSound
    <3>2. RestOK'
      BY <2>1, <1>3, <1>s DEF ExitFd, RestOK
    <3> QED BY <3>1, <3>2 DEF IInv
  <2>2. ASSUME NEW ok \in BOOLEAN, Becomes(CloseFd(Lib, cursor, ok)), faulted' = (faulted \/ ~ok)
        PROVE  IInv'
    <3>1. Sound(CloseFd(Lib, cursor, ok))
      BY <1>s, CloseFdSound
    <3>2. Sound(Lib)'
      BY <2>2, <3>1, BecomesSound
    <3>3. RestOK'
      BY <2>2, <1>3, <1>s DEF ExitFd, RestOK
    <3> QED BY <3>2, <3>3 DEF IInv
  <2> QED BY <1>3, <2>1, <2>2 DEF ExitFd
<1> QED BY <1>1, <1>2, <1>3

\* Every step keeps the invariant: one lemma for each group of calls.
LEMMA NextIInv == IInv /\ [Next]_vars => IInv'
<1> SUFFICES ASSUME IInv, [Next]_vars PROVE IInv'
  OBVIOUS
<1>1. CASE Stdio \/ LoseTable
  BY <1>1, StreamSteps
<1>2. ASSUME NEW flags \in Requests, Open(flags) \/ Fopen(flags) PROVE IInv'
  BY <1>2, OpenSteps
<1>3. ASSUME NEW f \in Files, NEW flags \in Requests, Freopen(f, flags) PROVE IInv'
  BY <1>3, OpenSteps
<1>4. ASSUME NEW f \in Files, Fclose(f) PROVE IInv'
  BY <1>4, StreamSteps
<1>5. ASSUME NEW fd \in FDs, Fdopen(fd) \/ FdopenUnused(fd) \/ Close(fd) PROVE IInv'
  BY <1>5, StreamSteps
<1>6. ASSUME NEW fd \in FDs, Dup(fd) \/ FcntlDup(fd) PROVE IInv'
  BY <1>6, DupSteps
<1>7. ASSUME NEW oldd \in FDs, NEW newd \in DupTargets, Dup2(oldd, newd) PROVE IInv'
  BY <1>7, DupSteps
<1>8. ASSUME NEW h \in Handles, Socket(h) \/ SocketNoFile(h) PROVE IInv'
  BY <1>8, DupSteps
<1>9. CASE Exit \/ Cleanup \/ CleanupEnds \/ ExitFd \/ ExitFdEnds
  BY <1>9, ExitSteps
<1>10. CASE UNCHANGED vars
  <2>1. Sound(Lib)' /\ RestOK'
    BY <1>10, LibUnchanged DEF vars, IInv, RestOK
  <2> QED BY <2>1 DEF IInv
<1> QED BY <1>1, <1>2, <1>3, <1>4, <1>5, <1>6, <1>7, <1>8, <1>9, <1>10 DEF Next

\* Whatever is opened, shared, reopened and closed, for a table, a pool and a set of
\* handles of any size: the state keeps its types, no FILE keeps a handle after its
\* close(), and no two FILEs hold the same one.
THEOREM HandlesSafe == Spec => [](TypeOK /\ NoStaleHandle /\ OneOwner)
<1>1. IInv => TypeOK /\ NoStaleHandle /\ OneOwner
  BY SoundMeans DEF IInv
<1> QED BY <1>1, InitIInv, NextIInv, PTL DEF Spec

\* Each variable keeps its type.
THEOREM TypeCorrect == Spec => []TypeOK
BY HandlesSafe, PTL

\* No FILE keeps a handle after close() gave it back (close.c:42-50).
THEOREM NeverStale == Spec => []NoStaleHandle
BY HandlesSafe, PTL

\* No two FILEs hold one handle, not even the FILEs of a duplicated socket.
THEOREM NeverShared == Spec => []OneOwner
BY HandlesSafe, PTL

----------------------------------------------------------------------------
(* The counts of shared FILEs.                                             *)

\* The descriptors from c on that lead to FILE f, and their number.
Left(L, c, f) == {d \in c .. MaxfdBound - 1 : L.fp[d] = f}
Count(L, c, f) == Cardinality(Left(L, c, f))

\* There are finitely many of them.
LEMMA LeftFinite ==
  ASSUME NEW L, NEW c \in Nat, NEW f
  PROVE  IsFiniteSet(Left(L, c, f)) /\ Count(L, c, f) \in Nat
<1>1. IsFiniteSet(c .. MaxfdBound - 1)
  BY SizeAssumption, FS_Interval
<1>2. IsFiniteSet(Left(L, c, f))
  BY <1>1, FS_Subset DEF Left
<1> QED
  BY <1>2, FS_CardinalityType DEF Count

\* An entry of the table is given to FILE v, or cleared: the count of v and of the FILE
\* that had it change by one, no other.
LEMMA CountEntry ==
  ASSUME NEW L \in LIB, NEW M, NEW d \in FDs, NEW v, M.fp = [L.fp EXCEPT ![d] = v],
         NEW c \in Nat, NEW f
  PROVE  /\ d < c => Count(M, c, f) = Count(L, c, f)
         /\ (v = f) = (L.fp[d] = f) => Count(M, c, f) = Count(L, c, f)
         /\ d >= c /\ v = f /\ L.fp[d] # f => Count(M, c, f) = Count(L, c, f) + 1
         /\ d >= c /\ v # f /\ L.fp[d] = f => Count(M, c, f) = Count(L, c, f) - 1
<1>1. M.fp[d] = v /\ \A e \in c .. MaxfdBound - 1 : e # d => M.fp[e] = L.fp[e]
  BY SizeAssumption DEF LIB, FDs
<1>2. d \in Nat /\ d <= MaxfdBound - 1
  BY SizeAssumption DEF FDs
<1>3. ASSUME d < c \/ (v = f) = (L.fp[d] = f) PROVE Left(M, c, f) = Left(L, c, f)
  BY <1>1, <1>2, <1>3 DEF Left
<1>4. ASSUME d >= c, v = f, L.fp[d] # f PROVE Count(M, c, f) = Count(L, c, f) + 1
  <2>1. Left(M, c, f) = Left(L, c, f) \cup {d} /\ d \notin Left(L, c, f)
    BY <1>1, <1>2, <1>4, SizeAssumption DEF Left
  <2> QED
    BY <2>1, LeftFinite, FS_AddElement DEF Count
<1>5. ASSUME d >= c, v # f, L.fp[d] = f PROVE Count(M, c, f) = Count(L, c, f) - 1
  <2>1. Left(M, c, f) = Left(L, c, f) \ {d} /\ d \in Left(L, c, f)
    BY <1>1, <1>2, <1>5, SizeAssumption DEF Left
  <2> QED
    BY <2>1, LeftFinite, FS_RemoveElement DEF Count
<1> QED
  BY <1>3, <1>4, <1>5 DEF Count

\* The descriptors are the same.
LEMMA CountSame ==
  ASSUME NEW L, NEW M, NEW c \in Nat, NEW f,
         \A d \in c .. MaxfdBound - 1 : M.fp[d] = L.fp[d]
  PROVE  Count(M, c, f) = Count(L, c, f)
<1>1. Left(M, c, f) = Left(L, c, f)
  BY DEF Left
<1> QED
  BY <1>1 DEF Count

\* So is the table.
LEMMA CountTable ==
  ASSUME NEW L, NEW M, M.fp = L.fp, NEW c, NEW f
  PROVE  Count(M, c, f) = Count(L, c, f)
<1>1. Left(M, c, f) = Left(L, c, f)
  BY DEF Left
<1> QED
  BY <1>1 DEF Count

\* The first descriptor is left behind.
LEMMA CountNext ==
  ASSUME NEW L, NEW c \in FDs, NEW f
  PROVE  Count(L, c + 1, f) = IF L.fp[c] = f THEN Count(L, c, f) - 1 ELSE Count(L, c, f)
<1>1. c \in Nat /\ c <= MaxfdBound - 1 /\ MaxfdBound \in Nat
  BY SizeAssumption DEF FDs
<1>2. CASE L.fp[c] = f
  <2>1. Left(L, c + 1, f) = Left(L, c, f) \ {c} /\ c \in Left(L, c, f)
    BY <1>1, <1>2 DEF Left
  <2> QED
    BY <1>1, <1>2, <2>1, LeftFinite, FS_RemoveElement DEF Count
<1>3. CASE L.fp[c] # f
  <2>1. Left(L, c + 1, f) = Left(L, c, f)
    BY <1>1, <1>3 DEF Left
  <2> QED
    BY <1>3, <2>1 DEF Count
<1> QED
  BY <1>2, <1>3

----------------------------------------------------------------------------
\* A count does not exceed the number of descriptors, and is lower while the FILE has a
\* handle that can be lost.
Within(L, f, n) == L.iob[f].nestcnt <= n /\ (Own(L.iob[f].handle) => L.iob[f].nestcnt < n)

Counted(L) == \A f \in Files : Within(L, f, Count(L, 3, f))

\* No descriptor is above the table.
NoneAbove(L) == \A d \in FDs : d >= L.maxfd => L.fp[d] = NULL

Even(L) == Sound(L) /\ Counted(L) /\ NoneAbove(L)

\* Descriptor fd can be given away: it has no FILE, or one that is counted without it.
Spare(L, fd) ==
  \/ L.fp[fd] = NULL
  \/ L.fp[fd] \in Files /\ Within(L, L.fp[fd], Count(L, 3, L.fp[fd]) - 1)

\* FILE g becomes r and the FILE of descriptor fd.
Installs(L, M, fd, g, r) ==
  /\ M.fp = [L.fp EXCEPT ![fd] = g] /\ M.iob = [L.iob EXCEPT ![g] = r] /\ M.maxfd = L.maxfd

\* Installing a FILE at a spare entry keeps the counts right: it is a FILE that nothing refers to
\* yet, or one that counts at most one more.
LEMMA InstallCounted ==
  ASSUME NEW L, Even(L), NEW M, NEW fd \in FDs, 3 <= fd, fd < L.maxfd, Spare(L, fd),
         NEW g \in Files, NEW r \in FILE, Installs(L, M, fd, g, r),
         \/ r.nestcnt = 0
         \/ L.fp[fd] # g /\ r.nestcnt = L.iob[g].nestcnt
         \/ L.fp[fd] # g /\ r.nestcnt = L.iob[g].nestcnt + 1 /\ r.handle = L.iob[g].handle
  PROVE  Counted(M) /\ NoneAbove(M)
<1>1. L \in LIB /\ L.maxfd \in Nat
  BY SizeAssumption DEF Even, Sound, LIB
<1>2. NoneAbove(M)
  BY <1>1 DEF Installs, NoneAbove, Even, LIB, FDs
<1>3. ASSUME NEW f \in Files PROVE Within(M, f, Count(M, 3, f))
  <2>1. Count(L, 3, f) \in Nat /\ Count(M, 3, f) \in Nat
    BY LeftFinite
  <2>2. L.iob[f] \in FILE /\ L.iob[f].nestcnt \in Nat /\ r.nestcnt \in Nat
    BY <1>1 DEF LIB, FILE
  <2>3. /\ L.fp[fd] = f => f = g \/ Count(M, 3, f) = Count(L, 3, f) - 1
        /\ L.fp[fd] # f => Count(M, 3, f) = IF f = g THEN Count(L, 3, f) + 1 ELSE Count(L, 3, f)
        /\ L.fp[fd] = f /\ f = g => Count(M, 3, f) = Count(L, 3, f)
    <3>1. M.fp = [L.fp EXCEPT ![fd] = g] /\ fd >= 3 /\ 3 \in Nat
      BY DEF Installs, FDs
    <3>2. /\ (g = f) = (L.fp[fd] = f) => Count(M, 3, f) = Count(L, 3, f)
          /\ fd >= 3 /\ g = f /\ L.fp[fd] # f => Count(M, 3, f) = Count(L, 3, f) + 1
          /\ fd >= 3 /\ g # f /\ L.fp[fd] = f => Count(M, 3, f) = Count(L, 3, f) - 1
      <4> HIDE DEF Installs
      <4> QED BY ONLY <1>1, <3>1, CountEntry
    <3> QED BY <3>1, <3>2
  <2>4. Within(L, f, Count(L, 3, f))
    BY DEF Even, Counted
  <2>5. CASE f # g
    <3>1. M.iob[f] = L.iob[f]
      BY <1>1, <2>5 DEF Installs, LIB
    <3>2. CASE L.fp[fd] = f
      <4>1. Within(L, f, Count(L, 3, f) - 1)
        BY <3>2, ValueAssumption DEF Spare
      <4> QED
        BY <2>3, <2>5, <3>1, <3>2, <4>1 DEF Within
    <3>3. CASE L.fp[fd] # f
      BY <2>3, <2>4, <2>5, <3>1, <3>3 DEF Within
    <3> QED BY <3>2, <3>3
  <2>6. CASE f = g
    <3>1. M.iob[f] = r
      BY <1>1, <2>6 DEF Installs, LIB
    <3>2. M.fp[fd] = f
      BY <1>1, <2>6 DEF Installs, LIB
    <3>3. Count(M, 3, f) > 0
      <4>1. fd \in Left(M, 3, f)
        BY <3>2, SizeAssumption DEF Left, FDs
      <4> QED
        BY <2>1, <4>1, LeftFinite, FS_EmptySet DEF Count
    <3>4. CASE r.nestcnt = 0
      BY <2>1, <3>1, <3>3, <3>4 DEF Within
    <3>5. CASE L.fp[fd] # g /\ r.nestcnt = L.iob[g].nestcnt
      BY <2>1, <2>2, <2>3, <2>4, <2>6, <3>1, <3>5 DEF Within
    <3>6. CASE L.fp[fd] # g /\ r.nestcnt = L.iob[g].nestcnt + 1 /\ r.handle = L.iob[g].handle
      BY <2>1, <2>2, <2>3, <2>4, <2>6, <3>1, <3>6 DEF Within
    <3> QED BY <3>4, <3>5, <3>6
  <2> QED BY <2>5, <2>6
<1> QED BY <1>2, <1>3 DEF Counted

\* Nothing of what is counted changes.
LEMMA EvenSame ==
  ASSUME NEW L, Even(L), NEW M, Sound(M), M.maxfd = L.maxfd, M.fp = L.fp,
         \A f \in Files : /\ M.iob[f].nestcnt = L.iob[f].nestcnt
                          /\ Own(M.iob[f].handle) => Own(L.iob[f].handle)
  PROVE  Even(M)
<1>1. \A f \in Files : Count(M, 3, f) = Count(L, 3, f)
  BY CountTable
<1> QED
  BY <1>1 DEF Even, Counted, Within, NoneAbove

\* __sinit()
LEMMA SinitedEven ==
  ASSUME NEW L, Even(L)
  PROVE  Even(Sinited(L)) /\ \A d \in FDs : d >= 3 => Sinited(L).fp[d] = L.fp[d]
<1> DEFINE S == Sinited(L)
<1>1. Sound(S) /\ S.maxfd = L.maxfd
  BY SinitedSound DEF Even
<1>2. CASE L.sdidinit
  BY <1>2 DEF Sinited
<1>3. CASE ~L.sdidinit
  <2>1. /\ S.iob = [f \in Files |-> IF f < 3 THEN StdFile(f) ELSE L.iob[f]]
        /\ S.fp = [d \in FDs |-> IF d < 3 THEN d ELSE L.fp[d]]
    BY <1>3 DEF Sinited, Even, Sound, LIB
  <2>2. \A d \in FDs : d >= 3 => S.fp[d] = L.fp[d]
    BY <2>1, SizeAssumption DEF FDs
  <2>3. \A f \in Files : Count(S, 3, f) = Count(L, 3, f)
    <3>1. \A d \in 3 .. MaxfdBound - 1 : S.fp[d] = L.fp[d]
      BY <2>2, SizeAssumption DEF FDs
    <3> QED
      BY <3>1, CountSame
  <2>4. ASSUME NEW f \in Files PROVE Within(S, f, Count(S, 3, f))
    <3>1. CASE f < 3
      <4>1. f \in 0 .. 2
        BY <3>1 DEF Files
      <4>2. S.iob[f] = StdFile(f)
        BY <2>1, <3>1
      <4>3. S.iob[f].nestcnt = 0 /\ ~Own(S.iob[f].handle)
        BY <4>1, <4>2, FilesTyped DEF StdFile, Own
      <4> QED
        BY <4>3, LeftFinite DEF Within
    <3>2. CASE ~(f < 3)
      BY <2>1, <2>3, <3>2 DEF Even, Counted, Within
    <3> QED BY <3>1, <3>2
  <2>5. NoneAbove(S)
    <3>1. L.maxfd \in Nat /\ L.maxfd > 3
      BY SizeAssumption DEF Even, Sound, LIB
    <3> QED
      BY <1>1, <2>2, <3>1 DEF NoneAbove, Even, FDs
  <2> QED
    BY <1>1, <2>2, <2>4, <2>5 DEF Even, Counted
<1> QED BY <1>2, <1>3

\* __sfp()
LEMMA ReservedEven ==
  ASSUME NEW L, Even(L), NEW f \in Files
  PROVE  /\ Even(Reserved(L, f))
         /\ Reserved(L, f).iob[f] = [Blank EXCEPT !.flags = "reserved"]
         /\ \A g \in Files \ {f} : Reserved(L, f).iob[g] = L.iob[g]
<1> DEFINE R == Reserved(L, f)
<1>1. Sound(R) /\ R.dos = L.dos /\ R.maxfd = L.maxfd /\ R.fp = L.fp
  BY ReservedSound DEF Even
<1>2. /\ R.iob[f] = [Blank EXCEPT !.flags = "reserved"]
      /\ \A g \in Files \ {f} : R.iob[g] = L.iob[g]
  BY DEF Reserved, Even, Sound, LIB
<1>3. R.iob[f].nestcnt = 0 /\ ~Own(R.iob[f].handle)
  BY <1>2, ValueAssumption DEF Blank, Own
<1>4. ASSUME NEW g \in Files PROVE Within(R, g, Count(R, 3, g))
  <2>1. Count(R, 3, g) = Count(L, 3, g) /\ Count(R, 3, g) \in Nat
    BY <1>1, CountTable, LeftFinite
  <2>2. CASE g = f
    BY <1>3, <2>1, <2>2 DEF Within
  <2>3. CASE g # f
    BY <1>2, <2>1, <2>3 DEF Even, Counted, Within
  <2> QED BY <2>2, <2>3
<1> QED
  BY <1>1, <1>2, <1>4 DEF Even, Counted, NoneAbove

\* The caller sets the flags of a FILE, and its descriptor.
LEMMA FlagsEven ==
  ASSUME NEW L, Even(L), NEW f \in Files
  PROVE  /\ \A fl \in FileFlags : Even(SetFlags(L, f, fl))
         /\ \A fd \in FDs : Even(SetStream(L, f, fd))
<1>1. L.iob \in [Files -> FILE] /\ L.iob[f] \in FILE
  BY DEF Even, Sound, LIB
<1>2. ASSUME NEW fl \in FileFlags PROVE Even(SetFlags(L, f, fl))
  <2> DEFINE M == SetFlags(L, f, fl)
  <2>1. Sound(M)
    BY FlagsSound DEF Even
  <2>2. M.iob = [L.iob EXCEPT ![f] = [L.iob[f] EXCEPT !.flags = fl]] /\ M.fp = L.fp /\ M.maxfd = L.maxfd
    BY DEF SetFlags, Even, Sound, LIB
  <2>3. \A g \in Files : M.iob[g].nestcnt = L.iob[g].nestcnt /\ M.iob[g].handle = L.iob[g].handle
    BY <1>1, <2>2 DEF FILE
  <2> QED
    BY <2>1, <2>2, <2>3, EvenSame
<1>3. ASSUME NEW fd \in FDs PROVE Even(SetStream(L, f, fd))
  <2> DEFINE M == SetStream(L, f, fd)
  <2>1. Sound(M)
    BY FlagsSound DEF Even
  <2>2. /\ M.iob = [L.iob EXCEPT ![f] = [L.iob[f] EXCEPT !.flags = "stream", !.file = fd]]
        /\ M.fp = L.fp /\ M.maxfd = L.maxfd
    BY DEF SetStream, Even, Sound, LIB
  <2>3. \A g \in Files : M.iob[g].nestcnt = L.iob[g].nestcnt /\ M.iob[g].handle = L.iob[g].handle
    BY <1>1, <2>2 DEF FILE
  <2> QED
    BY <2>1, <2>2, <2>3, EvenSame
<1> QED BY <1>2, <1>3

\* getfd() moves the table when it is full; the new entries are empty.
LEMMA GetfdEven ==
  ASSUME NEW L, Even(L), NEW fd \in FDs, IsGetfd(L, fd)
  PROVE  /\ Even(Getfd(L, fd))
         /\ Getfd(L, fd).fp = L.fp /\ L.fp[fd] = NULL
         /\ 3 <= fd /\ fd < Getfd(L, fd).maxfd /\ L.maxfd <= Getfd(L, fd).maxfd
<1> DEFINE G == Getfd(L, fd)
<1>1. Sound(G) /\ G.dos = L.dos /\ G.iob = L.iob
  BY GetfdSound DEF Even
<1>2. L \in LIB /\ L.maxfd \in Nat /\ L.maxfd > 3
  BY SizeAssumption DEF Even, Sound, LIB
<1>3. 3 <= fd /\ L.fp[fd] = NULL
  BY <1>2 DEF IsGetfd, Even, NoneAbove
<1>4. CASE fd < L.maxfd
  BY <1>2, <1>3, <1>4 DEF Getfd
<1>5. CASE ~(fd < L.maxfd)
  <2>1. fd = L.maxfd
    BY <1>2, <1>5 DEF IsGetfd
  <2>2. G.fp = [d \in FDs |-> IF d < L.maxfd THEN L.fp[d] ELSE NULL] /\ G.maxfd = L.maxfd + L.maxfd + Slack
    BY <1>2, <1>5 DEF Getfd, LIB
  <2>3. L.fp = [d \in FDs |-> L.fp[d]] /\ \A d \in FDs : ~(d < L.maxfd) => L.fp[d] = NULL
    <3>1. L.fp = [d \in FDs |-> L.fp[d]]
      BY <1>2 DEF LIB
    <3>2. \A d \in FDs : ~(d < L.maxfd) => d >= L.maxfd
      BY <1>2 DEF FDs
    <3> QED
      BY <3>1, <3>2 DEF Even, NoneAbove
  <2>4. G.fp = L.fp
    BY <2>2, <2>3
  <2>5. G.maxfd > fd /\ G.maxfd \in Nat
    BY <1>2, <2>1, <2>2, SizeAssumption
  <2>6. \A f \in Files : Count(G, 3, f) = Count(L, 3, f)
    BY <2>4, CountTable
  <2>7. Counted(G)
    BY <1>1, <2>6 DEF Even, Counted, Within
  <2>8. NoneAbove(G)
    BY <1>2, <2>1, <2>3, <2>4, <2>5 DEF NoneAbove, FDs
  <2> QED
    BY <1>1, <1>2, <1>3, <2>1, <2>4, <2>5, <2>7, <2>8 DEF Even
<1> QED BY <1>4, <1>5

\* What close() does with the FILE f of the descriptor fd: it counts down, or it gives up
\* the handle and clears the entry.
CountsDown(L, C, f) ==
  /\ L.iob[f].nestcnt > 0
  /\ C.fp = L.fp /\ C.maxfd = L.maxfd /\ C.dos = L.dos
  /\ C.iob = [L.iob EXCEPT ![f] = [L.iob[f] EXCEPT !.nestcnt = @ - 1]]

GivesUp(L, C, fd, f) ==
  LET h == L.iob[f].handle IN
  /\ L.iob[f].nestcnt = 0
  /\ C.fp = [L.fp EXCEPT ![fd] = NULL] /\ C.maxfd = L.maxfd
  /\ C.iob = [L.iob EXCEPT ![f] = Emptied(L.iob[f])]
  /\ \A k \in Handles : k # h => C.dos[k] = L.dos[k]
  /\ Own(h) /\ L.dos[h] = ReleaseKind(L.iob[f]) => C.dos[h] = "closed"

\* close() does nothing, counts down or gives up the handle, and which of them.
LEMMA CloseCases ==
  ASSUME NEW L, Sound(L), NEW fd, NEW ok \in BOOLEAN, NEW C, C = CloseFd(L, fd, ok)
  PROVE  \/ /\ C = L
            /\ fd \in 3 .. L.maxfd - 1 /\ L.fp[fd] # NULL => ~CloseSucceeds(L, fd, ok)
         \/ /\ fd \in 3 .. L.maxfd - 1 /\ fd \in FDs /\ L.fp[fd] \in Files
            /\ CountsDown(L, C, L.fp[fd]) \/ GivesUp(L, C, fd, L.fp[fd])
<1> DEFINE f == L.fp[fd]
           r == L.iob[f]
<1>1. CASE fd \notin 3 .. L.maxfd - 1
  BY <1>1 DEF CloseFd
<1>2. CASE fd \in 3 .. L.maxfd - 1 /\ f = NULL
  BY <1>2 DEF CloseFd
<1>3. CASE fd \in 3 .. L.maxfd - 1 /\ f # NULL
  <2>1. L \in LIB /\ fd \in FDs
    BY <1>3, SizeAssumption DEF Sound, LIB, FDs
  <2>2. f \in Files /\ r \in FILE /\ r.nestcnt \in Nat
    BY <1>3, <2>1 DEF LIB, FILE
  <2>3. CASE IsNested(r)
    <3>1. C = [L EXCEPT !.iob[f].nestcnt = @ - 1]
      BY <1>3, <2>3 DEF CloseFd, CloseNested
    <3>2. CountsDown(L, C, f)
      BY <2>1, <2>2, <2>3, <3>1 DEF CountsDown, IsNested, LIB
    <3> QED BY <1>3, <2>1, <2>2, <3>2
  <2>4. CASE ~IsNested(r) /\ CloseRefused(r, ok)
    <3>1. C = L
      BY <1>3, <2>4 DEF CloseFd
    <3>2. ~CloseSucceeds(L, fd, ok)
      BY <1>3, <2>4, SizeAssumption DEF CloseSucceeds
    <3> QED BY <3>1, <3>2
  <2>5. CASE ~IsNested(r) /\ ~CloseRefused(r, ok)
    <3> DEFINE R == Release(L, r.handle, ReleaseKind(r))
    <3>1. C = [R EXCEPT !.iob[f] = Emptied(@), !.fp[fd] = NULL]
      BY <1>3, <2>5 DEF CloseFd
    <3>2. /\ R \in LIB /\ R.iob = L.iob /\ R.fp = L.fp /\ R.maxfd = L.maxfd
          /\ \A k \in Handles : k # r.handle => R.dos[k] = L.dos[k]
      BY SMTT(20), <2>1, <2>2, ReleaseTyped DEF FILE
    <3>3. Own(r.handle) /\ L.dos[r.handle] = ReleaseKind(r) => R.dos[r.handle] = "closed"
      BY <2>1, ValueAssumption DEF Release, Own, LIB
    <3> HIDE DEF R
    <3>4. /\ C.fp = [L.fp EXCEPT ![fd] = NULL] /\ C.maxfd = L.maxfd /\ C.dos = R.dos
          /\ C.iob = [L.iob EXCEPT ![f] = Emptied(L.iob[f])]
      BY <2>1, <2>2, <3>1, <3>2 DEF LIB
    <3>5. r.nestcnt = 0
      BY <2>2, <2>5 DEF IsNested
    <3>6. GivesUp(L, C, fd, f)
      BY <3>2, <3>3, <3>4, <3>5 DEF GivesUp
    <3> QED BY <1>3, <2>1, <2>2, <3>6
  <2> QED BY <2>3, <2>4, <2>5
<1> QED BY <1>1, <1>2, <1>3

\* The FILEs and the entries after either.
LEMMA CountsDownFields ==
  ASSUME NEW L \in LIB, NEW C, NEW f \in Files, CountsDown(L, C, f)
  PROVE  /\ L.iob[f].nestcnt \in Nat /\ C.fp = L.fp
         /\ C.iob[f].nestcnt = L.iob[f].nestcnt - 1 /\ C.iob[f].handle = L.iob[f].handle
         /\ \A g \in Files \ {f} : C.iob[g] = L.iob[g]
<1>1. L.iob[f] \in FILE /\ L.iob[f].nestcnt \in Nat
  BY DEF LIB, FILE
<1> QED BY <1>1 DEF CountsDown, LIB, FILE

\* What giving up a handle leaves of its FILE and of the others.
LEMMA GivesUpFields ==
  ASSUME NEW L \in LIB, NEW C, NEW fd \in FDs, NEW f \in Files, GivesUp(L, C, fd, f)
  PROVE  /\ C.iob[f].handle = NoHandle
         /\ \A g \in Files \ {f} : C.iob[g] = L.iob[g]
         /\ C.fp[fd] = NULL /\ \A d \in FDs \ {fd} : C.fp[d] = L.fp[d]
<1>1. L.iob[f] \in FILE
  BY DEF LIB
<1>2. C.iob[f].handle = NoHandle /\ \A g \in Files \ {f} : C.iob[g] = L.iob[g]
  BY <1>1 DEF GivesUp, LIB, FILE, Emptied
<1>3. C.fp[fd] = NULL /\ \A d \in FDs \ {fd} : C.fp[d] = L.fp[d]
  BY DEF GivesUp, LIB
<1> QED BY <1>2, <1>3

\* close(): an unshared FILE is left without a handle, a shared one with a count that is
\* right without the descriptor.
LEMMA CloseEven ==
  ASSUME NEW L, Even(L), NEW fd, NEW ok \in BOOLEAN, NEW C, C = CloseFd(L, fd, ok)
  PROVE  /\ Even(C)
         /\ fd \in FDs /\ 3 <= fd /\ (L.fp[fd] = NULL \/ CloseSucceeds(L, fd, ok)) => Spare(C, fd)
         /\ \A g \in Files : g # L.fp[fd] => C.iob[g] = L.iob[g]
         /\ \A d \in FDs : C.fp[d] = L.fp[d] \/ (d = fd /\ C.fp[d] = NULL)
         /\ C.maxfd = L.maxfd
<1> DEFINE f == L.fp[fd]
<1>1. Sound(C) /\ C.maxfd = L.maxfd
  BY CloseFdSound DEF Even
<1>2. L \in LIB /\ L.maxfd \in Nat
  BY SizeAssumption DEF Even, Sound, LIB
<1>3. CASE C = L /\ (fd \in 3 .. L.maxfd - 1 /\ f # NULL => ~CloseSucceeds(L, fd, ok))
  <2>1. ASSUME fd \in FDs, 3 <= fd, f = NULL \/ CloseSucceeds(L, fd, ok) PROVE Spare(C, fd)
    BY <1>2, <1>3, <2>1 DEF Spare, Even, NoneAbove, FDs
  <2> QED BY <1>3, <2>1
<1>4. CASE fd \in 3 .. L.maxfd - 1 /\ fd \in FDs /\ f \in Files /\ CountsDown(L, C, f)
  <2>1. L.iob[f] \in FILE /\ L.iob[f].nestcnt \in Nat
    BY <1>2, <1>4 DEF LIB, FILE
  <2>2. /\ C.iob[f].nestcnt = L.iob[f].nestcnt - 1 /\ C.iob[f].handle = L.iob[f].handle
        /\ \A g \in Files \ {f} : C.iob[g] = L.iob[g]
    BY <1>2, <1>4, <2>1 DEF CountsDown, LIB, FILE
  <2>3. \A g \in Files : Count(C, 3, g) = Count(L, 3, g) /\ Count(L, 3, g) \in Nat
    BY <1>4, CountTable, LeftFinite DEF CountsDown
  <2>4. Within(C, f, Count(C, 3, f) - 1)
    BY <1>4, <2>1, <2>2, <2>3 DEF Within, Even, Counted
  <2>5. ASSUME NEW g \in Files PROVE Within(C, g, Count(C, 3, g))
    <3>1. CASE g = f
      BY <2>1, <2>2, <2>3, <2>4, <3>1 DEF Within
    <3>2. CASE g # f
      BY <2>2, <2>3, <3>2 DEF Within, Even, Counted
    <3> QED BY <3>1, <3>2
  <2>6. Even(C)
    BY <1>1, <1>4, <2>5 DEF Even, Counted, NoneAbove, CountsDown
  <2>7. Spare(C, fd)
    BY <1>4, <2>4 DEF Spare, CountsDown
  <2> QED BY <1>1, <1>4, <2>2, <2>6, <2>7 DEF CountsDown
<1>5. CASE fd \in 3 .. L.maxfd - 1 /\ fd \in FDs /\ f \in Files /\ GivesUp(L, C, fd, f)
  <2>1. L.iob[f] \in FILE /\ L.iob[f].nestcnt = 0
    BY <1>2, <1>5 DEF LIB, GivesUp
  <2>2. /\ C.iob[f].nestcnt = 0 /\ C.iob[f].handle = NoHandle
        /\ \A g \in Files \ {f} : C.iob[g] = L.iob[g]
    BY <1>2, <1>5, <2>1 DEF GivesUp, LIB, FILE, Emptied
  <2>3. C.fp[fd] = NULL /\ \A d \in FDs : d # fd => C.fp[d] = L.fp[d]
    BY <1>2, <1>5 DEF GivesUp, LIB
  <2>4. \A g \in Files \ {f} : Count(C, 3, g) = Count(L, 3, g)
    BY <1>2, <1>5, CountEntry, ValueAssumption DEF GivesUp
  <2>5. ASSUME NEW g \in Files PROVE Within(C, g, Count(C, 3, g))
    <3>1. CASE g = f
      BY <2>2, <3>1, LeftFinite, ValueAssumption DEF Within, Own
    <3>2. CASE g # f
      BY <2>2, <2>4, <3>2 DEF Within, Even, Counted
    <3> QED BY <3>1, <3>2
  <2>6. NoneAbove(C)
    BY <1>1, <2>3 DEF NoneAbove, Even
  <2> QED BY <1>1, <2>2, <2>3, <2>5, <2>6 DEF Even, Counted, Spare
<1> QED BY <1>3, <1>4, <1>5, CloseCases DEF Even

\* fclose()
LEMMA FcloseEven ==
  ASSUME NEW L, Even(L), NEW f \in Files, NEW ok \in BOOLEAN
  PROVE  Even(FcloseFile(L, f, ok))
<1> DEFINE c == IF L.iob[f].flags = "stream" THEN CloseFd(L, L.iob[f].file, ok) ELSE L
<1>1. Even(c)
  BY CloseEven
<1>2. FcloseFile(L, f, ok) = SetFlags(c, f, "free")
  BY DEF FcloseFile
<1> HIDE DEF c
<1> QED BY <1>1, <1>2, FlagsEven DEF FileFlags

\* _open_fp()
LEMMA OpenFpEven ==
  ASSUME NEW L, Even(L), NEW f \in Files, NEW fd \in FDs, IsGetfd(L, fd),
         NEW res, NEW h, Given(L, res, h)
  PROVE  Even(OpenFp(L, f, fd, res, h))
<1> DEFINE G == Getfd(L, fd)
           O == OpenFp(L, f, fd, res, h)
           r == Holding(G.iob[f], res, h)
<1>1. Even(G) /\ G.fp[fd] = NULL /\ 3 <= fd /\ fd < G.maxfd
  BY GetfdEven
<1>2. Sound(O)
  BY OpenFpSound DEF Even
<1>3. CASE res = "refused"
  BY <1>1, <1>3 DEF OpenFp
<1>4. CASE res = "stranded"
  <2>1. O = [G EXCEPT !.dos[h] = "file"]
    BY <1>4 DEF OpenFp
  <2> HIDE DEF G, O
  <2>2. O.iob = G.iob /\ O.fp = G.fp /\ O.maxfd = G.maxfd
    BY <1>1, <2>1 DEF Even, Sound, LIB
  <2>3. Even(O)
    BY <1>1, <1>2, <2>2, EvenSame
  <2> QED BY <2>3 DEF O
<1>5. CASE res \in {"lock", "file"}
  <2>1. O = [G EXCEPT !.dos[h] = res, !.fp[fd] = f, !.iob[f] = r]
    BY <1>5 DEF OpenFp
  <2>2. G.iob[f] \in FILE /\ h \in Handles
    BY <1>1, <1>5 DEF Given, Even, Sound, LIB
  <2> HIDE DEF G
  <2>3. r \in FILE /\ r.nestcnt = G.iob[f].nestcnt
    BY <1>5, <2>2 DEF Holding, FILE, FdFlags
  <2> HIDE DEF O, r
  <2>4. Installs(G, O, fd, f, r)
    BY <1>1, <2>1 DEF Installs, Even, Sound, LIB
  <2>5. Counted(O) /\ NoneAbove(O)
    BY <1>1, <2>3, <2>4, InstallCounted, ValueAssumption DEF Spare
  <2> QED BY <1>2, <2>5 DEF Even, O
<1> QED BY <1>3, <1>4, <1>5 DEF Given, Results

\* _open_fp() as fopen() and freopen() finish it.
LEMMA OpenStreamEven ==
  ASSUME NEW L, Even(L), NEW f \in Files, NEW fd \in FDs, IsGetfd(L, fd),
         NEW res, NEW h, Given(L, res, h)
  PROVE  Even(OpenStream(L, f, fd, res, h))
<1> DEFINE O == OpenFp(L, f, fd, res, h)
<1>1. Even(O)
  BY OpenFpEven
<1>2. OpenStream(L, f, fd, res, h) = IF Opened(res) THEN SetStream(O, f, fd) ELSE SetFlags(O, f, "free")
  BY DEF OpenStream
<1> HIDE DEF O
<1> QED BY <1>1, <1>2, FlagsEven DEF FileFlags

\* The FILE of a socket is new, and counts nothing.
LEMMA SocketFileEven ==
  ASSUME NEW L, Even(L), NEW g \in Files, NEW fd \in FDs, 3 <= fd, fd < L.maxfd, Spare(L, fd),
         NEW h \in Handles, Fresh(L, h)
  PROVE  Even(SocketFile(L, g, fd, h))
<1> DEFINE r == [Blank EXCEPT !.flags = "reserved", !.file = fd, !.handle = h, !.fdflags = {"SOCKET"}]
           M == SocketFile(L, g, fd, h)
<1>1. r \in FILE /\ r.nestcnt = 0
  BY FilesTyped DEF Blank, FILE, FileFlags, FdFlags
<1>2. M = [L EXCEPT !.dos[h] = "sock", !.fp[fd] = g, !.iob[g] = r]
  BY DEF SocketFile
<1>3. Sound(M)
  BY SocketFileSound DEF Even
<1> HIDE DEF r, M
<1>4. Installs(L, M, fd, g, r)
  BY <1>2 DEF Installs, Even, Sound, LIB
<1>5. Counted(M) /\ NoneAbove(M)
  BY <1>1, <1>4, InstallCounted
<1> QED BY <1>3, <1>5 DEF Even, M

\* A descriptor is made to share FILE f, which it did not before.
LEMMA ShareEven ==
  ASSUME NEW L, Even(L), NEW f \in Files, NEW fd \in FDs, 3 <= fd, fd < L.maxfd, Spare(L, fd),
         L.fp[fd] # f
  PROVE  Even([L EXCEPT !.fp[fd] = f, !.iob[f].nestcnt = @ + 1])
<1> DEFINE r == [L.iob[f] EXCEPT !.nestcnt = L.iob[f].nestcnt + 1]
           M == [L EXCEPT !.fp[fd] = f, !.iob[f].nestcnt = @ + 1]
<1>1. L.iob[f] \in FILE
  BY DEF Even, Sound, LIB
<1>2. r \in FILE /\ r.nestcnt = L.iob[f].nestcnt + 1 /\ r.handle = L.iob[f].handle
  BY <1>1 DEF FILE
<1>3. Sound(M)
  BY ShareSound DEF Even
<1>4. M.fp = [L.fp EXCEPT ![fd] = f] /\ M.iob = [L.iob EXCEPT ![f] = r] /\ M.maxfd = L.maxfd
  BY DEF Even, Sound, LIB
<1> HIDE DEF r, M
<1>5. Installs(L, M, fd, f, r)
  BY <1>4 DEF Installs
<1>6. Counted(M) /\ NoneAbove(M)
  BY <1>2, <1>5, InstallCounted
<1>7. Even(M)
  BY <1>3, <1>6 DEF Even
<1> QED BY <1>7 DEF M

\* fdopen() gives a descriptor that has no FILE a blank one.
LEMMA BlankEven ==
  ASSUME NEW L, Even(L), NEW f \in Files, NEW fd \in FDs, 3 <= fd, fd < L.maxfd, L.fp[fd] = NULL
  PROVE  Even([SetStream(Reserved(L, f), f, fd) EXCEPT !.fp[fd] = f])
<1> DEFINE K == SetStream(Reserved(L, f), f, fd)
           M == [K EXCEPT !.fp[fd] = f]
<1>1. Even(K)
  BY ReservedEven, FlagsEven
<1>2. K.fp = L.fp /\ K.maxfd = L.maxfd
  BY DEF SetStream, Reserved, Even, Sound, LIB
<1> HIDE DEF K
<1>3. Sound(M)
  BY <1>1, ReplaceEntry DEF Even
<1>4. K.iob[f] \in FILE /\ K.iob = [K.iob EXCEPT ![f] = K.iob[f]]
  BY <1>1 DEF Even, Sound, LIB
<1>5. M.fp = [K.fp EXCEPT ![fd] = f] /\ M.iob = K.iob /\ M.maxfd = K.maxfd
  BY <1>1 DEF Even, Sound, LIB
<1>6. Installs(K, M, fd, f, K.iob[f])
  BY <1>4, <1>5 DEF Installs
<1>7. Counted(M) /\ NoneAbove(M)
  BY <1>1, <1>2, <1>4, <1>6, InstallCounted, ValueAssumption DEF Spare
<1> QED BY <1>3, <1>7 DEF Even, K

\* The variables take the values an operator computed.
LEMMA BecomesEven ==
  ASSUME NEW L, Even(L), Becomes(L)
  PROVE  Even(Lib)'
<1>1. Lib' = L
  BY DEF Becomes, Lib, Even, Sound, LIB
<1> QED BY <1>1 DEF Even, Sound, NoStale, Distinct, Counted, Within, NoneAbove, Count, Left

\* A step that leaves the library alone keeps the counts right.
LEMMA EvenUnchanged ==
  ASSUME Even(Lib), UNCHANGED <<fp, maxfd, iob, dos, sdidinit>>
  PROVE  Even(Lib)'
<1>1. Lib' = Lib
  BY DEF Lib
<1> QED BY <1>1 DEF Even, Sound, NoStale, Distinct, Counted, Within, NoneAbove, Count, Left

----------------------------------------------------------------------------
\* The calls that open.
LEMMA OpenCounts ==
  ASSUME Even(Lib), NEW flags \in Requests
  PROVE  /\ Open(flags) => Even(Lib)'
         /\ Fopen(flags) => Even(Lib)'
         /\ \A f \in Files : Freopen(f, flags) => Even(Lib)'
<1> DEFINE S == Sinited(Lib)
<1>s. Even(S) /\ Sound(S)
  BY SinitedEven DEF Even
<1>1. ASSUME Open(flags) PROVE Even(Lib)'
  <2>1. PICK f \in Files, fd \in FDs, res \in OpenResults[flags], h \in FreeHandles(S) \cup {NoHandle} :
          LET R == Reserved(S, f) IN
          /\ IsSfp(S, f) /\ IsGetfd(R, fd)
          /\ (h = NoHandle) <=> (res = "refused")
          /\ Becomes(OpenFp(R, f, fd, res, h))
    BY <1>1 DEF Open
  <2> HIDE DEF S
  <2> DEFINE R == Reserved(S, f)
  <2>2. Even(R) /\ R.dos = S.dos
    BY <1>s, ReservedEven, ReservedSound
  <2>3. Given(S, res, h)
    BY <1>s, <2>1, OpenAnswers
  <2>4. Given(R, res, h)
    BY <2>2, <2>3 DEF Given, Fresh
  <2>5. IsGetfd(R, fd) /\ Becomes(OpenFp(R, f, fd, res, h))
    BY <2>1
  <2> HIDE DEF R
  <2>6. Even(OpenFp(R, f, fd, res, h))
    BY <2>2, <2>4, <2>5, OpenFpEven
  <2> QED BY <2>5, <2>6, BecomesEven
<1>2. ASSUME Fopen(flags) PROVE Even(Lib)'
  <2>1. PICK f \in Files, fd \in FDs, res \in OpenResults[flags], h \in FreeHandles(S) \cup {NoHandle} :
          LET R == Reserved(S, f) IN
          /\ IsSfp(S, f) /\ IsGetfd(R, fd)
          /\ (h = NoHandle) <=> (res = "refused")
          /\ Becomes(OpenStream(R, f, fd, res, h))
    BY <1>2 DEF Fopen
  <2> HIDE DEF S
  <2> DEFINE R == Reserved(S, f)
  <2>2. Even(R) /\ R.dos = S.dos
    BY <1>s, ReservedEven, ReservedSound
  <2>3. Given(S, res, h)
    BY <1>s, <2>1, OpenAnswers
  <2>4. Given(R, res, h)
    BY <2>2, <2>3 DEF Given, Fresh
  <2>5. IsGetfd(R, fd) /\ Becomes(OpenStream(R, f, fd, res, h))
    BY <2>1
  <2> HIDE DEF R
  <2>6. Even(OpenStream(R, f, fd, res, h))
    BY <2>2, <2>4, <2>5, OpenStreamEven
  <2> QED BY <2>5, <2>6, BecomesEven
<1>3. ASSUME NEW f \in Files, Freopen(f, flags) PROVE Even(Lib)'
  <2> DEFINE Closed(ok) == IF S.iob[f].flags = "stream" THEN CloseFd(S, S.iob[f].file, ok) ELSE S
  <2>1. PICK ok \in BOOLEAN, fd \in FDs, res \in OpenResults[flags], h \in FreeHandles(S) \cup {NoHandle} :
          /\ IsGetfd(Closed(ok), fd)
          /\ (h = NoHandle) <=> (res = "refused")
          /\ Becomes(OpenStream(Closed(ok), f, fd, res, h))
    BY <1>3 DEF Freopen
  <2> DEFINE C == Closed(ok)
  <2> HIDE DEF S
  <2>2. Even(C) /\ \A k \in Handles : S.dos[k] = "closed" => C.dos[k] = "closed"
    BY <1>s, CloseEven, CloseFdSound
  <2>3. Given(S, res, h)
    BY <1>s, <2>1, OpenAnswers
  <2>4. Given(C, res, h)
    BY <2>2, <2>3 DEF Given, Fresh, Own
  <2>5. IsGetfd(C, fd) /\ Becomes(OpenStream(C, f, fd, res, h))
    BY <2>1
  <2> HIDE DEF C
  <2>6. Even(OpenStream(C, f, fd, res, h))
    BY <2>2, <2>4, <2>5, OpenStreamEven
  <2> QED BY <2>5, <2>6, BecomesEven
<1> QED BY <1>1, <1>2, <1>3

\* The calls on streams and descriptors.
LEMMA StreamCounts ==
  ASSUME Even(Lib)
  PROVE  /\ Stdio => Even(Lib)'
         /\ LoseTable => Even(Lib)'
         /\ \A f \in Files : Fclose(f) => Even(Lib)'
         /\ \A fd \in FDs : Fdopen(fd) => Even(Lib)'
         /\ \A fd \in FDs : FdopenUnused(fd) /\ ~miscounted' => Even(Lib)'
         /\ \A fd \in FDs : Close(fd) => Even(Lib)'
<1>s. Even(Sinited(Lib)) /\ Sinited(Lib).maxfd = Lib.maxfd /\ \A d \in FDs : d >= 3 => Sinited(Lib).fp[d] = Lib.fp[d]
  BY SinitedEven, SinitedSound DEF Even
<1>t. Lib.fp = fp /\ Lib.iob = iob /\ Lib.maxfd = maxfd
  BY DEF Lib
<1>1. ASSUME Stdio PROVE Even(Lib)'
  BY <1>1, <1>s, BecomesEven DEF Stdio
<1>2. ASSUME LoseTable PROVE Even(Lib)'
  BY <1>2, BecomesEven DEF LoseTable
<1>3. ASSUME NEW f \in Files, Fclose(f) PROVE Even(Lib)'
  <2>1. PICK ok \in BOOLEAN : Becomes(FcloseFile(Lib, f, ok))
    BY <1>3 DEF Fclose
  <2> QED BY <2>1, FcloseEven, BecomesEven
<1>4. ASSUME NEW fd \in FDs, Fdopen(fd) PROVE Even(Lib)'
  <2>1. fp[fd] \in Files
    BY <1>4, <1>t DEF Fdopen, Even, Sound, LIB
  <2>2. Even(SetStream(Lib, fp[fd], fd))
    BY <2>1, FlagsEven
  <2> QED BY <1>4, <2>2, BecomesEven DEF Fdopen
<1>5. ASSUME NEW fd \in FDs, FdopenUnused(fd), ~miscounted' PROVE Even(Lib)'
  <2> DEFINE S == Sinited(Lib)
  <2>1. PICK f \in Files : Becomes([SetStream(Reserved(S, f), f, fd) EXCEPT !.fp[fd] = f])
    BY <1>5 DEF FdopenUnused
  <2>2. ~(fd < 3) /\ fd \in StdUsed \cup 3 .. maxfd - 1 /\ fp[fd] = NULL
    BY <1>5 DEF FdopenUnused, MayUse
  <2>3. 3 <= fd /\ fd < S.maxfd /\ S.fp[fd] = NULL
    <3>1. maxfd \in Nat
      BY <1>t, SizeAssumption DEF Even, Sound, LIB
    <3>2. 3 <= fd /\ fd < maxfd
      BY <2>2, <3>1, ValueAssumption DEF FDs
    <3> QED BY <1>s, <1>t, <2>2, <3>2
  <2> HIDE DEF S
  <2>4. Even([SetStream(Reserved(S, f), f, fd) EXCEPT !.fp[fd] = f])
    BY <1>s, <2>3, BlankEven DEF S
  <2> QED BY <2>1, <2>4, BecomesEven
<1>6. ASSUME NEW fd \in FDs, Close(fd) PROVE Even(Lib)'
  <2>1. PICK ok \in BOOLEAN : Becomes(CloseFd(Lib, fd, ok))
    BY <1>6 DEF Close
  <2>2. Even(CloseFd(Lib, fd, ok))
    BY CloseEven
  <2> QED BY <2>1, <2>2, BecomesEven
<1> QED BY <1>1, <1>2, <1>3, <1>4, <1>5, <1>6

\* What dup2() installs at a descriptor that can be given away.
LEMMA DuplicateEven ==
  ASSUME NEW L, Even(L), NEW f \in Files, NEW newd \in FDs, 3 <= newd, newd < L.maxfd,
         Spare(L, newd), L.fp[newd] # f, Duplicate(L, f, newd)
  PROVE  Even(Lib)'
<1>1. CASE Becomes([L EXCEPT !.fp[newd] = f, !.iob[f].nestcnt = @ + 1])
  <2>1. Even([L EXCEPT !.fp[newd] = f, !.iob[f].nestcnt = @ + 1])
    BY ShareEven
  <2> QED BY <1>1, <2>1, BecomesEven
<1>2. ASSUME NEW g \in Files, NEW h \in FreeHandles(L), Becomes(SocketFile(L, g, newd, h))
      PROVE  Even(Lib)'
  <2>1. h \in Handles /\ Fresh(L, h)
    BY DEF FreeHandles, Fresh, Own
  <2>2. Even(SocketFile(L, g, newd, h))
    BY <2>1, SocketFileEven
  <2> QED BY <1>2, <2>2, BecomesEven
<1> QED BY <1>1, <1>2 DEF Duplicate, DupSockets

\* The calls that duplicate, and sockets: dup() always lets the count and the
\* descriptors part, dup2() where Miscounts says so.
LEMMA DupCounts ==
  ASSUME Even(Lib), RestOK
  PROVE  /\ \A fd \in FDs : Dup(fd) /\ ~miscounted' => Even(Lib)'
         /\ \A fd \in FDs : FcntlDup(fd) => Even(Lib)'
         /\ \A oldd \in FDs, newd \in DupTargets : Dup2(oldd, newd) /\ ~miscounted' => Even(Lib)'
         /\ \A h \in Handles : Socket(h) => Even(Lib)'
         /\ \A h \in Handles : SocketNoFile(h) => Even(Lib)'
<1>s. Sound(Lib) /\ Even(Sinited(Lib)) /\ Sinited(Lib).dos = Lib.dos /\ Sinited(Lib).maxfd = Lib.maxfd
  BY SinitedEven, SinitedSound DEF Even
<1>t. Lib.fp = fp /\ Lib.iob = iob /\ Lib.dos = dos /\ Lib.maxfd = maxfd
  BY DEF Lib
<1>d. DupTargets \subseteq FDs /\ \A d \in DupTargets : d < maxfd
  BY <1>s, <1>t, SizeAssumption DEF FDs, Sound, LIB
<1>1. ASSUME NEW oldd \in FDs, Dup(oldd), ~miscounted' PROVE Even(Lib)'
  <2>1. PICK fd \in FDs :
          /\ IsGetfd(Lib, fd)
          /\ \/ /\ Duplicate(Getfd(Lib, fd), fp[oldd], DupTarget(fd))
                /\ Learns({DupTarget(fd)}, {}) /\ miscounted' = (miscounted \/ DupTarget(fd) < 3)
             \/ NotDuplicated(Getfd(Lib, fd), fp[oldd])
    BY <1>1 DEF Dup
  <2>2. DupTarget(fd) < 3
    BY DEF DupTarget
  <2>3. NotDuplicated(Getfd(Lib, fd), fp[oldd])
    BY <1>1, <2>1, <2>2, Zenon
  <2>4. Becomes(Getfd(Lib, fd))
    BY <2>3 DEF NotDuplicated
  <2>5. Even(Getfd(Lib, fd))
    BY <2>1, GetfdEven
  <2> QED BY <2>4, <2>5, BecomesEven
<1>2. ASSUME NEW fd \in FDs, FcntlDup(fd) PROVE Even(Lib)'
  <2>1. fp[fd] \in Files
    BY <1>2, <1>s, <1>t DEF FcntlDup, Sound, LIB
  <2>2. PICK newfd \in FDs :
          /\ IsGetfd(Lib, newfd)
          /\ Becomes([Getfd(Lib, newfd) EXCEPT !.fp[newfd] = fp[fd], !.iob[fp[fd]].nestcnt = @ + 1])
    BY <1>2 DEF FcntlDup
  <2> DEFINE G == Getfd(Lib, newfd)
  <2>3. Even(G) /\ G.fp[newfd] = NULL /\ 3 <= newfd /\ newfd < G.maxfd
    BY <2>2, GetfdEven
  <2> HIDE DEF G
  <2>4. Even([G EXCEPT !.fp[newfd] = fp[fd], !.iob[fp[fd]].nestcnt = @ + 1])
    BY <2>1, <2>3, ShareEven, ValueAssumption DEF Spare
  <2> QED BY <2>2, <2>4, BecomesEven DEF G
<1>3. ASSUME NEW oldd \in FDs, NEW newd \in DupTargets, Dup2(oldd, newd), ~miscounted' PROVE Even(Lib)'
  <2> DEFINE Closed(ok) == IF fp[newd] # NULL THEN CloseFd(Lib, newd, ok) ELSE Lib
  <2>1. fp[oldd] \in Files /\ newd \in FDs /\ newd < maxfd
    BY <1>3, <1>s, <1>t, <1>d DEF Dup2, Sound, LIB
  <2>2. PICK ok \in BOOLEAN :
          \/ Duplicate(Closed(ok), fp[oldd], newd) /\ miscounted' = (miscounted \/ Miscounts(oldd, newd, ok))
          \/ NotDuplicated(Closed(ok), fp[oldd])
    BY <1>3 DEF Dup2
  <2> DEFINE C == Closed(ok)
  <2>3. Even(C)
    BY CloseEven
  <2>4. CASE NotDuplicated(C, fp[oldd])
    <3> HIDE DEF C
    <3> QED BY <2>3, <2>4, BecomesEven DEF NotDuplicated
  <2>5. CASE Duplicate(C, fp[oldd], newd) /\ ~Miscounts(oldd, newd, ok)
    <3>1. ~(newd < 3) /\ (fp[newd] # NULL => fp[newd] # fp[oldd] /\ CloseSucceeds(Lib, newd, ok))
      BY <2>5 DEF Miscounts
    <3>2. 3 <= newd
      BY <2>1, <3>1 DEF FDs
    <3>3. newd < C.maxfd /\ Spare(C, newd) /\ C.fp[newd] # fp[oldd]
      <4>1. CASE fp[newd] = NULL
        BY <1>t, <2>1, <4>1, ValueAssumption DEF Spare
      <4>2. CASE fp[newd] # NULL
        <5>1. C = CloseFd(Lib, newd, ok)
          BY <4>2
        <5>2. /\ Spare(C, newd) /\ C.maxfd = Lib.maxfd
              /\ C.fp[newd] = Lib.fp[newd] \/ C.fp[newd] = NULL
          <6> HIDE DEF C
          <6> QED BY <1>t, <2>1, <3>1, <3>2, <4>2, <5>1, CloseEven
        <5> HIDE DEF C
        <5> QED BY <1>t, <2>1, <3>1, <4>2, <5>2, ValueAssumption
      <4> QED BY <4>1, <4>2
    <3> HIDE DEF C
    <3> QED BY <2>1, <2>3, <2>5, <3>2, <3>3, DuplicateEven
  <2> QED BY <1>3, <2>2, <2>4, <2>5 DEF RestOK
<1>4. ASSUME NEW h \in Handles, Socket(h) PROVE Even(Lib)'
  <2> DEFINE S == Sinited(Lib)
             G(fd) == Getfd(S, fd)
  <2>1. PICK fd \in FDs, f \in Files :
          IsGetfd(Lib, fd) /\ Becomes(SocketFile(Getfd(S, fd), f, fd, h))
    BY <1>4 DEF Socket
  <2>2. IsGetfd(S, fd)
    BY <1>s, <2>1, SinitedTable
  <2>3. Even(G(fd)) /\ G(fd).dos = Lib.dos /\ G(fd).fp[fd] = NULL /\ 3 <= fd /\ fd < G(fd).maxfd
    BY <1>s, <2>2, GetfdSound, GetfdEven DEF Even
  <2>4. Fresh(G(fd), h)
    BY <1>4, <1>t, <2>3 DEF Socket, FreeHandles, Fresh, Own
  <2> HIDE DEF G
  <2>5. Even(SocketFile(G(fd), f, fd, h))
    BY <2>3, <2>4, SocketFileEven DEF Spare
  <2> QED BY <2>1, <2>5, BecomesEven DEF G
<1>5. ASSUME NEW h \in Handles, SocketNoFile(h) PROVE Even(Lib)'
  <2> DEFINE S == Sinited(Lib)
  <2>1. PICK fd \in FDs : IsGetfd(Lib, fd) /\ Becomes([Getfd(S, fd) EXCEPT !.dos[h] = "sock"])
    BY <1>5 DEF SocketNoFile
  <2> DEFINE G == Getfd(S, fd)
             M == [G EXCEPT !.dos[h] = "sock"]
  <2>2. IsGetfd(S, fd)
    BY <1>s, <2>1, SinitedTable
  <2>3. Even(G)
    BY <1>s, <2>2, GetfdEven
  <2> HIDE DEF G
  <2>4. Sound(M) /\ M.fp = G.fp /\ M.iob = G.iob /\ M.maxfd = G.maxfd
    BY <2>3, StrandHandle DEF DosState, Even, Sound, LIB
  <2> HIDE DEF M
  <2>5. Even(M)
    BY <2>3, <2>4, EvenSame
  <2> QED BY <2>1, <2>5, BecomesEven DEF M, G
<1> QED BY <1>1, <1>2, <1>3, <1>4, <1>5

----------------------------------------------------------------------------
(* exit()                                                                  *)

\* What the loop of __exit_fd() relies on at descriptor c: a handle that is still open
\* has more descriptors to come than its FILE counts.
Lower(L, c) == \A f \in Files : Own(L.iob[f].handle) => L.iob[f].nestcnt < Count(L, c, f)

ExitLoop ==
  /\ phase = "exitfd" => cursor >= 3
  /\ phase = "exitfd" /\ ~miscounted /\ ~faulted => Lower(Lib, cursor)
  /\ phase = "done" /\ ~miscounted /\ ~faulted => \A f \in Files : ~Own(iob[f].handle)

CountInv == IInv /\ (~miscounted => Even(Lib)) /\ ExitLoop

\* Descriptor c, of FILE v, is the first that counts at c and does not count at n.
Passes(L, c, n, v) ==
  \A g \in Files : Count(L, n, g) = IF v = g THEN Count(L, c, g) - 1 ELSE Count(L, c, g)

\* A turn of the loop that counts down: one descriptor less is to come, and one less counted.
LEMMA TurnCountsDown ==
  ASSUME NEW L \in LIB, NEW C, NEW v \in Files, CountsDown(L, C, v),
         NEW c \in Nat, NEW n \in Nat, Passes(L, c, n, v), Lower(L, c)
  PROVE  Lower(C, n)
<1>1. /\ L.iob[v].nestcnt \in Nat /\ C.fp = L.fp
      /\ C.iob[v].nestcnt = L.iob[v].nestcnt - 1 /\ C.iob[v].handle = L.iob[v].handle
      /\ \A g \in Files \ {v} : C.iob[g] = L.iob[g]
  BY CountsDownFields
<1>2. ASSUME NEW g \in Files, Own(C.iob[g].handle) PROVE C.iob[g].nestcnt < Count(C, n, g)
  <2>1. Count(C, n, g) = Count(L, n, g) /\ Count(L, c, g) \in Nat
    BY <1>1, CountTable, LeftFinite
  <2>2. CASE g = v
    <3>1. L.iob[v].nestcnt < Count(L, c, v)
      BY <1>1, <1>2, <2>2 DEF Lower
    <3> QED BY <1>1, <2>1, <2>2, <3>1 DEF Passes
  <2>3. CASE g # v
    BY <1>1, <1>2, <2>1, <2>3 DEF Lower, Passes
  <2> QED BY <2>2, <2>3
<1> QED BY <1>2 DEF Lower

\* A turn that gives up the handle: its FILE no longer has one.
LEMMA TurnGivesUp ==
  ASSUME NEW L \in LIB, NEW C, NEW v \in Files, NEW c \in FDs, GivesUp(L, C, c, v),
         NEW n \in Nat, \A d \in n .. MaxfdBound - 1 : d \in FDs \ {c},
         Passes(L, c, n, v), Lower(L, c)
  PROVE  Lower(C, n)
<1>1. /\ C.iob[v].handle = NoHandle
      /\ \A g \in Files \ {v} : C.iob[g] = L.iob[g]
      /\ \A d \in FDs \ {c} : C.fp[d] = L.fp[d]
  BY GivesUpFields
<1>2. ASSUME NEW g \in Files, Own(C.iob[g].handle) PROVE C.iob[g].nestcnt < Count(C, n, g)
  <2>1. Count(C, n, g) = Count(L, n, g)
    <3>1. \A d \in n .. MaxfdBound - 1 : C.fp[d] = L.fp[d]
      BY <1>1
    <3> HIDE <1>1
    <3> QED BY <3>1, CountSame
  <2>2. g # v
    BY <1>1, <1>2, ValueAssumption DEF Own
  <2> QED BY <1>1, <1>2, <2>1, <2>2 DEF Lower, Passes
<1> QED BY <1>2 DEF Lower

\* One turn of the loop, Close() having answered well.
LEMMA LoopTurn ==
  ASSUME NEW L, Even(L), NEW c \in Nat, 3 <= c, c < L.maxfd, Lower(L, c)
  PROVE  Lower(CloseFd(L, c, TRUE), c + 1)
<1> DEFINE v == L.fp[c]
           n == c + 1
           C == CloseFd(L, c, TRUE)
<1>1. /\ L \in LIB /\ c \in FDs /\ n \in Nat /\ c \in 3 .. L.maxfd - 1
      /\ \A d \in n .. MaxfdBound - 1 : d \in FDs \ {c}
  <2>1. L \in LIB
    BY DEF Even, Sound
  <2> QED BY <2>1, SizeAssumption DEF LIB, FDs
<1>2. Passes(L, c, n, v)
  BY <1>1, CountNext DEF Passes
<1>3. \/ C = L /\ (v # NULL => ~CloseSucceeds(L, c, TRUE))
      \/ v \in Files /\ CountsDown(L, C, v)
      \/ v \in Files /\ GivesUp(L, C, c, v)
  BY <1>1, CloseCases DEF Even
<1>4. CASE C = L /\ (v # NULL => ~CloseSucceeds(L, c, TRUE))
  <2>1. v = NULL
    BY <1>1, <1>4 DEF CloseSucceeds, CloseRefused
  <2> HIDE DEF C, n, v
  <2>2. Lower(L, n)
    BY <1>2, <2>1, ValueAssumption DEF Lower, Passes
  <2> QED BY <1>4, <2>2 DEF C, n
<1>5. CASE v \in Files /\ CountsDown(L, C, v)
  <2> HIDE DEF C, n, v
  <2>1. Lower(C, n)
    BY <1>1, <1>2, <1>5, TurnCountsDown
  <2> QED BY <2>1 DEF C, n
<1>6. CASE v \in Files /\ GivesUp(L, C, c, v)
  <2> HIDE DEF C, n, v
  <2>1. Lower(C, n)
    BY <1>1, <1>2, <1>6, TurnGivesUp
  <2> QED BY <2>1 DEF C, n
<1> QED BY <1>3, <1>4, <1>5, <1>6

\* Above the table no FILE has a descriptor.
LEMMA LoopEnd ==
  ASSUME NEW L, Even(L), NEW c \in Nat, c >= L.maxfd, Lower(L, c)
  PROVE  \A f \in Files : ~Own(L.iob[f].handle)
<1> SUFFICES ASSUME NEW f \in Files, Own(L.iob[f].handle) PROVE FALSE
  OBVIOUS
<1>1. L.maxfd \in Nat /\ L.iob[f].nestcnt \in Nat
  BY SizeAssumption DEF Even, Sound, LIB, FILE
<1>2. Left(L, c, f) = {}
  BY <1>1, ValueAssumption, SizeAssumption DEF Left, Even, NoneAbove, FDs
<1>3. Count(L, c, f) = 0
  BY <1>2, FS_EmptySet DEF Count
<1> QED BY <1>1, <1>3 DEF Lower

\* What the loop relies on is a matter of the library alone.
LEMMA LowerPrimed ==
  ASSUME NEW L, L \in LIB, Becomes(L), NEW c, Lower(L, c), cursor' = c
  PROVE  Lower(Lib, cursor)'
<1>1. Lib' = L
  BY DEF Becomes, Lib, LIB
<1> QED BY <1>1 DEF Lower, Count, Left

\* At the start no FILE counts anything.
LEMMA InitCountInv == Init => CountInv
<1> SUFFICES ASSUME Init PROVE CountInv
  OBVIOUS
<1>1. IInv
  BY InitIInv
<1>2. \A f \in Files : Lib.iob[f].nestcnt = 0 /\ ~Own(Lib.iob[f].handle)
  BY ValueAssumption DEF Init, Lib, Blank, Own
<1>3. Counted(Lib)
  BY <1>2, LeftFinite DEF Counted, Within
<1>4. NoneAbove(Lib)
  BY DEF Init, Lib, NoneAbove
<1> QED BY <1>1, <1>3, <1>4 DEF CountInv, IInv, Even, ExitLoop, Init

\* The calls leave the program where it is, or without a table.
LEMMA CallPhase ==
  /\ \A flags \in Requests : Open(flags) \/ Fopen(flags) => phase' = "main"
  /\ \A f \in Files, flags \in Requests : Freopen(f, flags) => phase' = "main"
  /\ \A f \in Files : Fclose(f) => phase' = "main"
  /\ \A fd \in FDs : Fdopen(fd) \/ FdopenUnused(fd) \/ Close(fd) \/ Dup(fd) \/ FcntlDup(fd) => phase' = "main"
  /\ \A oldd \in FDs, newd \in DupTargets : Dup2(oldd, newd) => phase' = "main"
  /\ \A h \in Handles : Socket(h) \/ SocketNoFile(h) => phase' = "main"
  /\ Stdio => phase' = "main"
  /\ LoseTable => phase' = "wild"
<1>1. \A flags \in Requests : Open(flags) \/ Fopen(flags) => phase' = "main"
  BY DEF Open, Fopen, Called, Quiet
<1>2. \A f \in Files, flags \in Requests : Freopen(f, flags) => phase' = "main"
  BY DEF Freopen, Called, Quiet
<1>3. \A f \in Files : Fclose(f) => phase' = "main"
  BY DEF Fclose, Called, Quiet
<1>4. \A fd \in FDs : Fdopen(fd) \/ FdopenUnused(fd) \/ Close(fd) => phase' = "main"
  BY DEF Fdopen, FdopenUnused, Close, Called, Quiet
<1>5. \A fd \in FDs : Dup(fd) \/ FcntlDup(fd) => phase' = "main"
  BY DEF Dup, FcntlDup, Called, Quiet
<1>6. \A oldd \in FDs, newd \in DupTargets : Dup2(oldd, newd) => phase' = "main"
  BY DEF Dup2, Called
<1>7. \A h \in Handles : Socket(h) \/ SocketNoFile(h) => phase' = "main"
  BY DEF Socket, SocketNoFile, Called, Quiet
<1>8. (Stdio => phase' = "main") /\ (LoseTable => phase' = "wild")
  BY DEF Stdio, LoseTable, Quiet, NoTable
<1> QED BY <1>1, <1>2, <1>3, <1>4, <1>5, <1>6, <1>7, <1>8

\* A FILE that was miscounted stays so.
LEMMA MiscountStays ==
  ASSUME RestOK, Next, miscounted
  PROVE  miscounted'
<1>1. ASSUME NEW flags \in Requests, Open(flags) \/ Fopen(flags) PROVE miscounted'
  BY <1>1 DEF Open, Fopen, Quiet
<1>2. ASSUME NEW f \in Files, NEW flags \in Requests, Freopen(f, flags) PROVE miscounted'
  BY <1>2 DEF Freopen, Quiet
<1>3. ASSUME NEW f \in Files, Fclose(f) PROVE miscounted'
  BY <1>3 DEF Fclose, Quiet
<1>4. ASSUME NEW fd \in FDs, Fdopen(fd) \/ FdopenUnused(fd) \/ Close(fd) PROVE miscounted'
  BY <1>4, Zenon DEF Fdopen, FdopenUnused, Close, Quiet
<1>5. ASSUME NEW fd \in FDs, Dup(fd) \/ FcntlDup(fd) PROVE miscounted'
  BY <1>5, Zenon DEF Dup, FcntlDup, Quiet
<1>6. ASSUME NEW oldd \in FDs, NEW newd \in DupTargets, Dup2(oldd, newd) PROVE miscounted'
  BY <1>6, Zenon DEF Dup2
<1>7. ASSUME NEW h \in Handles, Socket(h) \/ SocketNoFile(h) PROVE miscounted'
  BY <1>7 DEF Socket, SocketNoFile, Quiet
<1>8. ASSUME Stdio \/ LoseTable PROVE miscounted'
  BY <1>8 DEF Stdio, LoseTable, Quiet, NoTable
<1>9. ASSUME Exit \/ Cleanup \/ CleanupEnds \/ ExitFd \/ ExitFdEnds PROVE miscounted'
  BY <1>9 DEF Exit, Cleanup, CleanupEnds, ExitFd, ExitFdEnds
<1> QED BY <1>1, <1>2, <1>3, <1>4, <1>5, <1>6, <1>7, <1>8, <1>9 DEF Next

\* The steps of exit().
LEMMA ExitCounts ==
  ASSUME Even(Lib), RestOK, ExitLoop
  PROVE  /\ Exit => Even(Lib)' /\ ExitLoop'
         /\ Cleanup => Even(Lib)' /\ ExitLoop'
         /\ CleanupEnds => Even(Lib)' /\ ExitLoop'
         /\ ExitFd => Even(Lib)' /\ ExitLoop'
         /\ ExitFdEnds => Even(Lib)' /\ ExitLoop'
<1>t. /\ Lib \in LIB /\ Lib.fp = fp /\ Lib.iob = iob /\ Lib.maxfd = maxfd
      /\ Becomes(Lib) <=> UNCHANGED <<fp, maxfd, iob, dos, sdidinit>>
  BY DEF Lib, Even, Sound, Becomes
<1>1. ASSUME Exit PROVE Even(Lib)' /\ ExitLoop'
  BY <1>1, EvenUnchanged DEF Exit, ExitLoop
<1>2. ASSUME Cleanup PROVE Even(Lib)' /\ ExitLoop'
  <2>1. ExitLoop'
    BY <1>2 DEF Cleanup, ExitLoop
  <2>2. CASE Becomes(Lib)
    BY <2>1, <2>2, BecomesEven
  <2>3. ASSUME NEW ok \in BOOLEAN, Becomes(FcloseFile(Lib, cursor, ok)) PROVE Even(Lib)'
    <3>1. Even(FcloseFile(Lib, cursor, ok))
      BY <1>2, FcloseEven DEF Cleanup
    <3> QED BY <2>3, <3>1, BecomesEven
  <2> QED BY <1>2, <2>1, <2>2, <2>3 DEF Cleanup
<1>3. ASSUME CleanupEnds PROVE Even(Lib)' /\ ExitLoop'
  <2>1. UNCHANGED <<fp, maxfd, iob, dos, sdidinit>> /\ phase' = "exitfd" /\ cursor' = 3
    BY <1>3 DEF CleanupEnds
  <2>2. Lower(Lib, 3)
    BY DEF Even, Counted, Within, Lower
  <2>3. Lower(Lib, cursor)'
    BY <1>t, <2>1, <2>2, LowerPrimed
  <2> QED BY <2>1, <2>3, EvenUnchanged DEF ExitLoop
<1>4. ASSUME ExitFd PROVE Even(Lib)' /\ ExitLoop'
  <2> DEFINE C(ok) == CloseFd(Lib, cursor, ok)
  <2>1. /\ phase = "exitfd" /\ phase' = phase /\ cursor' = cursor + 1 /\ miscounted' = miscounted
        /\ cursor < maxfd /\ cursor >= 3 /\ cursor \in Nat
    BY <1>4 DEF ExitFd, EndOfTable, ExitLoop, RestOK
  <2>2. PICK ok \in BOOLEAN : Becomes(C(ok)) /\ (~faulted' => ~faulted /\ ok = TRUE)
    <3>1. CASE fp[cursor] = NULL
      <4>1. C(TRUE) = Lib
        BY <1>t, <3>1 DEF CloseFd
      <4> QED BY <1>4, <3>1, <4>1 DEF ExitFd
    <3>2. CASE fp[cursor] # NULL
      BY <1>4, <3>2 DEF ExitFd, RestOK
    <3> QED BY <3>1, <3>2
  <2>3. Even(C(ok))
    BY CloseEven
  <2>4. Even(Lib)'
    BY <2>2, <2>3, BecomesEven
  <2>5. ASSUME ~miscounted', ~faulted' PROVE Lower(Lib, cursor)'
    <3>1. Lower(Lib, cursor)
      BY <2>1, <2>2, <2>5 DEF ExitLoop
    <3>2. Lower(C(ok), cursor + 1)
      BY <1>t, <2>1, <2>2, <2>5, <3>1, LoopTurn
    <3> QED BY <2>1, <2>2, <2>3, <3>2, LowerPrimed DEF Even, Sound
  <2> QED BY <2>1, <2>4, <2>5 DEF ExitLoop
<1>5. ASSUME ExitFdEnds PROVE Even(Lib)' /\ ExitLoop'
  <2>1. /\ UNCHANGED <<fp, maxfd, iob, dos, sdidinit, miscounted, faulted>>
        /\ phase = "exitfd" /\ phase' = "done" /\ cursor >= maxfd
    BY <1>5 DEF ExitFdEnds, EndOfTable
  <2>2. ASSUME ~miscounted, ~faulted PROVE \A f \in Files : ~Own(iob[f].handle)
    <3>1. Lower(Lib, cursor) /\ cursor \in Nat
      BY <2>1, <2>2 DEF ExitLoop, RestOK
    <3> QED BY <1>t, <2>1, <3>1, LoopEnd
  <2> QED BY <2>1, <2>2, EvenUnchanged DEF ExitLoop
<1> QED BY <1>1, <1>2, <1>3, <1>4, <1>5

\* Every step keeps the counts right unless it miscounts, and the loop of exit() as it needs them.
LEMMA NextCountInv == CountInv /\ [Next]_vars => CountInv'
<1> SUFFICES ASSUME CountInv, [Next]_vars PROVE CountInv'
  OBVIOUS
<1>r. IInv' /\ RestOK /\ RestOK'
  BY NextIInv DEF CountInv, IInv
<1>1. CASE UNCHANGED vars
  <2>1. (~miscounted => Even(Lib))'
    BY <1>1, EvenUnchanged DEF vars, CountInv
  <2>2. (Lower(Lib, cursor) => Lower(Lib, cursor)')
    BY <1>1 DEF vars, Lower, Count, Left, Lib
  <2>3. ExitLoop'
    BY <1>1, <2>2 DEF vars, CountInv, ExitLoop
  <2> QED BY <1>r, <2>1, <2>3 DEF CountInv
<1>2. CASE Next /\ miscounted'
  <2>1. ExitLoop'
    <3>1. phase' = "exitfd" => cursor' >= 3
      <4>1. CASE Exit \/ Cleanup \/ CleanupEnds \/ ExitFd \/ ExitFdEnds
        BY <4>1 DEF Exit, Cleanup, CleanupEnds, ExitFd, ExitFdEnds, CountInv, ExitLoop, IInv, RestOK
      <4>2. CASE ~(Exit \/ Cleanup \/ CleanupEnds \/ ExitFd \/ ExitFdEnds)
        BY <1>2, <4>2, CallPhase DEF Next
      <4> QED BY <4>1, <4>2
    <3> QED BY <1>2, <3>1 DEF ExitLoop
  <2> QED BY <1>2, <1>r, <2>1 DEF CountInv
<1>3. CASE Next /\ ~miscounted'
  <2>1. Even(Lib)
    BY <1>3, <1>r, MiscountStays DEF CountInv
  <2>2. CASE Exit \/ Cleanup \/ CleanupEnds \/ ExitFd \/ ExitFdEnds
    BY <1>r, <2>1, <2>2, ExitCounts DEF CountInv
  <2>3. CASE ~(Exit \/ Cleanup \/ CleanupEnds \/ ExitFd \/ ExitFdEnds)
    <3>1. phase' \in {"main", "wild"}
      BY <1>3, <2>3, CallPhase DEF Next
    <3>2. ExitLoop'
      BY <3>1 DEF ExitLoop
    <3>3. Even(Lib)'
      BY <1>3, <1>r, <2>1, <2>3, OpenCounts, StreamCounts, DupCounts DEF Next
    <3> QED BY <1>r, <3>2, <3>3 DEF CountInv
  <2> QED BY <1>r, <2>2, <2>3 DEF CountInv
<1> QED BY <1>1, <1>2, <1>3

\* Until dup() or dup2() let the two part, what close() consults (close.c:33) is lower than
\* the number of descriptors of the FILE, for a table and a pool of any size.
THEOREM NeverMiscounted == Spec => []NestBelowRefs
<1>1. CountInv => NestBelowRefs
  <2> SUFFICES ASSUME CountInv, ~miscounted, NEW f \in Files, Own(iob[f].handle)
               PROVE  iob[f].nestcnt < Cardinality(Refs(f))
    BY DEF NestBelowRefs
  <2>1. Within(Lib, f, Count(Lib, 3, f)) /\ Lib.iob = iob
    BY DEF CountInv, Even, Counted, Lib
  <2>2. Count(Lib, 3, f) = Cardinality(Refs(f))
    BY DEF Count, Left, Refs, Lib
  <2> QED BY <2>1, <2>2 DEF Within
<1> QED BY <1>1, InitCountInv, NextCountInv, PTL DEF Spec

\* When the loop of __exit_fd() has passed the last entry of the table (exit_fd.c), no FILE
\* holds a handle of the program any more, however the FILEs were shared, unless one was
\* miscounted or dos.library refused a Close().
THEOREM ExitLeavesNothing == Spec => []ExitCloses
<1>1. CountInv => ExitCloses
  <2> SUFFICES ASSUME CountInv, phase = "done", ~miscounted, ~faulted,
                      NEW d \in 3 .. maxfd - 1, fp[d] # NULL
               PROVE  ~Own(iob[fp[d]].handle)
    BY DEF ExitCloses
  <2>1. d \in FDs /\ fp \in [FDs -> Files \cup {NULL}]
    BY SizeAssumption DEF CountInv, IInv, Sound, LIB, Lib, FDs
  <2> QED BY <2>1 DEF CountInv, ExitLoop
<1> QED BY <1>1, InitCountInv, NextCountInv, PTL DEF Spec

----------------------------------------------------------------------------
(* What is held of the system is not lost.                                 *)

\* Until __sinit() has run no descriptor has a FILE and every FILE is free.
Untouched(L) ==
  ~L.sdidinit => /\ \A d \in FDs : L.fp[d] = NULL
                 /\ \A f \in Files : L.iob[f].flags = "free"

\* FILE f holds a handle that its close() would give back.
Holds(L, f) ==
  LET h == L.iob[f].handle
  IN Own(h) /\ L.iob[f].flags # "free" /\ L.dos[h] = ReleaseKind(L.iob[f])

\* What L holds so is, in M, closed or held, or its FILE has another handle.
Keeps(L, M) ==
  \A f \in Files : Holds(L, f) =>
    LET h == L.iob[f].handle IN
    \/ M.iob[f].handle # NoHandle
    \/ M.dos[h] = "closed"
    \/ \E g \in Files : M.iob[g].handle = h

\* Between C and M no FILE that is in use in L gives up its handle, and no handle that is
\* open in L is opened unless it is kept.
Moves(L, C, M) ==
  /\ \A f \in Files : C.iob[f].handle # NoHandle => M.iob[f].handle # NoHandle \/ L.iob[f].flags = "free"
  /\ \A k \in Handles : C.dos[k] = "closed" =>
       \/ M.dos[k] = "closed"
       \/ L.dos[k] = "closed"
       \/ \E g \in Files : M.iob[g].handle = k

\* What a close() does not give back.
LEMMA CloseKeeps ==
  ASSUME NEW L, Sound(L), NEW fd, NEW ok \in BOOLEAN, NEW C, C = CloseFd(L, fd, ok)
  PROVE  /\ \A f \in Files : Holds(L, f) => C.iob[f].handle # NoHandle \/ C.dos[L.iob[f].handle] = "closed"
         /\ \A k \in Handles : L.dos[k] = "closed" => C.dos[k] = "closed"
<1>1. \A k \in Handles : L.dos[k] = "closed" => C.dos[k] = "closed"
  BY CloseFdSound
<1>2. L \in LIB
  BY DEF Sound
<1>3. CASE C = L
  BY <1>1, <1>3, ValueAssumption DEF Holds, Own
<1>4. ASSUME NEW g \in Files, CountsDown(L, C, g)
      PROVE  \A f \in Files : Holds(L, f) => C.iob[f].handle # NoHandle
  BY <1>2, <1>4, CountsDownFields, ValueAssumption DEF Holds, Own
<1>5. ASSUME NEW g \in Files, fd \in FDs, GivesUp(L, C, fd, g)
      PROVE  \A f \in Files : Holds(L, f) => C.iob[f].handle # NoHandle \/ C.dos[L.iob[f].handle] = "closed"
  <2>1. \A f \in Files \ {g} : C.iob[f] = L.iob[f]
    BY ZenonT(40), <1>2, <1>5, GivesUpFields
  <2>2. Holds(L, g) => C.dos[L.iob[g].handle] = "closed"
    BY <1>5 DEF Holds, GivesUp
  <2> QED BY <2>1, <2>2, ValueAssumption DEF Holds, Own
<1> QED BY <1>1, <1>3, <1>4, <1>5, CloseCases

\* A close(), or none, and then such a move.
AfterClose(L, C) == C = L \/ \E fd \in FDs \cup {-1}, ok \in BOOLEAN : C = CloseFd(L, fd, ok)

\* A close() followed by what moves no handle keeps what is held.
LEMMA MoveKeeps ==
  ASSUME NEW L, Sound(L), NEW C, AfterClose(L, C), NEW M, Moves(L, C, M)
  PROVE  Keeps(L, M)
<1>1. \A f \in Files : Holds(L, f) => C.iob[f].handle # NoHandle \/ C.dos[L.iob[f].handle] = "closed"
  <2>1. CASE C = L
    BY <2>1, ValueAssumption DEF Holds, Own
  <2>2. ASSUME NEW fd \in FDs \cup {-1}, NEW ok \in BOOLEAN, C = CloseFd(L, fd, ok)
        PROVE  \A f \in Files : Holds(L, f) => C.iob[f].handle # NoHandle \/ C.dos[L.iob[f].handle] = "closed"
    BY <2>2, CloseKeeps
  <2> QED BY <2>1, <2>2 DEF AfterClose
<1>2. \A f \in Files : Holds(L, f) => L.iob[f].handle \in Handles /\ L.dos[L.iob[f].handle] # "closed"
  BY DEF Holds, Own, ReleaseKind
<1> QED BY <1>1, <1>2 DEF Moves, Keeps, Holds

\* What _open_fp() does to the FILEs and the handles.
LEMMA OpenFpHandles ==
  ASSUME NEW L, Sound(L), NEW f \in Files, NEW fd \in FDs, IsGetfd(L, fd),
         NEW res, NEW h, Given(L, res, h)
  PROVE  LET O == OpenFp(L, f, fd, res, h) IN
         /\ \A g \in Files : O.iob[g].handle = L.iob[g].handle \/ O.iob[g].handle # NoHandle
         /\ \A k \in Handles : k # h => O.dos[k] = L.dos[k]
<1> DEFINE G == Getfd(L, fd)
           O == OpenFp(L, f, fd, res, h)
           r == Holding(G.iob[f], res, h)
<1>1. G.iob = L.iob /\ G.dos = L.dos /\ G \in LIB
  BY GetfdSound DEF Sound
<1>2. CASE res = "refused"
  BY <1>1, <1>2 DEF OpenFp
<1>3. CASE res = "stranded"
  <2>1. O = [G EXCEPT !.dos[h] = "file"]
    BY <1>3 DEF OpenFp
  <2> HIDE DEF G, O
  <2>2. O.iob = G.iob /\ \A k \in Handles : k # h => O.dos[k] = G.dos[k]
    BY <1>1, <2>1 DEF LIB
  <2> QED BY <1>1, <2>2 DEF O
<1>4. CASE res \in {"lock", "file"}
  <2>1. O = [G EXCEPT !.dos[h] = res, !.fp[fd] = f, !.iob[f] = r]
    BY <1>4 DEF OpenFp
  <2>2. h # NoHandle /\ G.iob[f] \in FILE
    BY <1>1, <1>4 DEF Given, LIB
  <2> HIDE DEF G
  <2>3. r.handle = h
    BY <2>2 DEF Holding, FILE
  <2> HIDE DEF O, r
  <2>4. O.iob = [G.iob EXCEPT ![f] = r] /\ \A k \in Handles : k # h => O.dos[k] = G.dos[k]
    BY <1>1, <2>1 DEF LIB
  <2>5. \A g \in Files : O.iob[g].handle = G.iob[g].handle \/ O.iob[g].handle # NoHandle
    BY <1>1, <2>2, <2>3, <2>4 DEF LIB
  <2> QED BY <1>1, <2>4, <2>5 DEF O
<1> QED BY <1>2, <1>3, <1>4 DEF Given, Results

\* Setting flags, and a descriptor, moves no handle.
LEMMA FlagsHandles ==
  ASSUME NEW L, Sound(L), NEW f \in Files
  PROVE  /\ \A fl \in FileFlags : /\ SetFlags(L, f, fl).dos = L.dos
                                  /\ \A g \in Files : SetFlags(L, f, fl).iob[g].handle = L.iob[g].handle
         /\ \A fd \in FDs : /\ SetStream(L, f, fd).dos = L.dos
                            /\ \A g \in Files : SetStream(L, f, fd).iob[g].handle = L.iob[g].handle
<1>1. L.iob \in [Files -> FILE] /\ L.iob[f] \in FILE
  BY DEF Sound, LIB
<1>2. ASSUME NEW fl \in FileFlags
      PROVE  LET M == SetFlags(L, f, fl) IN M.dos = L.dos /\ \A g \in Files : M.iob[g].handle = L.iob[g].handle
  <2> DEFINE M == SetFlags(L, f, fl)
  <2>1. M.iob = [L.iob EXCEPT ![f] = [L.iob[f] EXCEPT !.flags = fl]] /\ M.dos = L.dos
    BY DEF SetFlags, Sound, LIB
  <2> HIDE DEF M
  <2>2. \A g \in Files : M.iob[g].handle = L.iob[g].handle
    BY <1>1, <2>1 DEF FILE
  <2> QED BY <2>1, <2>2 DEF M
<1>3. ASSUME NEW fd \in FDs
      PROVE  LET M == SetStream(L, f, fd) IN M.dos = L.dos /\ \A g \in Files : M.iob[g].handle = L.iob[g].handle
  <2> DEFINE M == SetStream(L, f, fd)
  <2>1. M.iob = [L.iob EXCEPT ![f] = [L.iob[f] EXCEPT !.flags = "stream", !.file = fd]] /\ M.dos = L.dos
    BY DEF SetStream, Sound, LIB
  <2> HIDE DEF M
  <2>2. \A g \in Files : M.iob[g].handle = L.iob[g].handle
    BY <1>1, <2>1 DEF FILE
  <2> QED BY <2>1, <2>2 DEF M
<1> QED BY <1>2, <1>3

\* _open_fp() as fopen() and freopen() finish it moves only the handle of their FILE.
LEMMA OpenStreamHandles ==
  ASSUME NEW L, Sound(L), NEW f \in Files, NEW fd \in FDs, IsGetfd(L, fd),
         NEW res, NEW h, Given(L, res, h)
  PROVE  LET O == OpenStream(L, f, fd, res, h) IN
         /\ \A g \in Files : O.iob[g].handle = L.iob[g].handle \/ O.iob[g].handle # NoHandle
         /\ \A k \in Handles : k # h => O.dos[k] = L.dos[k]
<1> DEFINE O == OpenFp(L, f, fd, res, h)
<1>1. /\ Sound(O)
      /\ \A g \in Files : O.iob[g].handle = L.iob[g].handle \/ O.iob[g].handle # NoHandle
      /\ \A k \in Handles : k # h => O.dos[k] = L.dos[k]
  BY OpenFpSound, OpenFpHandles
<1>2. OpenStream(L, f, fd, res, h) = IF Opened(res) THEN SetStream(O, f, fd) ELSE SetFlags(O, f, "free")
  BY DEF OpenStream
<1> HIDE DEF O
<1> QED BY <1>1, <1>2, FlagsHandles DEF FileFlags

\* A socket takes the place of the handle of one FILE.
LEMMA SocketFileHandles ==
  ASSUME NEW L, Sound(L), NEW g \in Files, NEW fd \in FDs, NEW h \in Handles
  PROVE  LET M == SocketFile(L, g, fd, h) IN
         /\ M.iob[g].handle = h /\ \A f \in Files \ {g} : M.iob[f] = L.iob[f]
         /\ \A k \in Handles : k # h => M.dos[k] = L.dos[k]
<1> DEFINE r == [Blank EXCEPT !.flags = "reserved", !.file = fd, !.handle = h, !.fdflags = {"SOCKET"}]
           M == SocketFile(L, g, fd, h)
<1>1. r.handle = h
  BY DEF Blank
<1>2. M = [L EXCEPT !.dos[h] = "sock", !.fp[fd] = g, !.iob[g] = r]
  BY DEF SocketFile
<1> HIDE DEF r, M
<1>3. M.iob = [L.iob EXCEPT ![g] = r] /\ M.dos = [L.dos EXCEPT ![h] = "sock"]
  BY <1>2 DEF Sound, LIB
<1>4. /\ M.iob[g].handle = h /\ \A f \in Files \ {g} : M.iob[f] = L.iob[f]
      /\ \A k \in Handles : k # h => M.dos[k] = L.dos[k]
  BY <1>1, <1>3 DEF Sound, LIB
<1> QED BY <1>4 DEF M

\* Sharing a FILE moves no handle.
LEMMA ShareHandles ==
  ASSUME NEW L, Sound(L), NEW f \in Files, NEW fd \in FDs
  PROVE  LET M == [L EXCEPT !.fp[fd] = f, !.iob[f].nestcnt = @ + 1] IN
         M.dos = L.dos /\ \A g \in Files : M.iob[g].handle = L.iob[g].handle
<1> DEFINE r == [L.iob[f] EXCEPT !.nestcnt = L.iob[f].nestcnt + 1]
           M == [L EXCEPT !.fp[fd] = f, !.iob[f].nestcnt = @ + 1]
<1>1. L.iob[f] \in FILE
  BY DEF Sound, LIB
<1>2. r.handle = L.iob[f].handle
  BY <1>1 DEF FILE
<1>3. M.iob = [L.iob EXCEPT ![f] = r] /\ M.dos = L.dos
  BY DEF Sound, LIB
<1> HIDE DEF r, M
<1>4. M.dos = L.dos /\ \A g \in Files : M.iob[g].handle = L.iob[g].handle
  BY <1>2, <1>3 DEF Sound, LIB
<1> QED BY <1>4 DEF M

\* Only __sinit() sets __sdidinit, and nothing clears it.
LEMMA SameInit ==
  ASSUME NEW L, Sound(L)
  PROVE  /\ Sinited(L).sdidinit
         /\ \A f \in Files : Reserved(L, f).sdidinit = L.sdidinit
         /\ \A fd \in FDs : Getfd(L, fd).sdidinit = L.sdidinit
         /\ \A f \in Files, fl \in FileFlags : SetFlags(L, f, fl).sdidinit = L.sdidinit
         /\ \A f \in Files, fd \in FDs : SetStream(L, f, fd).sdidinit = L.sdidinit
         /\ \A g \in Files, fd \in FDs, h \in Handles : SocketFile(L, g, fd, h).sdidinit = L.sdidinit
         /\ \A f \in Files, fd \in FDs : [L EXCEPT !.fp[fd] = f].sdidinit = L.sdidinit
<1>1. Sinited(L).sdidinit
  BY DEF Sinited, Sound, LIB
<1>2. \A f \in Files : Reserved(L, f).sdidinit = L.sdidinit
  BY DEF Reserved, Sound, LIB
<1>3. \A fd \in FDs : Getfd(L, fd).sdidinit = L.sdidinit
  BY DEF Getfd, Sound, LIB
<1>4. \A f \in Files, fl \in FileFlags : SetFlags(L, f, fl).sdidinit = L.sdidinit
  BY DEF SetFlags, Sound, LIB
<1>5. \A f \in Files, fd \in FDs : SetStream(L, f, fd).sdidinit = L.sdidinit
  BY DEF SetStream, Sound, LIB
<1>6. \A g \in Files, fd \in FDs, h \in Handles : SocketFile(L, g, fd, h).sdidinit = L.sdidinit
  BY DEF SocketFile, Sound, LIB
<1>7. \A f \in Files, fd \in FDs : [L EXCEPT !.fp[fd] = f].sdidinit = L.sdidinit
  BY DEF Sound, LIB
<1> QED BY <1>1, <1>2, <1>3, <1>4, <1>5, <1>6, <1>7

\* close() does not touch __sdidinit.
LEMMA CloseInit ==
  ASSUME NEW L, Sound(L), NEW fd, NEW ok \in BOOLEAN
  PROVE  CloseFd(L, fd, ok).sdidinit = L.sdidinit
<1> DEFINE f == L.fp[fd]
           r == L.iob[f]
           R == Release(L, r.handle, ReleaseKind(r))
<1>1. CASE fd \notin 3 .. L.maxfd - 1 \/ f = NULL
  BY <1>1 DEF CloseFd
<1>2. CASE fd \in 3 .. L.maxfd - 1 /\ f # NULL
  <2>1. L \in LIB /\ fd \in FDs
    BY <1>2, SizeAssumption DEF Sound, LIB, FDs
  <2>2. f \in Files /\ r \in FILE
    BY <1>2, <2>1 DEF LIB
  <2>3. [L EXCEPT !.iob[f].nestcnt = @ - 1].sdidinit = L.sdidinit
    BY <2>1 DEF LIB
  <2>4. R.sdidinit = L.sdidinit /\ R \in LIB
    <3>1. R \in LIB
      BY <2>1, <2>2, ReleaseTyped DEF FILE
    <3>2. R.sdidinit = L.sdidinit
      BY <2>1 DEF Release, LIB
    <3> QED BY <3>1, <3>2
  <2> HIDE DEF R
  <2>5. [R EXCEPT !.iob[f] = Emptied(@), !.fp[fd] = NULL].sdidinit = R.sdidinit
    BY <2>4 DEF LIB
  <2> QED BY <1>2, <2>3, <2>4, <2>5 DEF CloseFd, CloseNested, R
<1> QED BY <1>1, <1>2

\* Nor does fclose().
LEMMA FcloseInit ==
  ASSUME NEW L, Sound(L), NEW f \in Files, NEW ok \in BOOLEAN
  PROVE  FcloseFile(L, f, ok).sdidinit = L.sdidinit
<1> DEFINE c == IF L.iob[f].flags = "stream" THEN CloseFd(L, L.iob[f].file, ok) ELSE L
<1>1. Sound(c) /\ c.sdidinit = L.sdidinit
  BY CloseFdSound, CloseInit
<1>2. FcloseFile(L, f, ok) = SetFlags(c, f, "free")
  BY DEF FcloseFile
<1> HIDE DEF c
<1> QED BY <1>1, <1>2, SameInit DEF FileFlags

\* Nor do the calls that open.
LEMMA OpenInit ==
  ASSUME NEW L, Sound(L), NEW f \in Files, NEW fd \in FDs, IsGetfd(L, fd),
         NEW res, NEW h, Given(L, res, h)
  PROVE  /\ OpenFp(L, f, fd, res, h).sdidinit = L.sdidinit
         /\ OpenStream(L, f, fd, res, h).sdidinit = L.sdidinit
<1> DEFINE G == Getfd(L, fd)
           O == OpenFp(L, f, fd, res, h)
<1>1. Sound(G) /\ G.sdidinit = L.sdidinit
  BY GetfdSound, SameInit
<1>2. O.sdidinit = G.sdidinit
  <2> HIDE DEF G
  <2> QED BY <1>1 DEF OpenFp, Sound, LIB, G
<1>3. Sound(O)
  BY OpenFpSound
<1>4. OpenStream(L, f, fd, res, h) = IF Opened(res) THEN SetStream(O, f, fd) ELSE SetFlags(O, f, "free")
  BY DEF OpenStream
<1> HIDE DEF O
<1>5. OpenStream(L, f, fd, res, h).sdidinit = O.sdidinit
  BY <1>3, <1>4, SameInit DEF FileFlags
<1> QED BY <1>1, <1>2, <1>5 DEF O

\* What AbandonedOnlyWhere says of a step.
LetsGo ==
  \A f \in Files :
    LET h == iob[f].handle IN
    Own(h) /\ h \notin Held' /\ dos'[h] # "closed" =>
      \/ iob[f].flags = "free"
      \/ iob'[f].handle # NoHandle
      \/ dos[h] # ReleaseKind(iob[f])

KeepInv == IInv /\ Untouched(Lib)

Kept == Untouched(Lib)' /\ LetsGo

\* A call whose outcome is M keeps its handles if M does.
LEMMA Outcome ==
  ASSUME KeepInv, NEW M, Sound(M), Becomes(M), M.sdidinit, sdidinit => Keeps(Lib, M)
  PROVE  Kept
<1>1. Lib' = M
  BY DEF Becomes, Lib, Sound, LIB
<1>2. Untouched(Lib)'
  BY <1>1 DEF Untouched
<1>3. CASE ~sdidinit
  BY <1>2, <1>3 DEF Kept, LetsGo, KeepInv, Untouched, Lib
<1>4. CASE sdidinit
  <2> SUFFICES ASSUME NEW f \in Files, Own(iob[f].handle), iob[f].handle \notin Held',
                      dos'[iob[f].handle] # "closed", iob[f].flags # "free",
                      dos[iob[f].handle] = ReleaseKind(iob[f])
               PROVE  iob'[f].handle # NoHandle
    BY <1>2 DEF Kept, LetsGo
  <2>1. Holds(Lib, f)
    BY DEF Holds, Lib
  <2>2. iob' = M.iob /\ dos' = M.dos
    BY DEF Becomes
  <2>3. Lib.iob = iob
    BY DEF Lib
  <2>4. \A g \in Files : M.iob[g].handle # iob[f].handle
    BY <2>2 DEF Held
  <2> QED BY <1>4, <2>1, <2>2, <2>3, <2>4 DEF Keeps
<1> QED BY <1>3, <1>4

\* So does a step that leaves the library alone.
LEMMA Idle ==
  ASSUME KeepInv, UNCHANGED <<fp, maxfd, iob, dos, sdidinit>>
  PROVE  Kept
<1>1. Lib' = Lib
  BY DEF Lib
<1>2. Untouched(Lib)'
  BY <1>1 DEF Untouched, KeepInv
<1>3. LetsGo
  BY ValueAssumption DEF LetsGo, Own
<1> QED BY <1>2, <1>3 DEF Kept

\* A move from the state itself.
LEMMA MoveFrom ==
  ASSUME NEW L, Sound(L), NEW M,
         \A f \in Files : L.iob[f].handle # NoHandle => M.iob[f].handle # NoHandle \/ L.iob[f].flags = "free"
  PROVE  Keeps(L, M)
<1>1. Moves(L, L, M)
  BY DEF Moves
<1> QED BY <1>1, MoveKeeps DEF AfterClose

\* The FILE that __sfp() takes over was free.
LEMMA ReservedHandles ==
  ASSUME NEW L, Sound(L), NEW f \in Files, IsSfp(L, f)
  PROVE  \A g \in Files : Reserved(L, f).iob[g].handle = L.iob[g].handle \/ L.iob[g].flags = "free"
<1>1. \A g \in Files \ {f} : Reserved(L, f).iob[g] = L.iob[g]
  BY DEF Reserved, Sound, LIB
<1> QED BY <1>1 DEF IsSfp

\* The calls that open.
LEMMA OpenKeeps ==
  ASSUME KeepInv, NEW flags \in Requests
  PROVE  /\ Open(flags) => Kept
         /\ Fopen(flags) => Kept
         /\ \A f \in Files : Freopen(f, flags) => Kept
<1> DEFINE S == Sinited(Lib)
<1>s. Sound(S) /\ S.sdidinit /\ (sdidinit => S = Lib) /\ Sound(Lib)
  BY ZenonT(40), SinitedSound, SameInit DEF KeepInv, IInv, Sinited, Lib
<1>1. ASSUME Open(flags) PROVE Kept
  <2>1. PICK f \in Files, fd \in FDs, res \in OpenResults[flags], h \in FreeHandles(S) \cup {NoHandle} :
          LET R == Reserved(S, f) IN
          /\ IsSfp(S, f) /\ IsGetfd(R, fd)
          /\ (h = NoHandle) <=> (res = "refused")
          /\ Becomes(OpenFp(R, f, fd, res, h))
    BY <1>1 DEF Open
  <2> HIDE DEF S
  <2> DEFINE R == Reserved(S, f)
             M == OpenFp(R, f, fd, res, h)
  <2>2. Sound(R) /\ R.dos = S.dos /\ R.sdidinit
    BY <1>s, ReservedSound, SameInit
  <2>3. Given(S, res, h)
    BY <1>s, <2>1, OpenAnswers
  <2>4. Given(R, res, h) /\ IsGetfd(R, fd) /\ Becomes(M)
    BY <2>1, <2>2, <2>3 DEF Given, Fresh
  <2>5. \A g \in Files : R.iob[g].handle = S.iob[g].handle \/ S.iob[g].flags = "free"
    BY <1>s, <2>1, ReservedHandles
  <2> HIDE DEF R
  <2>6. /\ Sound(M) /\ M.sdidinit
        /\ \A g \in Files : M.iob[g].handle = R.iob[g].handle \/ M.iob[g].handle # NoHandle
    BY <2>2, <2>4, OpenFpSound, OpenInit, OpenFpHandles
  <2> HIDE DEF M
  <2>7. sdidinit => Keeps(Lib, M)
    BY <1>s, <2>5, <2>6, MoveFrom
  <2> QED BY <2>4, <2>6, <2>7, Outcome
<1>2. ASSUME Fopen(flags) PROVE Kept
  <2>1. PICK f \in Files, fd \in FDs, res \in OpenResults[flags], h \in FreeHandles(S) \cup {NoHandle} :
          LET R == Reserved(S, f) IN
          /\ IsSfp(S, f) /\ IsGetfd(R, fd)
          /\ (h = NoHandle) <=> (res = "refused")
          /\ Becomes(OpenStream(R, f, fd, res, h))
    BY <1>2 DEF Fopen
  <2> HIDE DEF S
  <2> DEFINE R == Reserved(S, f)
             M == OpenStream(R, f, fd, res, h)
  <2>2. Sound(R) /\ R.dos = S.dos /\ R.sdidinit
    BY <1>s, ReservedSound, SameInit
  <2>3. Given(S, res, h)
    BY <1>s, <2>1, OpenAnswers
  <2>4. Given(R, res, h) /\ IsGetfd(R, fd) /\ Becomes(M)
    BY <2>1, <2>2, <2>3 DEF Given, Fresh
  <2>5. \A g \in Files : R.iob[g].handle = S.iob[g].handle \/ S.iob[g].flags = "free"
    BY <1>s, <2>1, ReservedHandles
  <2> HIDE DEF R
  <2>6. /\ Sound(M) /\ M.sdidinit
        /\ \A g \in Files : M.iob[g].handle = R.iob[g].handle \/ M.iob[g].handle # NoHandle
    BY <2>2, <2>4, OpenStreamSound, OpenInit, OpenStreamHandles
  <2> HIDE DEF M
  <2>7. sdidinit => Keeps(Lib, M)
    BY <1>s, <2>5, <2>6, MoveFrom
  <2> QED BY <2>4, <2>6, <2>7, Outcome
<1>3. ASSUME NEW f \in Files, Freopen(f, flags) PROVE Kept
  <2> DEFINE Closed(ok) == IF S.iob[f].flags = "stream" THEN CloseFd(S, S.iob[f].file, ok) ELSE S
  <2>1. PICK ok \in BOOLEAN, fd \in FDs, res \in OpenResults[flags], h \in FreeHandles(S) \cup {NoHandle} :
          /\ IsGetfd(Closed(ok), fd)
          /\ (h = NoHandle) <=> (res = "refused")
          /\ Becomes(OpenStream(Closed(ok), f, fd, res, h))
    BY <1>3 DEF Freopen
  <2> DEFINE C == Closed(ok)
             M == OpenStream(C, f, fd, res, h)
  <2> HIDE DEF S
  <2>2. /\ Sound(C) /\ C.sdidinit
        /\ \A k \in Handles : S.dos[k] = "closed" => C.dos[k] = "closed"
        /\ AfterClose(S, C)
    <3>0. S.iob[f].file \in FDs \cup {-1}
      BY <1>s DEF Sound, LIB, FILE
    <3>1. CASE C = S
      BY <1>s, <3>1 DEF AfterClose
    <3>2. CASE C = CloseFd(S, S.iob[f].file, ok)
      BY <1>s, <3>0, <3>2, CloseFdSound, CloseInit DEF AfterClose
    <3> QED BY <3>1, <3>2
  <2>3. Given(S, res, h)
    BY <1>s, <2>1, OpenAnswers
  <2>4. Given(C, res, h) /\ IsGetfd(C, fd) /\ Becomes(M)
    BY <2>1, <2>2, <2>3 DEF Given, Fresh, Own
  <2> HIDE DEF C
  <2>5. /\ Sound(M) /\ M.sdidinit
        /\ \A g \in Files : M.iob[g].handle = C.iob[g].handle \/ M.iob[g].handle # NoHandle
        /\ \A k \in Handles : k # h => M.dos[k] = C.dos[k]
    BY <2>2, <2>4, OpenStreamSound, OpenInit, OpenStreamHandles
  <2> HIDE DEF M
  <2>6. Moves(S, C, M)
    <3>1. h \in Handles => S.dos[h] = "closed"
      BY <2>3, ValueAssumption DEF Given, Fresh
    <3> QED BY <2>5, <3>1 DEF Moves
  <2>7. Keeps(S, M)
    BY <1>s, <2>2, <2>6, MoveKeeps
  <2> QED BY <1>s, <2>4, <2>5, <2>7, Outcome
<1> QED BY <1>1, <1>2, <1>3

\* A step that closes, or closes and frees, or leaves the library as it is.
LEMMA ClosingKeeps ==
  ASSUME KeepInv
  PROVE  /\ \A fd \in FDs, ok \in BOOLEAN : Becomes(CloseFd(Lib, fd, ok)) => Kept
         /\ \A f \in Files, ok \in BOOLEAN : Becomes(FcloseFile(Lib, f, ok)) /\ Lib.iob[f].flags # "free" => Kept
<1>s. Sound(Lib) /\ Lib.sdidinit = sdidinit /\ sdidinit \in BOOLEAN
  BY DEF KeepInv, IInv, Lib, Sound, LIB
<1>1. ASSUME NEW fd \in FDs, NEW ok \in BOOLEAN, Becomes(CloseFd(Lib, fd, ok)) PROVE Kept
  <2> DEFINE C == CloseFd(Lib, fd, ok)
  <2>1. CASE sdidinit
    <3>1. Sound(C) /\ C.sdidinit
      BY <1>s, <2>1, CloseFdSound, CloseInit
    <3>2. Keeps(Lib, C)
      <4>1. Moves(Lib, C, C)
        BY DEF Moves
      <4> QED BY <1>s, <4>1, MoveKeeps DEF AfterClose
    <3> HIDE DEF C
    <3> QED BY <1>1, <3>1, <3>2, Outcome DEF C
  <2>2. CASE ~sdidinit
    <3>1. C = Lib
      BY <1>s, <2>2 DEF KeepInv, Untouched, CloseFd
    <3>2. UNCHANGED <<fp, maxfd, iob, dos, sdidinit>>
      BY <1>1, <3>1 DEF Becomes, Lib
    <3> QED BY <3>2, Idle
  <2> QED BY <1>s, <2>1, <2>2
<1>2. ASSUME NEW f \in Files, NEW ok \in BOOLEAN, Becomes(FcloseFile(Lib, f, ok)), Lib.iob[f].flags # "free"
      PROVE  Kept
  <2> DEFINE C == IF Lib.iob[f].flags = "stream" THEN CloseFd(Lib, Lib.iob[f].file, ok) ELSE Lib
             M == FcloseFile(Lib, f, ok)
  <2>1. sdidinit
    BY <1>s, <1>2 DEF KeepInv, Untouched
  <2>2. Sound(M) /\ M.sdidinit
    BY <1>s, <2>1, FcloseSound, FcloseInit
  <2>3. Sound(C) /\ AfterClose(Lib, C)
    <3>0. Lib.iob[f].file \in FDs \cup {-1}
      BY <1>s DEF Sound, LIB, FILE
    <3>1. CASE C = Lib
      BY <1>s, <3>1 DEF AfterClose
    <3>2. CASE C = CloseFd(Lib, Lib.iob[f].file, ok)
      BY <1>s, <3>0, <3>2, CloseFdSound DEF AfterClose
    <3> QED BY <3>1, <3>2
  <2>4. M = SetFlags(C, f, "free")
    BY DEF FcloseFile
  <2> HIDE DEF M, C
  <2>5. M.dos = C.dos /\ \A g \in Files : M.iob[g].handle = C.iob[g].handle
    BY <2>3, <2>4, FlagsHandles DEF FileFlags
  <2>6. Moves(Lib, C, M)
    BY <2>5 DEF Moves
  <2>7. Keeps(Lib, M)
    BY <1>s, <2>3, <2>6, MoveKeeps
  <2> QED BY <1>2, <2>2, <2>7, Outcome DEF M
<1> QED BY <1>1, <1>2

\* The calls on streams and descriptors.
LEMMA StreamKeeps ==
  ASSUME KeepInv
  PROVE  /\ Stdio => Kept
         /\ LoseTable => Kept
         /\ \A f \in Files : Fclose(f) => Kept
         /\ \A fd \in FDs : Fdopen(fd) => Kept
         /\ \A fd \in FDs : FdopenUnused(fd) => Kept
         /\ \A fd \in FDs : Close(fd) => Kept
<1>s. /\ Sound(Lib) /\ Sound(Sinited(Lib)) /\ Sinited(Lib).sdidinit /\ (sdidinit => Sinited(Lib) = Lib)
      /\ Lib.fp = fp /\ Lib.iob = iob /\ Lib.sdidinit = sdidinit
  BY ZenonT(40), SinitedSound, SameInit DEF KeepInv, IInv, Sinited, Lib
<1>1. ASSUME Stdio PROVE Kept
  <2>1. sdidinit => Keeps(Lib, Sinited(Lib))
    BY <1>1 DEF Stdio
  <2> QED BY <1>1, <1>s, <2>1, Outcome DEF Stdio
<1>2. ASSUME LoseTable PROVE Kept
  BY <1>2, Idle DEF LoseTable, Becomes, Lib
<1>3. ASSUME NEW f \in Files, Fclose(f) PROVE Kept
  BY <1>s, <1>3, ClosingKeeps DEF Fclose
<1>4. ASSUME NEW fd \in FDs, Fdopen(fd) PROVE Kept
  <2> DEFINE M == SetStream(Lib, fp[fd], fd)
  <2>1. fp[fd] \in Files /\ sdidinit /\ Becomes(M)
    BY <1>4, <1>s DEF Fdopen, Sound, LIB, KeepInv, Untouched
  <2>2. Sound(M) /\ M.sdidinit /\ \A g \in Files : M.iob[g].handle = Lib.iob[g].handle
    BY <1>s, <2>1, FlagsSound, SameInit, FlagsHandles
  <2> HIDE DEF M
  <2>3. Keeps(Lib, M)
    BY <1>s, <2>2, MoveFrom
  <2> QED BY <2>1, <2>2, <2>3, Outcome
<1>5. ASSUME NEW fd \in FDs, FdopenUnused(fd) PROVE Kept
  <2> DEFINE S == Sinited(Lib)
  <2>1. PICK f \in Files : IsSfp(S, f) /\ Becomes([SetStream(Reserved(S, f), f, fd) EXCEPT !.fp[fd] = f])
    BY <1>5 DEF FdopenUnused
  <2> HIDE DEF S
  <2> DEFINE R == Reserved(S, f)
             K == SetStream(R, f, fd)
             M == [K EXCEPT !.fp[fd] = f]
  <2>2. Sound(R) /\ R.sdidinit
    BY <1>s, ReservedSound, SameInit DEF S
  <2>3. \A g \in Files : R.iob[g].handle = S.iob[g].handle \/ S.iob[g].flags = "free"
    BY <1>s, <2>1, ReservedHandles DEF S
  <2> HIDE DEF R
  <2>4. Sound(K) /\ K.sdidinit /\ \A g \in Files : K.iob[g].handle = R.iob[g].handle
    BY <2>2, FlagsSound, SameInit, FlagsHandles
  <2> HIDE DEF K
  <2>5. Sound(M) /\ M.sdidinit /\ M.iob = K.iob
    BY <2>4, ReplaceEntry, SameInit DEF Sound, LIB
  <2>6. Becomes(M)
    BY <2>1 DEF K, R
  <2> HIDE DEF M
  <2>7. sdidinit => Keeps(Lib, M)
    BY <1>s, <2>3, <2>4, <2>5, MoveFrom DEF S
  <2> QED BY <2>5, <2>6, <2>7, Outcome
<1>6. ASSUME NEW fd \in FDs, Close(fd) PROVE Kept
  BY <1>6, ClosingKeeps DEF Close
<1> QED BY <1>1, <1>2, <1>3, <1>4, <1>5, <1>6

\* What dup() and dup2() install, after a close() or none.
LEMMA DuplicateKeeps ==
  ASSUME KeepInv, sdidinit, NEW C, Sound(C), C.sdidinit, NEW B, AfterClose(Lib, B),
         B.iob = C.iob, B.dos = C.dos,
         NEW f \in Files, NEW newd \in FDs, Duplicate(C, f, newd) \/ NotDuplicated(C, f)
  PROVE  Kept
<1>s. Sound(Lib)
  BY DEF KeepInv, IInv
<1>1. CASE Becomes([C EXCEPT !.fp[newd] = f, !.iob[f].nestcnt = @ + 1])
  <2> DEFINE M == [C EXCEPT !.fp[newd] = f, !.iob[f].nestcnt = @ + 1]
  <2>1. Sound(M) /\ M.sdidinit /\ M.dos = C.dos /\ \A g \in Files : M.iob[g].handle = C.iob[g].handle
    <3>1. Sound(M)
      BY ShareSound
    <3>2. M.sdidinit
      BY DEF Sound, LIB
    <3>3. M.dos = C.dos /\ \A g \in Files : M.iob[g].handle = C.iob[g].handle
      BY ShareHandles
    <3> QED BY <3>1, <3>2, <3>3
  <2>2. Becomes(M)
    BY <1>1
  <2> HIDE DEF M
  <2>3. Moves(Lib, B, M)
    BY <2>1 DEF Moves
  <2>4. Keeps(Lib, M)
    BY <1>s, <2>3, MoveKeeps
  <2> QED BY <2>1, <2>2, <2>4, Outcome
<1>2. ASSUME NEW g \in Files, NEW h \in FreeHandles(C), Becomes(SocketFile(C, g, newd, h))
      PROVE  Kept
  <2> DEFINE M == SocketFile(C, g, newd, h)
  <2>1. h \in Handles /\ Fresh(C, h) /\ h # NoHandle
    BY ValueAssumption DEF FreeHandles, Fresh, Own
  <2>2. Sound(M) /\ M.sdidinit
    BY <2>1, SocketFileSound, SameInit
  <2>3. /\ M.iob[g].handle = h /\ \A k \in Files \ {g} : M.iob[k] = C.iob[k]
        /\ \A k \in Handles : k # h => M.dos[k] = C.dos[k]
    BY <2>1, SocketFileHandles
  <2> HIDE DEF M
  <2>4. Moves(Lib, B, M)
    BY <2>1, <2>3 DEF Moves
  <2>5. Keeps(Lib, M)
    BY <1>s, <2>4, MoveKeeps
  <2> QED BY <1>2, <2>2, <2>5, Outcome DEF M
<1>3. CASE Becomes(C)
  <2>1. Moves(Lib, B, C)
    BY DEF Moves
  <2>2. Keeps(Lib, C)
    BY <1>s, <2>1, MoveKeeps
  <2> QED BY <1>3, <2>2, Outcome
<1> QED BY <1>1, <1>2, <1>3 DEF Duplicate, DupSockets, NotDuplicated

\* The calls that duplicate, and sockets.
LEMMA DupKeeps ==
  ASSUME KeepInv
  PROVE  /\ \A fd \in FDs : Dup(fd) => Kept
         /\ \A fd \in FDs : FcntlDup(fd) => Kept
         /\ \A oldd \in FDs, newd \in DupTargets : Dup2(oldd, newd) => Kept
         /\ \A h \in Handles : Socket(h) => Kept
         /\ \A h \in Handles : SocketNoFile(h) => Kept
<1>s. /\ Sound(Lib) /\ Sound(Sinited(Lib)) /\ Sinited(Lib).sdidinit /\ (sdidinit => Sinited(Lib) = Lib)
      /\ Lib.fp = fp /\ Lib.iob = iob /\ Lib.dos = dos /\ Lib.sdidinit = sdidinit
  BY ZenonT(40), SinitedSound, SameInit DEF KeepInv, IInv, Sinited, Lib
<1>u. \A fd \in FDs : fp[fd] # NULL => fp[fd] \in Files /\ sdidinit
  BY <1>s DEF Sound, LIB, KeepInv, Untouched
<1>d. 0 \in FDs /\ DupTargets \subseteq FDs
  BY SizeAssumption DEF FDs
<1>a. AfterClose(Lib, Lib)
  BY DEF AfterClose
<1>1. ASSUME NEW oldd \in FDs, Dup(oldd) PROVE Kept
  <2>1. fp[oldd] \in Files /\ sdidinit
    BY <1>1, <1>u DEF Dup
  <2>2. PICK fd \in FDs :
          /\ IsGetfd(Lib, fd)
          /\ Duplicate(Getfd(Lib, fd), fp[oldd], DupTarget(fd)) \/ NotDuplicated(Getfd(Lib, fd), fp[oldd])
    BY <1>1 DEF Dup
  <2> DEFINE G == Getfd(Lib, fd)
  <2>3. Sound(G) /\ G.sdidinit /\ G.iob = Lib.iob /\ G.dos = Lib.dos /\ DupTarget(fd) \in FDs
    BY <1>s, <1>d, <2>1, <2>2, GetfdSound, SameInit DEF DupTarget
  <2> HIDE DEF G
  <2>4. Duplicate(G, fp[oldd], DupTarget(fd)) \/ NotDuplicated(G, fp[oldd])
    BY <2>2 DEF G
  <2> QED BY <1>a, <2>1, <2>3, <2>4, DuplicateKeeps
<1>2. ASSUME NEW fd \in FDs, FcntlDup(fd) PROVE Kept
  <2>1. fp[fd] \in Files /\ sdidinit
    BY <1>2, <1>u DEF FcntlDup
  <2>2. PICK newfd \in FDs :
          /\ IsGetfd(Lib, newfd)
          /\ Becomes([Getfd(Lib, newfd) EXCEPT !.fp[newfd] = fp[fd], !.iob[fp[fd]].nestcnt = @ + 1])
    BY <1>2 DEF FcntlDup
  <2> DEFINE G == Getfd(Lib, newfd)
  <2>3. Sound(G) /\ G.sdidinit /\ G.iob = Lib.iob
    BY <1>s, <2>1, <2>2, GetfdSound, SameInit
  <2> HIDE DEF G
  <2> DEFINE M == [G EXCEPT !.fp[newfd] = fp[fd], !.iob[fp[fd]].nestcnt = @ + 1]
  <2>4. Sound(M) /\ M.sdidinit /\ \A g \in Files : M.iob[g].handle = G.iob[g].handle
    <3>1. Sound(M)
      BY <2>1, <2>3, ShareSound
    <3>2. M.sdidinit
      BY <2>3 DEF Sound, LIB
    <3>3. \A g \in Files : M.iob[g].handle = G.iob[g].handle
      BY <2>1, <2>3, ShareHandles
    <3> QED BY <3>1, <3>2, <3>3
  <2>5. Becomes(M)
    BY <2>2 DEF G
  <2> HIDE DEF M
  <2>6. Keeps(Lib, M)
    BY <1>s, <2>3, <2>4, MoveFrom
  <2> QED BY <2>4, <2>5, <2>6, Outcome
<1>3. ASSUME NEW oldd \in FDs, NEW newd \in DupTargets, Dup2(oldd, newd) PROVE Kept
  <2> DEFINE Closed(ok) == IF fp[newd] # NULL THEN CloseFd(Lib, newd, ok) ELSE Lib
  <2>1. fp[oldd] \in Files /\ newd \in FDs /\ sdidinit
    BY <1>3, <1>u, <1>d DEF Dup2
  <2>2. PICK ok \in BOOLEAN : Duplicate(Closed(ok), fp[oldd], newd) \/ NotDuplicated(Closed(ok), fp[oldd])
    BY <1>3 DEF Dup2
  <2> DEFINE C == Closed(ok)
  <2>3. Sound(C) /\ C.sdidinit /\ AfterClose(Lib, C)
    BY <1>s, <1>a, <2>1, CloseFdSound, CloseInit DEF AfterClose
  <2> HIDE DEF C
  <2>4. Duplicate(C, fp[oldd], newd) \/ NotDuplicated(C, fp[oldd])
    BY <2>2 DEF C
  <2> QED BY <2>1, <2>3, <2>4, DuplicateKeeps
<1>4. ASSUME NEW h \in Handles, Socket(h) PROVE Kept
  <2> DEFINE S == Sinited(Lib)
  <2>1. PICK fd \in FDs, f \in Files :
          IsGetfd(Lib, fd) /\ Becomes(SocketFile(Getfd(S, fd), f, fd, h))
    BY <1>4 DEF Socket
  <2>2. IsGetfd(S, fd)
    BY <1>s, <2>1, SinitedTable
  <2> HIDE DEF S
  <2> DEFINE G == Getfd(S, fd)
             M == SocketFile(G, f, fd, h)
  <2>3. Sound(G) /\ G.dos = S.dos /\ G.iob = S.iob /\ G.sdidinit /\ S.dos = Lib.dos
    BY <1>s, <2>2, GetfdSound, SinitedSound, SameInit DEF S
  <2>4. Fresh(G, h) /\ h # NoHandle
    BY <1>4, <1>s, <2>3, ValueAssumption DEF Socket, FreeHandles, Fresh, Own
  <2> HIDE DEF G
  <2>5. /\ Sound(M) /\ M.sdidinit /\ M.iob[f].handle = h
        /\ \A k \in Files \ {f} : M.iob[k] = G.iob[k]
    BY <2>3, <2>4, SocketFileSound, SocketFileHandles, SameInit
  <2>6. Becomes(M)
    BY <2>1 DEF G
  <2> HIDE DEF M
  <2>7. sdidinit => Keeps(Lib, M)
    BY <1>s, <2>3, <2>4, <2>5, MoveFrom DEF S
  <2> QED BY <2>5, <2>6, <2>7, Outcome
<1>5. ASSUME NEW h \in Handles, SocketNoFile(h) PROVE Kept
  <2> DEFINE S == Sinited(Lib)
  <2>1. PICK fd \in FDs : IsGetfd(Lib, fd) /\ Becomes([Getfd(S, fd) EXCEPT !.dos[h] = "sock"])
    BY <1>5 DEF SocketNoFile
  <2>2. IsGetfd(S, fd)
    BY <1>s, <2>1, SinitedTable
  <2> HIDE DEF S
  <2> DEFINE G == Getfd(S, fd)
             M == [G EXCEPT !.dos[h] = "sock"]
  <2>3. Sound(G) /\ G.iob = S.iob /\ G.sdidinit
    BY <1>s, <2>2, GetfdSound, SameInit DEF S
  <2> HIDE DEF G
  <2>4. Sound(M) /\ M.iob = G.iob /\ M.sdidinit
    BY <2>3, StrandHandle DEF DosState, Sound, LIB
  <2>5. Becomes(M)
    BY <2>1 DEF G
  <2> HIDE DEF M
  <2>6. sdidinit => Keeps(Lib, M)
    BY <1>s, <2>3, <2>4, MoveFrom DEF S
  <2> QED BY <2>4, <2>5, <2>6, Outcome
<1> QED BY <1>1, <1>2, <1>3, <1>4, <1>5

\* The steps of exit().
LEMMA ExitKeeps ==
  ASSUME KeepInv
  PROVE  Exit \/ Cleanup \/ CleanupEnds \/ ExitFd \/ ExitFdEnds => Kept
<1>t. Lib.iob = iob /\ (Becomes(Lib) => UNCHANGED <<fp, maxfd, iob, dos, sdidinit>>)
  BY DEF Lib, Becomes
<1>1. ASSUME Exit \/ CleanupEnds \/ ExitFdEnds PROVE Kept
  BY <1>1, Idle DEF Exit, CleanupEnds, ExitFdEnds
<1>2. ASSUME Cleanup PROVE Kept
  <2>1. CASE Becomes(Lib)
    BY <1>t, <2>1, Idle
  <2>2. ASSUME NEW ok \in BOOLEAN, Becomes(FcloseFile(Lib, cursor, ok)), iob[cursor].flags \in {"std", "stream"}
        PROVE  Kept
    BY <1>2, <1>t, <2>2, ClosingKeeps DEF Cleanup
  <2> QED BY <1>2, <2>1, <2>2 DEF Cleanup
<1>3. ASSUME ExitFd PROVE Kept
  <2>1. CASE Becomes(Lib)
    BY <1>t, <2>1, Idle
  <2>2. ASSUME NEW ok \in BOOLEAN, Becomes(CloseFd(Lib, cursor, ok))
        PROVE  Kept
    <3>1. cursor \in FDs
      BY <1>3, SizeAssumption DEF ExitFd, EndOfTable, KeepInv, IInv, RestOK, Sound, LIB, Lib, FDs
    <3> QED BY <2>2, <3>1, ClosingKeeps
  <2> QED BY <1>3, <2>1, <2>2 DEF ExitFd
<1> QED BY <1>1, <1>2, <1>3

\* Every step keeps the handles it must.
LEMMA NextKeeps == KeepInv /\ [Next]_vars => KeepInv' /\ Kept
<1> SUFFICES ASSUME KeepInv, [Next]_vars PROVE KeepInv' /\ Kept
  OBVIOUS
<1>1. Kept
  <2>1. CASE UNCHANGED vars
    BY <2>1, Idle DEF vars
  <2>2. CASE Next
    BY <2>2, OpenKeeps, StreamKeeps, DupKeeps, ExitKeeps DEF Next
  <2> QED BY <2>1, <2>2
<1>2. IInv'
  BY NextIInv DEF KeepInv
<1> QED BY <1>1, <1>2 DEF Kept, KeepInv

\* A handle that is open drops out of every FILE only where the code lets it: a FILE freed
\* with its handle is taken over (findfp.c:212), freopen() overwrites one (open.c:234), or
\* close() gives it to the wrong release function (close.c:42-50).
THEOREM NeverLost == Spec => AbandonedOnlyWhere
<1>1. Init => KeepInv
  BY InitIInv DEF KeepInv, Init, Untouched, Lib, Blank
<1>2. KeepInv /\ [Next]_vars => KeepInv' /\ [LetsGo]_vars
  BY NextKeeps DEF Kept
<1> QED BY <1>1, <1>2, PTL DEF Spec, AbandonedOnlyWhere, LetsGo

----------------------------------------------------------------------------
(* FileIO: the library of the sockets.                                     *)

\* FileIO adds calls to those of Descriptors and changes none of them: it implements it.
THEOREM TableRefined == SpecIO => Spec
<1>1. InitIO => Init
  BY DEF InitIO
<1>2. [NextIO]_ioVars => [Next]_vars
  BY DEF NextIO, TableCall, InitBsdsocket, ExitBsdsocket, ioVars
<1> QED BY <1>1, <1>2, PTL DEF SpecIO, Spec

\* bsdsocket.library is open while there is a socket, and gone only when the program is.
BaseOK ==
  /\ base \in {"closed", "open", "gone"}
  /\ base = "closed" => \A h \in Handles : dos[h] # "sock"
  /\ base = "gone" => phase = "done"

\* Nothing is done after the last fini function of the table.
LEMMA NotDone == Next => phase # "done"
<1>1. \A flags \in Requests : Open(flags) \/ Fopen(flags) => phase # "done"
  BY DEF Open, Fopen, Called
<1>2. \A f \in Files, flags \in Requests : Freopen(f, flags) => phase # "done"
  BY DEF Freopen, Called
<1>3. \A f \in Files : Fclose(f) => phase # "done"
  BY DEF Fclose, Called
<1>4. \A fd \in FDs : Fdopen(fd) \/ FdopenUnused(fd) \/ Close(fd) => phase # "done"
  BY DEF Fdopen, FdopenUnused, Close, Called
<1>5. \A fd \in FDs : Dup(fd) \/ FcntlDup(fd) => phase # "done"
  BY DEF Dup, FcntlDup, Called
<1>6. \A oldd \in FDs, newd \in DupTargets : Dup2(oldd, newd) => phase # "done"
  BY DEF Dup2, Called
<1>7. \A h \in Handles : Socket(h) \/ SocketNoFile(h) => phase # "done"
  BY DEF Socket, SocketNoFile, Called
<1>8. Stdio \/ LoseTable \/ Exit \/ Cleanup \/ CleanupEnds \/ ExitFd \/ ExitFdEnds => phase # "done"
  BY DEF Stdio, LoseTable, Exit, Cleanup, CleanupEnds, ExitFd, ExitFdEnds
<1> QED BY <1>1, <1>2, <1>3, <1>4, <1>5, <1>6, <1>7, <1>8 DEF Next

\* Every step keeps this.
LEMMA NextBaseOK == BaseOK /\ [NextIO]_ioVars => BaseOK'
<1> SUFFICES ASSUME BaseOK, [NextIO]_ioVars PROVE BaseOK'
  OBVIOUS
<1>1. CASE TableCall
  <2>1. phase # "done" /\ base # "gone"
    BY <1>1, NotDone DEF TableCall, BaseOK
  <2>2. CASE GetsSocket
    BY <1>1, <2>2 DEF TableCall, BaseOK
  <2>3. CASE ~GetsSocket
    <3>1. base' = base /\ \A h \in Handles : dos'[h] = "sock" => dos[h] = "sock"
      BY <1>1, <2>3 DEF TableCall, GetsSocket
    <3> QED BY <2>1, <3>1 DEF BaseOK
  <2> QED BY <2>2, <2>3
<1>2. CASE InitBsdsocket
  BY <1>2 DEF InitBsdsocket, vars, BaseOK
<1>3. CASE ExitBsdsocket
  BY <1>3 DEF ExitBsdsocket, ExitPhase, vars, BaseOK
<1>4. CASE UNCHANGED ioVars
  BY <1>4 DEF ioVars, vars, BaseOK
<1> QED BY <1>1, <1>2, <1>3, <1>4 DEF NextIO

\* Whoever closes a socket, the library that gave it is open: in __exit_fd() as well, which
\* has the higher priority of the two fini functions (__stdiowin.c:208, bsdsocket.c:80).
THEOREM LibraryOutlivesSockets == SpecIO => ClosedByLibrary
<1>1. InitIO => BaseOK
  BY ValueAssumption DEF InitIO, Init, BaseOK
<1>2. BaseOK /\ [NextIO]_ioVars =>
        [\A h \in Handles : dos[h] = "sock" /\ dos'[h] = "closed" => base = "open"]_ioVars
  <2> SUFFICES ASSUME BaseOK, NextIO, NEW h \in Handles, dos[h] = "sock", dos'[h] = "closed"
               PROVE  base = "open"
    OBVIOUS
  <2>1. TableCall
    BY DEF NextIO, InitBsdsocket, ExitBsdsocket, vars
  <2> QED BY <2>1, NotDone DEF TableCall, BaseOK
<1> QED BY <1>1, <1>2, NextBaseOK, PTL DEF SpecIO, ClosedByLibrary

----------------------------------------------------------------------------
(* What the descriptors of the program lead to.                            *)

\* Descriptor d leads to an open handle of the program.
Reach(L, d) ==
  /\ 3 <= d /\ d < L.maxfd /\ L.fp[d] \in Files
  /\ L.iob[L.fp[d]].flags # "free" /\ Own(L.iob[L.fp[d]].handle)

\* The descriptors of O that lead to FILE f.
Owners(L, O, f) == {d \in O : L.fp[d] = f}

\* What a FILE says of its handle is what the system holds open under it.
Kind(L, f) ==
  LET r == L.iob[f] IN
  Own(r.handle) =>
    /\ "SOCKET" \in r.fdflags => L.dos[r.handle] = "sock"
    /\ "SOCKET" \notin r.fdflags /\ "DIRLOCK" \notin r.fdflags => L.dos[r.handle] = "file"

\* O are descriptors the program may count on: each reaches a handle, and no FILE has more
\* of them than its count says.
Good(L, O) ==
  /\ O \subseteq FDs
  /\ \A d \in O : Reach(L, d)
  /\ \A f \in Files : Cardinality(Owners(L, O, f)) <= L.iob[f].nestcnt + 1
  /\ \A f \in Files : Kind(L, f)

\* The descriptors of O lead where they did.
Same(L, M, O) ==
  \A d \in O : M.fp[d] = L.fp[d] /\ M.iob[L.fp[d]].handle = L.iob[L.fp[d]].handle

\* There are finitely many of them.
LEMMA OwnersFinite ==
  ASSUME NEW L, NEW O \in SUBSET FDs, NEW f
  PROVE  IsFiniteSet(Owners(L, O, f)) /\ Cardinality(Owners(L, O, f)) \in Nat
<1>1. IsFiniteSet(FDs)
  BY SizeAssumption, FS_Interval DEF FDs
<1>2. IsFiniteSet(Owners(L, O, f))
  BY <1>1, FS_Subset DEF Owners
<1> QED BY <1>2, FS_CardinalityType

\* Nothing changes for the descriptors of O, unless a FILE has none of them.
LEMMA GoodStay ==
  ASSUME NEW L, NEW O, Good(L, O), L \in LIB, NEW M, M \in LIB, L.maxfd <= M.maxfd,
         \A d \in O : M.fp[d] = L.fp[d],
         \A f \in Files :
           \/ Owners(L, O, f) = {}
           \/ /\ M.iob[f].nestcnt >= L.iob[f].nestcnt /\ M.iob[f].handle = L.iob[f].handle
              /\ L.iob[f].flags # "free" => M.iob[f].flags # "free",
         \A f \in Files : Kind(M, f)
  PROVE  Good(M, O) /\ Same(L, M, O)
<1>1. O \in SUBSET FDs /\ \A f \in Files : Owners(M, O, f) = Owners(L, O, f)
  BY DEF Good, Owners
<1>2. \A d \in O : L.fp[d] \in Files /\ Owners(L, O, L.fp[d]) # {}
  BY DEF Good, Reach, Owners
<1>3. Same(L, M, O)
  BY <1>2 DEF Same
<1>4. ASSUME NEW d \in O PROVE Reach(M, d)
  <2>1. Reach(L, d) /\ d \in Int /\ L.maxfd \in Int /\ M.maxfd \in Int
    BY <1>1, SizeAssumption DEF Good, FDs, LIB
  <2> QED BY <1>2, <2>1 DEF Reach
<1>5. ASSUME NEW f \in Files PROVE Cardinality(Owners(M, O, f)) <= M.iob[f].nestcnt + 1
  <2>1. M.iob[f].nestcnt \in Nat /\ L.iob[f].nestcnt \in Nat
    BY DEF LIB, FILE
  <2>2. Cardinality(Owners(L, O, f)) \in Nat /\ Cardinality(Owners(L, O, f)) <= L.iob[f].nestcnt + 1
    BY <1>1, OwnersFinite DEF Good
  <2>3. CASE Owners(L, O, f) = {}
    <3>1. Owners(M, O, f) = {}
      BY <1>1, <2>3
    <3>2. Cardinality(Owners(M, O, f)) = 0
      BY <3>1, FS_EmptySet
    <3> QED BY <2>1, <3>2
  <2>4. CASE M.iob[f].nestcnt >= L.iob[f].nestcnt
    BY <1>1, <2>1, <2>2, <2>4
  <2> QED BY <2>3, <2>4
<1> QED BY <1>1, <1>3, <1>4, <1>5 DEF Good

\* The program is given descriptor fd, of a FILE that had none or counts one more.
LEMMA GoodGain ==
  ASSUME NEW L, NEW O, Good(L, O), L \in LIB, NEW M, M \in LIB, M.maxfd = L.maxfd,
         NEW fd \in FDs \ O, 3 <= fd, fd < L.maxfd, NEW g \in Files,
         M.fp = [L.fp EXCEPT ![fd] = g], \A f \in Files \ {g} : M.iob[f] = L.iob[f],
         M.iob[g].flags # "free", Own(M.iob[g].handle),
         \/ Owners(L, O, g) = {}
         \/ M.iob[g].nestcnt = L.iob[g].nestcnt + 1 /\ M.iob[g].handle = L.iob[g].handle,
         \A f \in Files : Kind(M, f)
  PROVE  Good(M, O \cup {fd}) /\ Same(L, M, O)
<1>1. /\ M.fp[fd] = g /\ \A d \in O : M.fp[d] = L.fp[d]
      /\ O \in SUBSET FDs /\ O \cup {fd} \in SUBSET FDs
  BY DEF Good, LIB
<1>2. \A d \in O : L.fp[d] \in Files /\ Owners(L, O, L.fp[d]) # {}
  BY DEF Good, Reach, Owners
<1>3. \A d \in O : M.iob[L.fp[d]].handle = L.iob[L.fp[d]].handle
  BY <1>2
<1>4. ASSUME NEW d \in O PROVE Reach(M, d)
  <2>1. Reach(L, d)
    BY DEF Good
  <2>2. CASE L.fp[d] = g
    BY <1>1, <1>3, <2>1, <2>2 DEF Reach
  <2>3. CASE L.fp[d] # g
    BY <1>1, <2>1, <2>3 DEF Reach
  <2> QED BY <2>2, <2>3
<1>5. Reach(M, fd)
  BY <1>1 DEF Reach
<1>6. ASSUME NEW f \in Files PROVE Cardinality(Owners(M, O \cup {fd}, f)) <= M.iob[f].nestcnt + 1
  <2>1. M.iob[f].nestcnt \in Nat /\ L.iob[f].nestcnt \in Nat
    BY DEF LIB, FILE
  <2>2. /\ Cardinality(Owners(L, O, f)) \in Nat /\ IsFiniteSet(Owners(L, O, f))
        /\ Cardinality(Owners(L, O, f)) <= L.iob[f].nestcnt + 1
    BY <1>1, OwnersFinite DEF Good
  <2>3. CASE f # g
    <3>1. Owners(M, O \cup {fd}, f) = Owners(L, O, f)
      BY <1>1, <2>3 DEF Owners
    <3> QED BY <2>2, <2>3, <3>1
  <2>4. CASE f = g
    <3>1. Owners(M, O \cup {fd}, f) = Owners(L, O, f) \cup {fd} /\ fd \notin Owners(L, O, f)
      BY <1>1, <2>4 DEF Owners
    <3>2. Cardinality(Owners(M, O \cup {fd}, f)) = Cardinality(Owners(L, O, f)) + 1
      BY <2>2, <3>1, FS_AddElement
    <3>3. CASE Owners(L, O, g) = {}
      BY <2>1, <2>4, <3>2, <3>3, FS_EmptySet
    <3>4. CASE M.iob[g].nestcnt = L.iob[g].nestcnt + 1
      BY <2>1, <2>2, <2>4, <3>2, <3>4
    <3> QED BY <3>3, <3>4
  <2> QED BY <2>3, <2>4
<1> QED BY <1>1, <1>3, <1>4, <1>5, <1>6 DEF Good, Same

\* The program gives up descriptor fd, whose FILE counts one less or has no other.
LEMMA GoodLose ==
  ASSUME NEW L, NEW O, Good(L, O), L \in LIB, NEW M, M \in LIB, M.maxfd = L.maxfd,
         NEW fd \in O, \A d \in O \ {fd} : M.fp[d] = L.fp[d],
         \A f \in Files \ {L.fp[fd]} : M.iob[f] = L.iob[f],
         LET r == L.iob[L.fp[fd]]
             s == M.iob[L.fp[fd]]
         IN \/ r.nestcnt = 0
            \/ s.nestcnt = r.nestcnt - 1 /\ s.handle = r.handle /\ s.flags = r.flags
            \/ s = r,
         \A f \in Files : Kind(M, f)
  PROVE  Good(M, O \ {fd}) /\ Same(L, M, O \ {fd})
<1> DEFINE g == L.fp[fd]
           P == O \ {fd}
<1>1. O \in SUBSET FDs /\ P \in SUBSET FDs /\ g \in Files
  BY DEF Good, Reach
<1>2. \A f \in Files : Owners(M, P, f) = Owners(L, O, f) \ {fd}
  BY DEF Owners
<1>3. fd \in Owners(L, O, g) /\ \A f \in Files \ {g} : fd \notin Owners(L, O, f)
  BY DEF Owners
<1>c. /\ L.iob[g].nestcnt \in Nat /\ M.iob[g].nestcnt \in Nat
      /\ IsFiniteSet(Owners(L, O, g)) /\ Cardinality(Owners(L, O, g)) \in Nat
      /\ Cardinality(Owners(L, O, g)) <= L.iob[g].nestcnt + 1
      /\ Cardinality(Owners(M, P, g)) = Cardinality(Owners(L, O, g)) - 1
      /\ IsFiniteSet(Owners(M, P, g)) /\ Cardinality(Owners(M, P, g)) \in Nat
  <2>1. L.iob[g].nestcnt \in Nat /\ M.iob[g].nestcnt \in Nat
    BY <1>1 DEF LIB, FILE
  <2>2. IsFiniteSet(Owners(L, O, g)) /\ Cardinality(Owners(L, O, g)) \in Nat
    BY <1>1, OwnersFinite
  <2>3. Cardinality(Owners(L, O, g)) <= L.iob[g].nestcnt + 1
    BY <1>1 DEF Good
  <2>4. Cardinality(Owners(M, P, g)) = Cardinality(Owners(L, O, g)) - 1
    <3>1. Owners(M, P, g) = Owners(L, O, g) \ {fd}
      BY <1>1, <1>2
    <3>2. Cardinality(Owners(L, O, g) \ {fd}) = Cardinality(Owners(L, O, g)) - 1
      BY <1>3, <2>2, FS_RemoveElement
    <3> QED BY <3>1, <3>2
  <2>5. IsFiniteSet(Owners(M, P, g)) /\ Cardinality(Owners(M, P, g)) \in Nat
    BY <1>1, OwnersFinite
  <2> QED BY <2>1, <2>2, <2>3, <2>4, <2>5
<1>4. \A d \in P : L.fp[d] # g \/ (M.iob[g].handle = L.iob[g].handle /\ M.iob[g].flags = L.iob[g].flags)
  <2>1. CASE L.iob[g].nestcnt = 0
    <3>1. Cardinality(Owners(M, P, g)) = 0
      BY <1>c, <2>1
    <3>2. Owners(M, P, g) = {}
      BY <1>c, <3>1, FS_EmptySet
    <3> QED BY <3>2 DEF Owners
  <2>2. CASE L.iob[g].nestcnt # 0
    BY <2>2
  <2> QED BY <2>1, <2>2
<1>5. \A d \in P : M.fp[d] = L.fp[d] /\ L.fp[d] \in Files
  BY DEF Good, Reach
<1>6. ASSUME NEW d \in P PROVE Reach(M, d) /\ M.iob[L.fp[d]].handle = L.iob[L.fp[d]].handle
  <2>1. Reach(L, d)
    BY DEF Good
  <2>2. CASE L.fp[d] = g
    BY SMTT(20), <1>4, <1>5, <2>1, <2>2 DEF Reach
  <2>3. CASE L.fp[d] # g
    BY <1>5, <2>1, <2>3 DEF Reach
  <2> QED BY <2>2, <2>3
<1>7. ASSUME NEW f \in Files PROVE Cardinality(Owners(M, P, f)) <= M.iob[f].nestcnt + 1
  <2>1. CASE f # g
    <3>1. Owners(M, P, f) = Owners(L, O, f)
      BY SMTT(20), <1>2, <1>3, <2>1
    <3> QED BY <2>1, <3>1 DEF Good
  <2>2. CASE f = g
    BY <1>c, <2>2
  <2> QED BY <2>1, <2>2
<1> QED BY <1>1, <1>5, <1>6, <1>7 DEF Good, Same

\* Same says less of fewer descriptors, and what one step leaves alone the next may too.
LEMMA SameSteps ==
  /\ \A L, O : Same(L, L, O)
  /\ \A L, M, O, P : Same(L, M, O) /\ P \subseteq O => Same(L, M, P)
  /\ \A L, M, N, O : Same(L, M, O) /\ Same(M, N, O) => Same(L, N, O)
BY DEF Same

\* A FILE that is free has no descriptor of the program.
LEMMA FreeOwners ==
  ASSUME NEW L, NEW O, Good(L, O), NEW f, L.iob[f].flags = "free"
  PROVE  Owners(L, O, f) = {}
BY DEF Good, Reach, Owners

\* Nor does an entry without a FILE belong to it.
LEMMA NullUnowned ==
  ASSUME NEW L, NEW O, Good(L, O), NEW fd, L.fp[fd] = NULL
  PROVE  fd \notin O
BY ValueAssumption DEF Good, Reach

\* What a FILE says of its handle stays true while it and the handle stay as they are.
LEMMA KindStays ==
  ASSUME NEW L, NEW M, NEW f, Kind(L, f), M.iob[f].handle = L.iob[f].handle,
         M.iob[f].fdflags = L.iob[f].fdflags,
         Own(L.iob[f].handle) => M.dos[L.iob[f].handle] = L.dos[L.iob[f].handle]
  PROVE  Kind(M, f)
BY DEF Kind

\* It says nothing of a handle that is not the program's.
LEMMA KindOfNone ==
  ASSUME NEW M, NEW f, ~Own(M.iob[f].handle)
  PROVE  Kind(M, f)
BY DEF Kind

\* __sinit(): the program has nothing before.
LEMMA SinitedGood ==
  ASSUME NEW L, Sound(L), Untouched(L), NEW O, Good(L, O)
  PROVE  Good(Sinited(L), O) /\ Same(L, Sinited(L), O)
<1> DEFINE S == Sinited(L)
<1>1. Sound(S) /\ S.dos = L.dos /\ S.maxfd = L.maxfd /\ L.maxfd \in Int
  BY SinitedSound, SizeAssumption DEF Sound, LIB
<1>2. CASE L.sdidinit
  BY <1>2, SameSteps DEF Sinited
<1>3. CASE ~L.sdidinit
  <2>1. O = {}
    BY <1>3, ValueAssumption DEF Untouched, Good, Reach
  <2>2. S.iob = [f \in Files |-> IF f < 3 THEN StdFile(f) ELSE L.iob[f]]
    BY <1>3 DEF Sinited, Sound, LIB
  <2>3. ASSUME NEW f \in Files PROVE Kind(S, f)
    <3>1. CASE f < 3
      <4>1. f \in 0 .. 2 /\ S.iob[f] = StdFile(f)
        BY <2>2, <3>1 DEF Files
      <4>2. ~Own(S.iob[f].handle)
        BY <4>1, FilesTyped DEF Own
      <4> QED BY <4>2, KindOfNone
    <3>2. CASE ~(f < 3)
      <4>1. S.iob[f] = L.iob[f] /\ Kind(L, f)
        BY <2>2, <3>2 DEF Good
      <4> HIDE DEF S
      <4> QED BY <1>1, <4>1, KindStays
    <3> QED BY <3>1, <3>2
  <2>4. \A f \in Files : Owners(L, O, f) = {}
    BY <2>1 DEF Owners
  <2> HIDE DEF S
  <2>5. \A d \in O : S.fp[d] = L.fp[d]
    BY <2>1
  <2>6. L \in LIB /\ S \in LIB /\ L.maxfd <= S.maxfd
    BY <1>1 DEF Sound
  <2>7. Good(S, O) /\ Same(L, S, O)
    BY <2>3, <2>4, <2>5, <2>6, GoodStay
  <2> QED BY <2>7 DEF S
<1> QED BY <1>2, <1>3

\* __sfp() takes a FILE that nobody has.
LEMMA ReservedGood ==
  ASSUME NEW L, Sound(L), NEW O, Good(L, O), NEW f \in Files, IsSfp(L, f)
  PROVE  /\ Good(Reserved(L, f), O) /\ Same(L, Reserved(L, f), O)
         /\ Owners(Reserved(L, f), O, f) = {}
<1> DEFINE R == Reserved(L, f)
<1>1. Sound(R) /\ R.dos = L.dos /\ R.maxfd = L.maxfd /\ R.fp = L.fp
  BY ReservedSound
<1>2. R.iob[f] = [Blank EXCEPT !.flags = "reserved"] /\ \A g \in Files \ {f} : R.iob[g] = L.iob[g]
  BY DEF Reserved, Sound, LIB
<1>3. Owners(L, O, f) = {}
  BY FreeOwners DEF IsSfp
<1>4. ~Own(R.iob[f].handle)
  BY <1>2, ValueAssumption DEF Blank, Own
<1> HIDE DEF R
<1>5. ASSUME NEW g \in Files PROVE Kind(R, g)
  <2>1. CASE g = f
    BY <1>4, <2>1, KindOfNone
  <2>2. CASE g # f
    BY <1>1, <1>2, <2>2, KindStays DEF Good
  <2> QED BY <2>1, <2>2
<1>6. L \in LIB /\ R \in LIB /\ L.maxfd <= R.maxfd
  BY <1>1, SizeAssumption DEF Sound, LIB
<1>7. ASSUME NEW g \in Files, Owners(L, O, g) # {}
      PROVE  /\ R.iob[g].nestcnt >= L.iob[g].nestcnt /\ R.iob[g].handle = L.iob[g].handle
             /\ L.iob[g].flags # "free" => R.iob[g].flags # "free"
  <2>1. R.iob[g] = L.iob[g] /\ L.iob[g].nestcnt \in Nat
    BY <1>2, <1>3, <1>6, <1>7 DEF LIB, FILE
  <2> QED BY <2>1
<1>8. Good(R, O) /\ Same(L, R, O)
  BY <1>1, <1>5, <1>6, <1>7, GoodStay
<1>9. Owners(R, O, f) = {}
  BY <1>1, <1>3 DEF Owners
<1> QED BY <1>8, <1>9 DEF R

\* getfd() returns a descriptor that the program does not have.
LEMMA GetfdGood ==
  ASSUME NEW L, Even(L), NEW O, Good(L, O), NEW fd \in FDs, IsGetfd(L, fd)
  PROVE  Good(Getfd(L, fd), O) /\ Same(L, Getfd(L, fd), O) /\ fd \notin O
<1> DEFINE G == Getfd(L, fd)
<1>1. /\ Sound(G) /\ G.dos = L.dos /\ G.iob = L.iob /\ G.fp = L.fp
      /\ L.fp[fd] = NULL /\ L.maxfd <= G.maxfd /\ Sound(L)
  BY GetfdSound, GetfdEven DEF Even
<1>2. fd \notin O
  BY <1>1, NullUnowned
<1> HIDE DEF G
<1>3. \A f \in Files : Kind(G, f)
  BY <1>1 DEF Good, Kind
<1>4. \A f \in Files : G.iob[f].nestcnt >= L.iob[f].nestcnt
  BY <1>1 DEF Sound, LIB, FILE
<1>5. Good(G, O) /\ Same(L, G, O)
  BY <1>1, <1>3, <1>4, GoodStay DEF Sound
<1> QED BY <1>2, <1>5 DEF G

\* A handle is opened that no FILE holds.
LEMMA StrandGood ==
  ASSUME NEW L, Sound(L), NEW O, Good(L, O), NEW h \in Handles, Fresh(L, h),
         NEW kind \in DosState \ {"closed"}
  PROVE  Good([L EXCEPT !.dos[h] = kind], O) /\ Same(L, [L EXCEPT !.dos[h] = kind], O)
<1> DEFINE M == [L EXCEPT !.dos[h] = kind]
<1>1. Sound(M)
  BY StrandHandle
<1>2. /\ M.fp = L.fp /\ M.iob = L.iob /\ M.maxfd = L.maxfd
      /\ \A k \in Handles : k # h => M.dos[k] = L.dos[k]
  BY DEF Sound, LIB
<1> HIDE DEF M
<1>3. ASSUME NEW f \in Files PROVE Kind(M, f)
  <2>1. L.iob[f].handle # h
    BY FreshUnheld
  <2> QED BY <1>2, <2>1, KindStays DEF Good, Own
<1>4. \A f \in Files : M.iob[f].nestcnt >= L.iob[f].nestcnt /\ L.maxfd <= M.maxfd
  BY <1>2, SizeAssumption DEF Sound, LIB, FILE
<1>5. Good(M, O) /\ Same(L, M, O)
  BY <1>1, <1>2, <1>3, <1>4, GoodStay, SizeAssumption DEF Sound, LIB
<1> QED BY <1>5 DEF M

\* The program is given descriptor fd for FILE g, which is given a fresh handle.
LEMMA TakeGood ==
  ASSUME NEW L, Sound(L), NEW O, Good(L, O), NEW fd \in FDs \ O, 3 <= fd, fd < L.maxfd,
         NEW g \in Files, Owners(L, O, g) = {}, NEW M, Sound(M),
         M.fp = [L.fp EXCEPT ![fd] = g], M.maxfd = L.maxfd,
         \A f \in Files \ {g} : M.iob[f] = L.iob[f],
         Fresh(L, M.iob[g].handle), M.iob[g].flags # "free", Kind(M, g),
         \A k \in Handles : k # M.iob[g].handle => M.dos[k] = L.dos[k]
  PROVE  Good(M, O \cup {fd}) /\ Same(L, M, O)
<1>1. L \in LIB /\ M \in LIB
  BY DEF Sound
<1>2. ASSUME NEW f \in Files PROVE Kind(M, f)
  <2>1. CASE f = g
    BY <2>1
  <2>2. CASE f # g
    <3>1. L.iob[f].handle # M.iob[g].handle
      BY FreshUnheld
    <3>2. Kind(L, f) /\ M.iob[f] = L.iob[f]
      BY <2>2 DEF Good
    <3>3. Own(L.iob[f].handle) => M.dos[L.iob[f].handle] = L.dos[L.iob[f].handle]
      BY <3>1 DEF Own
    <3> QED BY <3>2, <3>3, KindStays
  <2> QED BY <2>1, <2>2
<1>3. Own(M.iob[g].handle)
  BY DEF Fresh
<1> QED BY ONLY Good(L, O), Owners(L, O, g) = {}, fd \in FDs \ O, 3 <= fd, fd < L.maxfd,
                g \in Files, M.fp = [L.fp EXCEPT ![fd] = g], M.maxfd = L.maxfd,
                \A f \in Files \ {g} : M.iob[f] = L.iob[f], M.iob[g].flags # "free",
                <1>1, <1>2, <1>3, GoodGain

\* _open_fp() with a FILE that has no descriptor.
LEMMA OpenFpGood ==
  ASSUME NEW L, Even(L), NEW O, Good(L, O), NEW f \in Files, Owners(L, O, f) = {},
         L.iob[f].flags # "free", "SOCKET" \notin L.iob[f].fdflags,
         NEW fd \in FDs, IsGetfd(L, fd), NEW res, NEW h, Given(L, res, h)
  PROVE  LET M == OpenFp(L, f, fd, res, h) IN
         /\ Good(M, O \cup (IF Opened(res) THEN {fd} ELSE {})) /\ Same(L, M, O)
         /\ fd \notin O /\ 3 <= fd
         /\ Opened(res) => M.fp[fd] = f /\ M.iob[f].handle = h
<1> DEFINE G == Getfd(L, fd)
           M == OpenFp(L, f, fd, res, h)
           r == Holding(G.iob[f], res, h)
<1>1. Sound(G) /\ G.dos = L.dos /\ G.iob = L.iob /\ G.fp = L.fp /\ 3 <= fd /\ fd < G.maxfd
  BY GetfdSound, GetfdEven DEF Even
<1>2. Good(G, O) /\ Same(L, G, O) /\ fd \notin O
  BY GetfdGood
<1>3. Owners(G, O, f) = {}
  BY <1>1 DEF Owners
<1>4. Sound(M)
  BY OpenFpSound DEF Even
<1>5. CASE res = "refused"
  <2>1. M = G /\ ~Opened(res)
    BY <1>5 DEF OpenFp, Opened
  <2> HIDE DEF G, M
  <2>2. Good(M, O) /\ Same(L, M, O)
    BY <1>2, <2>1
  <2> QED BY <1>1, <1>2, <2>1, <2>2 DEF M
<1>6. CASE res = "stranded"
  <2>1. M = [G EXCEPT !.dos[h] = "file"] /\ ~Opened(res)
    BY <1>6 DEF OpenFp, Opened
  <2>2. h \in Handles /\ Fresh(G, h)
    BY <1>1, <1>6 DEF Given, Fresh
  <2> HIDE DEF G, M
  <2>3. Good(M, O) /\ Same(G, M, O)
    BY <1>1, <1>2, <2>1, <2>2, StrandGood DEF DosState
  <2>4. Same(L, M, O)
    BY <1>2, <2>3, SameSteps
  <2> QED BY <1>1, <1>2, <2>1, <2>3, <2>4 DEF M
<1>7. CASE res \in {"lock", "file"}
  <2>1. M = [G EXCEPT !.dos[h] = res, !.fp[fd] = f, !.iob[f] = r] /\ Opened(res)
    BY <1>7 DEF OpenFp, Opened
  <2>2. G.iob[f] \in FILE /\ h \in Handles /\ Fresh(G, h) /\ res \in DosState \ {"closed"}
    BY <1>1, <1>7 DEF Given, Fresh, Sound, LIB, DosState
  <2> HIDE DEF G
  <2>3. r \in FILE /\ r.handle = h /\ r.flags = G.iob[f].flags
    BY <1>7, <2>2 DEF Holding, FILE, FdFlags
  <2>4. "SOCKET" \notin r.fdflags /\ (res = "lock" => "DIRLOCK" \in r.fdflags)
    BY <1>1, <1>7, <2>2 DEF Holding, FILE
  <2> HIDE DEF M, r
  <2>5. /\ M.fp = [G.fp EXCEPT ![fd] = f] /\ M.iob = [G.iob EXCEPT ![f] = r]
        /\ M.dos = [G.dos EXCEPT ![h] = res] /\ M.maxfd = G.maxfd
    BY <1>1, <2>1 DEF Sound, LIB
  <2>6. Good(M, O \cup {fd}) /\ Same(G, M, O)
    <3>1. /\ M.iob[f] = r /\ \A g \in Files \ {f} : M.iob[g] = G.iob[g]
          /\ M.dos[h] = res /\ \A k \in Handles : k # h => M.dos[k] = G.dos[k]
      BY <1>1, <2>2, <2>5 DEF Sound, LIB
    <3>2. Fresh(G, M.iob[f].handle) /\ M.iob[f].flags # "free"
      BY <1>1, <2>2, <2>3, <3>1
    <3>3. Kind(M, f)
      BY <1>7, <2>3, <2>4, <3>1 DEF Kind
    <3>4. \A k \in Handles : k # M.iob[f].handle => M.dos[k] = G.dos[k]
      BY <2>3, <3>1
    <3>5. fd \in FDs \ O
      BY <1>2
    <3> QED BY <1>1, <1>2, <1>3, <1>4, <2>5, <3>1, <3>2, <3>3, <3>4, <3>5, TakeGood
  <2>7. Same(L, M, O)
    BY <1>2, <2>6, SameSteps
  <2>8. M.fp[fd] = f /\ M.iob[f].handle = h
    BY <1>1, <2>3, <2>5 DEF Sound, LIB
  <2> QED BY <1>1, <1>2, <2>1, <2>6, <2>7, <2>8 DEF M
<1> QED BY <1>5, <1>6, <1>7 DEF Given, Results

\* The caller of _open_fp() sets the flags of the FILE: it makes a stream of it, or sets it
\* free when it has no descriptor.
LEMMA FlagsGood ==
  ASSUME NEW L, Sound(L), NEW O, Good(L, O), NEW f \in Files
  PROVE  /\ \A fd \in FDs : Good(SetStream(L, f, fd), O) /\ Same(L, SetStream(L, f, fd), O)
         /\ Owners(L, O, f) = {} =>
              Good(SetFlags(L, f, "free"), O) /\ Same(L, SetFlags(L, f, "free"), O)
<1>1. L \in LIB /\ L.iob \in [Files -> FILE] /\ L.iob[f] \in FILE /\ L.maxfd <= L.maxfd
  BY SizeAssumption DEF Sound, LIB
<1>2. ASSUME NEW M, M \in LIB, M.fp = L.fp, M.dos = L.dos, M.maxfd = L.maxfd,
             \A g \in Files \ {f} : M.iob[g] = L.iob[g],
             M.iob[f].handle = L.iob[f].handle, M.iob[f].fdflags = L.iob[f].fdflags,
             M.iob[f].nestcnt = L.iob[f].nestcnt,
             Owners(L, O, f) = {} \/ M.iob[f].flags # "free"
      PROVE  Good(M, O) /\ Same(L, M, O)
  <2>1. ASSUME NEW g \in Files PROVE Kind(M, g)
    <3>1. M.iob[g].handle = L.iob[g].handle /\ M.iob[g].fdflags = L.iob[g].fdflags
      BY <1>2
    <3> QED BY <1>2, <3>1, KindStays DEF Good
  <2>2. ASSUME NEW g \in Files, Owners(L, O, g) # {}
        PROVE  /\ M.iob[g].nestcnt >= L.iob[g].nestcnt /\ M.iob[g].handle = L.iob[g].handle
               /\ L.iob[g].flags # "free" => M.iob[g].flags # "free"
    <3>1. L.iob[g].nestcnt \in Nat
      BY <1>1 DEF FILE
    <3>2. CASE g = f
      BY <1>2, <2>2, <3>1, <3>2
    <3>3. CASE g # f
      BY <1>2, <3>1, <3>3
    <3> QED BY <3>2, <3>3
  <2> QED BY <1>1, <1>2, <2>1, <2>2, GoodStay
<1>3. ASSUME NEW fd \in FDs PROVE Good(SetStream(L, f, fd), O) /\ Same(L, SetStream(L, f, fd), O)
  <2> DEFINE M == SetStream(L, f, fd)
             r == [L.iob[f] EXCEPT !.flags = "stream", !.file = fd]
  <2>1. M \in LIB
    BY FlagsSound DEF Sound
  <2>2. M.iob = [L.iob EXCEPT ![f] = r] /\ M.fp = L.fp /\ M.maxfd = L.maxfd /\ M.dos = L.dos
    BY <1>1 DEF SetStream, LIB
  <2>3. r.handle = L.iob[f].handle /\ r.fdflags = L.iob[f].fdflags /\ r.nestcnt = L.iob[f].nestcnt /\ r.flags = "stream"
    BY <1>1 DEF FILE
  <2> HIDE DEF M, r
  <2>4. M.iob[f] = r /\ \A g \in Files \ {f} : M.iob[g] = L.iob[g]
    BY <1>1, <2>2
  <2>5. Good(M, O) /\ Same(L, M, O)
    BY <1>2, <2>1, <2>2, <2>3, <2>4
  <2> QED BY <2>5 DEF M
<1>4. ASSUME Owners(L, O, f) = {}
      PROVE  Good(SetFlags(L, f, "free"), O) /\ Same(L, SetFlags(L, f, "free"), O)
  <2> DEFINE M == SetFlags(L, f, "free")
             r == [L.iob[f] EXCEPT !.flags = "free"]
  <2>1. M \in LIB
    BY FlagsSound DEF Sound, FileFlags
  <2>2. M.iob = [L.iob EXCEPT ![f] = r] /\ M.fp = L.fp /\ M.maxfd = L.maxfd /\ M.dos = L.dos
    BY <1>1 DEF SetFlags, LIB
  <2>3. r.handle = L.iob[f].handle /\ r.fdflags = L.iob[f].fdflags /\ r.nestcnt = L.iob[f].nestcnt
    BY <1>1 DEF FILE
  <2> HIDE DEF M, r
  <2>4. M.iob[f] = r /\ \A g \in Files \ {f} : M.iob[g] = L.iob[g]
    BY <1>1, <2>2
  <2>5. Good(M, O) /\ Same(L, M, O)
    BY <1>2, <1>4, <2>1, <2>2, <2>3, <2>4
  <2> QED BY <2>5 DEF M
<1> QED BY <1>3, <1>4

\* _open_fp() as fopen() and freopen() finish it.
LEMMA OpenStreamGood ==
  ASSUME NEW L, Even(L), NEW O, Good(L, O), NEW f \in Files, Owners(L, O, f) = {},
         L.iob[f].flags # "free", "SOCKET" \notin L.iob[f].fdflags,
         NEW fd \in FDs, IsGetfd(L, fd), NEW res, NEW h, Given(L, res, h)
  PROVE  LET M == OpenStream(L, f, fd, res, h) IN
         /\ Good(M, O \cup (IF Opened(res) THEN {fd} ELSE {})) /\ Same(L, M, O)
         /\ fd \notin O /\ 3 <= fd
         /\ Opened(res) => M.iob[f].file = fd /\ M.iob[f].handle = h
         /\ ~Opened(res) => M.iob[f].flags = "free"
<1> DEFINE T == OpenFp(L, f, fd, res, h)
           P == O \cup (IF Opened(res) THEN {fd} ELSE {})
           M == OpenStream(L, f, fd, res, h)
<1>1. Good(T, P) /\ Same(L, T, O) /\ fd \notin O /\ 3 <= fd
      /\ (Opened(res) => T.fp[fd] = f /\ T.iob[f].handle = h)
  BY OpenFpGood
<1>2. Sound(T)
  BY OpenFpSound DEF Even
<1>3. M = IF Opened(res) THEN SetStream(T, f, fd) ELSE SetFlags(T, f, "free")
  BY DEF OpenStream
<1>4. O \subseteq P
  OBVIOUS
<1> HIDE DEF T, M
<1>5. CASE Opened(res)
  <2>1. Good(M, P) /\ Same(T, M, P)
    BY <1>1, <1>2, <1>3, <1>5, FlagsGood
  <2>2. Same(L, M, O)
    BY <1>1, <1>4, <2>1, SameSteps
  <2>3. M.iob[f].file = fd /\ M.iob[f].handle = T.iob[f].handle
    BY <1>2, <1>3, <1>5 DEF SetStream, Sound, LIB, FILE
  <2> QED BY <1>1, <1>5, <2>1, <2>2, <2>3 DEF M
<1>6. CASE ~Opened(res)
  <2>1. P = O
    BY <1>6
  <2>2. Owners(T, O, f) = {}
    BY <1>1 DEF Same, Owners
  <2> HIDE DEF P
  <2>3. Good(M, O) /\ Same(T, M, O)
    BY <1>1, <1>2, <1>3, <1>6, <2>1, <2>2, FlagsGood
  <2>4. Same(L, M, O)
    BY <1>1, <2>3, SameSteps
  <2>5. M.iob[f].flags = "free"
    BY <1>2, <1>3, <1>6 DEF SetFlags, Sound, LIB, FILE
  <2> QED BY <1>1, <1>6, <2>1, <2>3, <2>4, <2>5 DEF M, P
<1> QED BY <1>5, <1>6

\* A FILE takes over a fresh socket.
LEMMA SocketFileGood ==
  ASSUME NEW L, Sound(L), NEW O, Good(L, O), NEW g \in Files, Owners(L, O, g) = {},
         NEW fd \in FDs \ O, 3 <= fd, fd < L.maxfd, NEW h \in Handles, Fresh(L, h)
  PROVE  LET M == SocketFile(L, g, fd, h) IN
         /\ Good(M, O \cup {fd}) /\ Same(L, M, O)
         /\ M.fp[fd] = g /\ M.maxfd = L.maxfd
<1> DEFINE r == [Blank EXCEPT !.flags = "reserved", !.file = fd, !.handle = h, !.fdflags = {"SOCKET"}]
           M == SocketFile(L, g, fd, h)
<1>1. r.handle = h /\ r.flags = "reserved" /\ r.fdflags = {"SOCKET"}
  BY DEF Blank
<1>2. M = [L EXCEPT !.dos[h] = "sock", !.fp[fd] = g, !.iob[g] = r]
  BY DEF SocketFile
<1>3. Sound(M)
  BY SocketFileSound
<1> HIDE DEF M, r
<1>4. /\ M.fp = [L.fp EXCEPT ![fd] = g] /\ M.maxfd = L.maxfd
      /\ M.iob = [L.iob EXCEPT ![g] = r] /\ M.dos = [L.dos EXCEPT ![h] = "sock"]
  BY <1>2 DEF Sound, LIB
<1>s. L.iob \in [Files -> FILE] /\ L.fp \in [FDs -> Files \cup {NULL}] /\ L.dos \in [Handles -> DosState]
  BY DEF Sound, LIB
<1>5. /\ M.iob[g] = r /\ \A f \in Files \ {g} : M.iob[f] = L.iob[f]
      /\ M.dos[h] = "sock" /\ \A k \in Handles : k # h => M.dos[k] = L.dos[k]
      /\ M.fp[fd] = g
  BY <1>4, <1>s
<1>6. Kind(M, g) /\ Fresh(L, M.iob[g].handle) /\ M.iob[g].flags # "free"
  BY <1>1, <1>5 DEF Kind
<1>7. \A k \in Handles : k # M.iob[g].handle => M.dos[k] = L.dos[k]
  BY <1>1, <1>5
<1>8. Good(M, O \cup {fd}) /\ Same(L, M, O)
  <2>1. M.fp = [L.fp EXCEPT ![fd] = g] /\ M.maxfd = L.maxfd
    BY <1>4
  <2>2. \A f \in Files \ {g} : M.iob[f] = L.iob[f]
    BY <1>5
  <2> QED BY <1>3, <1>6, <1>7, <2>1, <2>2, TakeGood
<1> QED BY <1>4, <1>5, <1>8 DEF M

\* One more descriptor shares FILE f.
Shared(L, f, fd) == [L EXCEPT !.fp[fd] = f, !.iob[f].nestcnt = @ + 1]

\* What sharing a FILE changes.
ShareChanges(L, M, f, fd) ==
  /\ M.fp = [L.fp EXCEPT ![fd] = f] /\ M.maxfd = L.maxfd /\ M.dos = L.dos
  /\ \A g \in Files \ {f} : M.iob[g] = L.iob[g]
  /\ M.iob[f].nestcnt = L.iob[f].nestcnt + 1
  /\ \A g \in Files : /\ M.iob[g].handle = L.iob[g].handle /\ M.iob[g].flags = L.iob[g].flags
                      /\ M.iob[g].fdflags = L.iob[g].fdflags /\ M.iob[g].file = L.iob[g].file

LEMMA ShareFields ==
  ASSUME NEW L, Sound(L), NEW f \in Files, NEW fd \in FDs, NEW M, M = Shared(L, f, fd)
  PROVE  Sound(M) /\ ShareChanges(L, M, f, fd)
<1>1. Sound(M)
  BY ShareSound DEF Shared
<1>2. /\ M.fp = [L.fp EXCEPT ![fd] = f] /\ M.maxfd = L.maxfd /\ M.dos = L.dos
      /\ M.iob = [L.iob EXCEPT ![f] = [L.iob[f] EXCEPT !.nestcnt = L.iob[f].nestcnt + 1]]
  BY DEF Sound, LIB, Shared
<1>3. L.iob[f] \in FILE
  BY DEF Sound, LIB
<1>4. /\ M.iob[f] = [L.iob[f] EXCEPT !.nestcnt = L.iob[f].nestcnt + 1]
      /\ \A g \in Files \ {f} : M.iob[g] = L.iob[g]
  BY <1>2 DEF Sound, LIB
<1>5. /\ M.iob[f].nestcnt = L.iob[f].nestcnt + 1
      /\ M.iob[f].handle = L.iob[f].handle /\ M.iob[f].flags = L.iob[f].flags
      /\ M.iob[f].fdflags = L.iob[f].fdflags /\ M.iob[f].file = L.iob[f].file
  BY <1>3, <1>4 DEF FILE
<1>6. \A g \in Files : /\ M.iob[g].handle = L.iob[g].handle /\ M.iob[g].flags = L.iob[g].flags
                       /\ M.iob[g].fdflags = L.iob[g].fdflags /\ M.iob[g].file = L.iob[g].file
  BY <1>4, <1>5
<1> QED BY <1>1, <1>2, <1>4, <1>5, <1>6 DEF ShareChanges

\* The program is told (dup2()) or is not (fcntl()).
LEMMA ShareGood ==
  ASSUME NEW L, Sound(L), NEW O, Good(L, O), NEW f \in Files,
         NEW fd \in FDs \ O, 3 <= fd, fd < L.maxfd, NEW M, M = Shared(L, f, fd)
  PROVE  /\ Good(M, O) /\ Same(L, M, O)
         /\ Owners(L, O, f) # {} => Good(M, O \cup {fd})
         /\ M.fp[fd] = f /\ M.maxfd = L.maxfd
<1>1. /\ Sound(M) /\ M.fp = [L.fp EXCEPT ![fd] = f] /\ M.maxfd = L.maxfd /\ M.dos = L.dos
      /\ \A g \in Files \ {f} : M.iob[g] = L.iob[g]
      /\ M.iob[f].nestcnt = L.iob[f].nestcnt + 1
      /\ \A g \in Files : /\ M.iob[g].handle = L.iob[g].handle /\ M.iob[g].flags = L.iob[g].flags
                          /\ M.iob[g].fdflags = L.iob[g].fdflags
  <2>1. Sound(M) /\ ShareChanges(L, M, f, fd)
    BY ShareFields
  <2> QED BY <2>1 DEF ShareChanges
<1>2. L \in LIB /\ M \in LIB /\ L.maxfd <= M.maxfd
  BY <1>1, SizeAssumption DEF Sound, LIB
<1>3. \A g \in Files : L.iob[g].nestcnt \in Nat
  BY <1>2 DEF LIB, FILE
<1>4. ASSUME NEW g \in Files PROVE Kind(M, g)
  <2>1. M.iob[g].handle = L.iob[g].handle /\ M.iob[g].fdflags = L.iob[g].fdflags
    BY <1>1
  <2> QED BY <1>1, <2>1, KindStays DEF Good
<1>5. ASSUME NEW g \in Files
      PROVE  /\ M.iob[g].nestcnt >= L.iob[g].nestcnt /\ M.iob[g].handle = L.iob[g].handle
             /\ M.iob[g].flags = L.iob[g].flags
  <2>1. CASE g = f
    BY <1>1, <1>3, <2>1
  <2>2. CASE g # f
    BY <1>1, <1>3, <2>2
  <2> QED BY <2>1, <2>2
<1>6. M.fp[fd] = f /\ \A d \in O : M.fp[d] = L.fp[d]
  BY <1>1, <1>2 DEF LIB, Good
<1>7. Good(M, O) /\ Same(L, M, O)
  BY <1>2, <1>4, <1>5, <1>6, GoodStay
<1>8. ASSUME Owners(L, O, f) # {} PROVE Good(M, O \cup {fd})
  <2>1. L.iob[f].flags # "free" /\ Own(L.iob[f].handle)
    BY <1>8 DEF Owners, Good, Reach
  <2>2. M.iob[f].flags # "free" /\ Own(M.iob[f].handle)
    BY <1>5, <2>1
  <2>3. M.iob[f].nestcnt = L.iob[f].nestcnt + 1 /\ M.iob[f].handle = L.iob[f].handle
    BY <1>1, <1>3
  <2> QED BY ONLY Good(L, O), fd \in FDs \ O, 3 <= fd, fd < L.maxfd, f \in Files,
                  <1>1, <1>2, <1>4, <2>2, <2>3, GoodGain
<1> QED BY <1>1, <1>6, <1>7, <1>8

\* What close() does not change, whatever it does.
LEMMA CloseFields ==
  ASSUME NEW L, Sound(L), NEW fd, NEW ok \in BOOLEAN, NEW C, C = CloseFd(L, fd, ok)
  PROVE  /\ C.maxfd = L.maxfd
         /\ \A f \in Files : /\ C.iob[f].flags = L.iob[f].flags /\ C.iob[f].file = L.iob[f].file
                             /\ C.iob[f].fdflags \in {L.iob[f].fdflags, {}}
                             /\ f # L.fp[fd] => C.iob[f] = L.iob[f]
         /\ \A d \in FDs : C.fp[d] = L.fp[d] \/ (d = fd /\ C.fp[d] = NULL)
<1> DEFINE g == L.fp[fd]
<1>1. L \in LIB
  BY DEF Sound
<1>2. CASE C = L
  BY <1>2
<1>3. CASE fd \in FDs /\ g \in Files /\ CountsDown(L, C, g)
  <2>1. L.iob[g] \in FILE /\ C.iob[g] = [L.iob[g] EXCEPT !.nestcnt = L.iob[g].nestcnt - 1]
    BY <1>1, <1>3 DEF CountsDown, LIB
  <2>2. /\ C.iob[g].flags = L.iob[g].flags /\ C.iob[g].file = L.iob[g].file
        /\ C.iob[g].fdflags = L.iob[g].fdflags
    BY <2>1 DEF FILE
  <2>3. C.fp = L.fp /\ C.maxfd = L.maxfd /\ \A f \in Files \ {g} : C.iob[f] = L.iob[f]
    BY <1>1, <1>3 DEF CountsDown, LIB
  <2> QED BY <2>2, <2>3
<1>4. CASE fd \in FDs /\ g \in Files /\ GivesUp(L, C, fd, g)
  <2>1. L.iob[g] \in FILE /\ C.iob[g] = Emptied(L.iob[g])
    BY <1>1, <1>4 DEF GivesUp, LIB
  <2>2. C.iob[g].flags = L.iob[g].flags /\ C.iob[g].file = L.iob[g].file /\ C.iob[g].fdflags = {}
    BY <2>1 DEF FILE, Emptied
  <2>3. C.maxfd = L.maxfd /\ C.fp = [L.fp EXCEPT ![fd] = NULL] /\ \A f \in Files \ {g} : C.iob[f] = L.iob[f]
    BY <1>1, <1>4 DEF GivesUp, LIB
  <2>4. \A d \in FDs : C.fp[d] = L.fp[d] \/ (d = fd /\ C.fp[d] = NULL)
    BY <1>1, <2>3 DEF LIB
  <2> QED BY <2>2, <2>3, <2>4
<1> QED BY <1>2, <1>3, <1>4, CloseCases

\* close() of a descriptor of the program.
LEMMA CloseGood ==
  ASSUME NEW L, Sound(L), NEW O, Good(L, O), NEW fd \in O, NEW ok \in BOOLEAN,
         NEW C, C = CloseFd(L, fd, ok)
  PROVE  Good(C, O \ {fd}) /\ Same(L, C, O \ {fd})
<1> DEFINE g == L.fp[fd]
<1>1. Sound(C) /\ L \in LIB /\ C \in LIB
  BY CloseFdSound DEF Sound
<1>2. /\ C.maxfd = L.maxfd /\ \A f \in Files \ {g} : C.iob[f] = L.iob[f]
      /\ \A d \in FDs : C.fp[d] = L.fp[d] \/ (d = fd /\ C.fp[d] = NULL)
  BY CloseFields
<1>3. \A d \in O \ {fd} : C.fp[d] = L.fp[d]
  BY <1>2 DEF Good
<1>4. CASE C = L
  <2>1. \A f \in Files : Kind(C, f)
    BY <1>4 DEF Good
  <2>2. C.iob[g] = L.iob[g]
    BY <1>4
  <2> QED BY ONLY Good(L, O), fd \in O, <1>1, <1>2, <1>3, <2>1, <2>2, GoodLose
<1>5. CASE g \in Files /\ CountsDown(L, C, g)
  <2>1. L.iob[g] \in FILE /\ C.iob[g] = [L.iob[g] EXCEPT !.nestcnt = L.iob[g].nestcnt - 1]
    BY <1>1, <1>5 DEF CountsDown, LIB
  <2>2. /\ C.iob[g].handle = L.iob[g].handle /\ C.iob[g].fdflags = L.iob[g].fdflags
        /\ C.iob[g].nestcnt = L.iob[g].nestcnt - 1 /\ C.iob[g].flags = L.iob[g].flags
    BY <2>1 DEF FILE
  <2>3. ASSUME NEW f \in Files PROVE Kind(C, f)
    <3>1. C.iob[f].handle = L.iob[f].handle /\ C.iob[f].fdflags = L.iob[f].fdflags /\ C.dos = L.dos
      BY <1>2, <1>5, <2>2 DEF CountsDown
    <3> QED BY <3>1, KindStays DEF Good
  <2> QED BY <1>1, <1>2, <1>3, <2>2, <2>3, GoodLose
<1>6. CASE fd \in FDs /\ g \in Files /\ GivesUp(L, C, fd, g)
  <2>1. C.iob[g].handle = NoHandle /\ L.iob[g].nestcnt = 0
    <3>1. C.iob[g].handle = NoHandle
      BY ONLY <1>1, <1>6, GivesUpFields
    <3> QED BY <1>6, <3>1 DEF GivesUp
  <2>2. ASSUME NEW f \in Files PROVE Kind(C, f)
    <3>1. CASE f = g
      BY <2>1, <3>1, KindOfNone, ValueAssumption DEF Own
    <3>2. CASE f # g
      <4>1. Kind(L, f) /\ C.iob[f] = L.iob[f]
        BY <1>2, <3>2 DEF Good
      <4>2. Own(L.iob[f].handle) => L.iob[f].handle # L.iob[g].handle
        BY <1>6, <3>2 DEF Sound, Distinct
      <4>3. Own(L.iob[f].handle) => C.dos[L.iob[f].handle] = L.dos[L.iob[f].handle]
        BY <1>6, <4>2 DEF GivesUp, Own
      <4> QED BY <4>1, <4>3, KindStays
    <3> QED BY <3>1, <3>2
  <2> QED BY <1>1, <1>2, <1>3, <2>1, <2>2, GoodLose
<1> QED BY <1>4, <1>5, <1>6, CloseCases

\* close() that fails does nothing.
LEMMA CloseFails ==
  ASSUME NEW L, NEW fd, NEW ok, ~CloseSucceeds(L, fd, ok)
  PROVE  CloseFd(L, fd, ok) = L
BY DEF CloseSucceeds, CloseFd

\* A standard stream has a standard descriptor, and no stream is a socket while the program
\* does not call fdopen().
Fine(r) ==
  /\ r.flags = "std" => r.file \in 0 .. 2
  /\ r.flags = "stream" => "SOCKET" \notin r.fdflags

Streams(L) == \A f \in Files : Fine(L.iob[f])

\* A FILE is replaced by one of the kind.
LEMMA ReplaceFine ==
  ASSUME NEW L, Sound(L), Streams(L), NEW f \in Files, NEW r, Fine(r),
         NEW M, M.iob = [L.iob EXCEPT ![f] = r]
  PROVE  Streams(M)
<1>1. M.iob[f] = r /\ \A g \in Files \ {f} : M.iob[g] = L.iob[g]
  BY DEF Sound, LIB
<1> QED BY <1>1 DEF Streams

\* The calls __sinit(), __sfp() and getfd().
LEMMA FoundFine ==
  ASSUME NEW L, Sound(L), Streams(L)
  PROVE  /\ Streams(Sinited(L))
         /\ \A f \in Files : Streams(Reserved(L, f))
         /\ \A fd \in FDs : Streams(Getfd(L, fd))
<1>1. Streams(Sinited(L))
  <2>1. CASE L.sdidinit
    BY <2>1 DEF Sinited
  <2>2. CASE ~L.sdidinit
    <3>1. Sinited(L).iob = [f \in Files |-> IF f < 3 THEN StdFile(f) ELSE L.iob[f]]
      BY <2>2 DEF Sinited, Sound, LIB
    <3>2. \A f \in Files : f < 3 => Fine(StdFile(f))
      BY DEF StdFile, Fine, Files
    <3> QED BY <3>1, <3>2 DEF Streams
  <2> QED BY <2>1, <2>2
<1>2. ASSUME NEW f \in Files PROVE Streams(Reserved(L, f))
  <2>1. Fine([Blank EXCEPT !.flags = "reserved"])
    BY DEF Blank, Fine
  <2>2. Reserved(L, f).iob = [L.iob EXCEPT ![f] = [Blank EXCEPT !.flags = "reserved"]]
    BY DEF Reserved, Sound, LIB
  <2> QED BY <2>1, <2>2, ReplaceFine
<1>3. ASSUME NEW fd \in FDs PROVE Streams(Getfd(L, fd))
  <2>1. Getfd(L, fd).iob = L.iob
    BY DEF Getfd, Sound, LIB
  <2> QED BY <2>1 DEF Streams
<1> QED BY <1>1, <1>2, <1>3

\* A FILE is set free or made a stream of a descriptor.
LEMMA FlagsFine ==
  ASSUME NEW L, Sound(L), Streams(L), NEW f \in Files
  PROVE  /\ Streams(SetFlags(L, f, "free"))
         /\ "SOCKET" \notin L.iob[f].fdflags => \A fd \in FDs : Streams(SetStream(L, f, fd))
<1>1. L.iob[f] \in FILE
  BY DEF Sound, LIB
<1>2. Streams(SetFlags(L, f, "free"))
  <2> DEFINE r == [L.iob[f] EXCEPT !.flags = "free"]
  <2>1. Fine(r)
    BY <1>1 DEF Fine, FILE
  <2>2. SetFlags(L, f, "free").iob = [L.iob EXCEPT ![f] = r]
    BY DEF SetFlags, Sound, LIB
  <2> HIDE DEF r
  <2> QED BY <2>1, <2>2, ReplaceFine
<1>3. ASSUME "SOCKET" \notin L.iob[f].fdflags, NEW fd \in FDs PROVE Streams(SetStream(L, f, fd))
  <2> DEFINE r == [L.iob[f] EXCEPT !.flags = "stream", !.file = fd]
  <2>1. Fine(r)
    BY <1>1, <1>3 DEF Fine, FILE
  <2>2. SetStream(L, f, fd).iob = [L.iob EXCEPT ![f] = r]
    BY DEF SetStream, Sound, LIB
  <2> HIDE DEF r
  <2> QED BY <2>1, <2>2, ReplaceFine
<1> QED BY <1>2, <1>3

\* _open_fp()
LEMMA OpenFpFine ==
  ASSUME NEW L, Sound(L), Streams(L), NEW f \in Files, NEW fd \in FDs, IsGetfd(L, fd),
         NEW res, NEW h, Given(L, res, h), "SOCKET" \notin L.iob[f].fdflags
  PROVE  LET M == OpenFp(L, f, fd, res, h) IN
         Streams(M) /\ "SOCKET" \notin M.iob[f].fdflags
<1> DEFINE G == Getfd(L, fd)
           M == OpenFp(L, f, fd, res, h)
           r == Holding(G.iob[f], res, h)
<1>1. Sound(G) /\ G.iob = L.iob /\ Streams(G)
  BY GetfdSound, FoundFine
<1>2. CASE res = "refused"
  BY <1>1, <1>2 DEF OpenFp
<1>3. CASE res = "stranded"
  <2>1. M = [G EXCEPT !.dos[h] = "file"]
    BY <1>3 DEF OpenFp
  <2> HIDE DEF G, M
  <2>2. M.iob = L.iob
    BY <1>1, <2>1 DEF Sound, LIB
  <2>3. Streams(M) /\ "SOCKET" \notin M.iob[f].fdflags
    BY <2>2 DEF Streams
  <2> QED BY <2>3 DEF M
<1>4. CASE res \in {"lock", "file"}
  <2>1. M = [G EXCEPT !.dos[h] = res, !.fp[fd] = f, !.iob[f] = r]
    BY <1>4 DEF OpenFp
  <2>2. G.iob[f] \in FILE /\ Fine(G.iob[f])
    BY <1>1 DEF Sound, LIB, Streams
  <2> HIDE DEF G
  <2>3. r.flags = G.iob[f].flags /\ r.file = G.iob[f].file /\ "SOCKET" \notin r.fdflags
    BY <1>1, <2>2 DEF Holding, FILE
  <2>4. Fine(r)
    BY <2>2, <2>3 DEF Fine
  <2> HIDE DEF M, r
  <2>5. M.iob = [G.iob EXCEPT ![f] = r]
    BY <1>1, <2>1 DEF Sound, LIB
  <2>6. Streams(M)
    BY <1>1, <2>4, <2>5, ReplaceFine
  <2>7. M.iob[f] = r
    BY <1>1, <2>5 DEF Sound, LIB
  <2> QED BY <2>3, <2>6, <2>7 DEF M
<1> QED BY <1>2, <1>3, <1>4 DEF Given, Results

\* _open_fp() as fopen() and freopen() finish it.
LEMMA OpenStreamFine ==
  ASSUME NEW L, Sound(L), Streams(L), NEW f \in Files, NEW fd \in FDs, IsGetfd(L, fd),
         NEW res, NEW h, Given(L, res, h), "SOCKET" \notin L.iob[f].fdflags
  PROVE  Streams(OpenStream(L, f, fd, res, h))
<1> DEFINE T == OpenFp(L, f, fd, res, h)
<1>1. Sound(T) /\ Streams(T) /\ "SOCKET" \notin T.iob[f].fdflags
  BY OpenFpSound, OpenFpFine
<1>2. OpenStream(L, f, fd, res, h) = IF Opened(res) THEN SetStream(T, f, fd) ELSE SetFlags(T, f, "free")
  BY DEF OpenStream
<1> HIDE DEF T
<1> QED BY <1>1, <1>2, FlagsFine

\* close() and fclose().
LEMMA CloseFine ==
  ASSUME NEW L, Sound(L), Streams(L), NEW ok \in BOOLEAN
  PROVE  /\ \A fd : Streams(CloseFd(L, fd, ok))
         /\ \A f \in Files : Streams(FcloseFile(L, f, ok))
<1>1. ASSUME NEW fd PROVE Streams(CloseFd(L, fd, ok))
  <2> DEFINE C == CloseFd(L, fd, ok)
  <2>1. \A f \in Files : /\ C.iob[f].flags = L.iob[f].flags /\ C.iob[f].file = L.iob[f].file
                         /\ C.iob[f].fdflags \in {L.iob[f].fdflags, {}}
    BY CloseFields
  <2> HIDE DEF C
  <2>2. Streams(C)
    BY <2>1 DEF Streams, Fine
  <2> QED BY <2>2 DEF C
<1>2. ASSUME NEW f \in Files PROVE Streams(FcloseFile(L, f, ok))
  <2> DEFINE c == IF L.iob[f].flags = "stream" THEN CloseFd(L, L.iob[f].file, ok) ELSE L
  <2>1. Sound(c) /\ Streams(c)
    BY <1>1, CloseFdSound
  <2>2. FcloseFile(L, f, ok) = SetFlags(c, f, "free")
    BY DEF FcloseFile
  <2> HIDE DEF c
  <2> QED BY <2>1, <2>2, FlagsFine
<1> QED BY <1>1, <1>2

\* Another descriptor shares a FILE.
LEMMA SharedFine ==
  ASSUME NEW L, Sound(L), Streams(L), NEW f \in Files, NEW fd \in FDs,
         NEW M, M = Shared(L, f, fd)
  PROVE  Streams(M)
<1> DEFINE r == [L.iob[f] EXCEPT !.nestcnt = L.iob[f].nestcnt + 1]
<1>1. L.iob[f] \in FILE /\ Fine(L.iob[f])
  BY DEF Sound, LIB, Streams
<1>2. r.flags = L.iob[f].flags /\ r.file = L.iob[f].file /\ r.fdflags = L.iob[f].fdflags
  BY <1>1 DEF FILE
<1>3. Fine(r)
  BY <1>1, <1>2 DEF Fine
<1>4. M.iob = [L.iob EXCEPT ![f] = r]
  BY DEF Sound, LIB, Shared
<1> HIDE DEF r
<1> QED BY <1>3, <1>4, ReplaceFine

\* A FILE becomes that of a socket.
LEMMA SocketFine ==
  ASSUME NEW L, Sound(L), Streams(L), NEW f \in Files, NEW fd \in FDs, NEW h \in Handles
  PROVE  Streams(SocketFile(L, f, fd, h))
<1> DEFINE r == [Blank EXCEPT !.flags = "reserved", !.file = fd, !.handle = h, !.fdflags = {"SOCKET"}]
<1>1. Fine(r)
  BY DEF Blank, Fine
<1>2. SocketFile(L, f, fd, h).iob = [L.iob EXCEPT ![f] = r]
  BY DEF SocketFile, Sound, LIB
<1> HIDE DEF r
<1> QED BY <1>1, <1>2, ReplaceFine

\* The programs the last two theorems are about: they do not pass a standard descriptor to the
\* calls of the table, and do not call fdopen().  A FILE that is severed or miscounted without
\* fclose(), freopen(), dup() or dup2() of their own descriptors comes from one of the two.
Plain == Disciplined /\ StdUsed = {} /\ "fdopen" \notin Calls

\* The streams of the library that a call leaves.
LEMMA BecomesFine ==
  ASSUME NEW L, Sound(L), Streams(L), Becomes(L)
  PROVE  Streams(Lib)'
<1>1. Lib' = L
  BY DEF Becomes, Lib, Sound, LIB
<1> QED BY <1>1 DEF Streams, Fine

\* A stream that the program passes to fclose() or freopen() has a descriptor of its own.
LEMMA PassedStream ==
  ASSUME Plain, NEW L, Sound(L), Streams(L), NEW f \in Files, L.iob[f].flags \in {"std", "stream"},
         MayUse(L.iob[f].file)
  PROVE  /\ L.iob[f].flags = "stream" /\ "SOCKET" \notin L.iob[f].fdflags
         /\ L.iob[f].file \in owned \ (0 .. 2) /\ L.iob[f].file >= 3
<1>1. L.iob[f].file \in FDs \cup {-1} /\ Fine(L.iob[f])
  BY DEF Sound, LIB, FILE, Streams
<1>2. L.iob[f].file \in 3 .. maxfd - 1 /\ L.iob[f].file \in owned
  BY DEF Plain, MayUse
<1>3. L.iob[f].file \notin 0 .. 2 /\ L.iob[f].file >= 3
  BY <1>1, <1>2, SizeAssumption DEF FDs
<1> QED BY <1>1, <1>2, <1>3 DEF Fine

\* What a call leaves of the streams.
LEMMA NextStreams ==
  ASSUME Plain, IInv, Streams(Lib), Next, phase = "main"
  PROVE  Streams(Lib)'
<1> DEFINE S == Sinited(Lib)
<1>s. Sound(Lib) /\ Sound(S) /\ Streams(S) /\ S.dos = Lib.dos /\ S.maxfd = Lib.maxfd
  BY SinitedSound, FoundFine DEF IInv
<1>t. Lib.fp = fp /\ Lib.iob = iob /\ Lib.dos = dos /\ Lib.maxfd = maxfd
  BY DEF Lib
<1>d. 0 \in FDs /\ DupTargets \subseteq FDs
  BY SizeAssumption DEF FDs
<1>r. \A f \in Files : Sound(Reserved(S, f)) /\ Streams(Reserved(S, f))
                       /\ Reserved(S, f).dos = S.dos /\ Reserved(S, f).iob[f].fdflags = {}
  <2>1. \A f \in Files : Sound(Reserved(S, f)) /\ Streams(Reserved(S, f)) /\ Reserved(S, f).dos = S.dos
    BY <1>s, ReservedSound, FoundFine
  <2>2. \A f \in Files : Reserved(S, f).iob[f] = [Blank EXCEPT !.flags = "reserved"]
    BY <1>s DEF Reserved, Sound, LIB
  <2> QED BY <2>1, <2>2 DEF Blank
<1>1. ASSUME NEW flags \in Requests, Open(flags) PROVE Streams(Lib)'
  <2>1. PICK f \in Files, fd \in FDs, res \in OpenResults[flags], h \in FreeHandles(S) \cup {NoHandle} :
          LET R == Reserved(S, f) IN
          /\ IsSfp(S, f) /\ IsGetfd(R, fd)
          /\ (h = NoHandle) <=> (res = "refused")
          /\ Becomes(OpenFp(R, f, fd, res, h))
    BY <1>1 DEF Open
  <2> HIDE DEF S
  <2> DEFINE R == Reserved(S, f)
  <2>2. Sound(R) /\ Streams(R) /\ R.dos = S.dos /\ "SOCKET" \notin R.iob[f].fdflags
    BY <1>r
  <2>3. Given(S, res, h)
    BY <1>s, <2>1, OpenAnswers
  <2>4. Given(R, res, h) /\ IsGetfd(R, fd) /\ Becomes(OpenFp(R, f, fd, res, h))
    BY <2>1, <2>2, <2>3 DEF Given, Fresh
  <2> HIDE DEF R
  <2>5. Sound(OpenFp(R, f, fd, res, h)) /\ Streams(OpenFp(R, f, fd, res, h))
    BY <2>2, <2>4, OpenFpSound, OpenFpFine
  <2> QED BY <2>4, <2>5, BecomesFine
<1>2. ASSUME NEW flags \in Requests, Fopen(flags) PROVE Streams(Lib)'
  <2>1. PICK f \in Files, fd \in FDs, res \in OpenResults[flags], h \in FreeHandles(S) \cup {NoHandle} :
          LET R == Reserved(S, f) IN
          /\ IsSfp(S, f) /\ IsGetfd(R, fd)
          /\ (h = NoHandle) <=> (res = "refused")
          /\ Becomes(OpenStream(R, f, fd, res, h))
    BY <1>2 DEF Fopen
  <2> HIDE DEF S
  <2> DEFINE R == Reserved(S, f)
  <2>2. Sound(R) /\ Streams(R) /\ R.dos = S.dos /\ "SOCKET" \notin R.iob[f].fdflags
    BY <1>r
  <2>3. Given(S, res, h)
    BY <1>s, <2>1, OpenAnswers
  <2>4. Given(R, res, h) /\ IsGetfd(R, fd) /\ Becomes(OpenStream(R, f, fd, res, h))
    BY <2>1, <2>2, <2>3 DEF Given, Fresh
  <2> HIDE DEF R
  <2>5. Sound(OpenStream(R, f, fd, res, h)) /\ Streams(OpenStream(R, f, fd, res, h))
    BY <2>2, <2>4, OpenStreamSound, OpenStreamFine
  <2> QED BY <2>4, <2>5, BecomesFine
<1>3. ASSUME NEW f \in Files, NEW flags \in Requests, Freopen(f, flags) PROVE Streams(Lib)'
  <2> DEFINE Closed(ok) == IF S.iob[f].flags = "stream" THEN CloseFd(S, S.iob[f].file, ok) ELSE S
  <2>1. PICK ok \in BOOLEAN, fd \in FDs, res \in OpenResults[flags], h \in FreeHandles(S) \cup {NoHandle} :
          /\ IsGetfd(Closed(ok), fd)
          /\ (h = NoHandle) <=> (res = "refused")
          /\ Becomes(OpenStream(Closed(ok), f, fd, res, h))
    BY <1>3 DEF Freopen
  <2>p. S.iob[f].flags \in {"std", "stream"} /\ MayUse(S.iob[f].file)
    BY <1>3 DEF Freopen
  <2> DEFINE C == CloseFd(S, S.iob[f].file, ok)
  <2> HIDE DEF S
  <2>2. S.iob[f].flags = "stream" /\ "SOCKET" \notin S.iob[f].fdflags
    BY <1>s, <2>p, PassedStream
  <2>3. /\ Sound(C) /\ Streams(C) /\ \A k \in Handles : S.dos[k] = "closed" => C.dos[k] = "closed"
        /\ C.iob[f].fdflags \in {S.iob[f].fdflags, {}}
    BY <1>s, CloseFdSound, CloseFine, CloseFields
  <2>4. Given(S, res, h)
    BY <1>s, <2>1, OpenAnswers
  <2>5. Given(C, res, h) /\ IsGetfd(C, fd) /\ Becomes(OpenStream(C, f, fd, res, h))
    BY <2>1, <2>2, <2>3, <2>4 DEF Given, Fresh, Own
  <2> HIDE DEF C
  <2>6. Sound(OpenStream(C, f, fd, res, h)) /\ Streams(OpenStream(C, f, fd, res, h))
    BY <2>2, <2>3, <2>5, OpenStreamSound, OpenStreamFine
  <2> QED BY <2>5, <2>6, BecomesFine
<1>4. ASSUME NEW f \in Files, Fclose(f) PROVE Streams(Lib)'
  <2>1. PICK ok \in BOOLEAN : Becomes(FcloseFile(Lib, f, ok))
    BY <1>4 DEF Fclose
  <2> QED BY <1>s, <2>1, FcloseSound, CloseFine, BecomesFine
<1>5. ASSUME NEW fd \in FDs, Fdopen(fd) \/ FdopenUnused(fd) PROVE Streams(Lib)'
  BY <1>5 DEF Fdopen, FdopenUnused, Called, Plain
<1>6. ASSUME NEW fd \in FDs, Close(fd) PROVE Streams(Lib)'
  <2>1. PICK ok \in BOOLEAN : Becomes(CloseFd(Lib, fd, ok))
    BY <1>6 DEF Close
  <2> QED BY <1>s, <2>1, CloseFdSound, CloseFine, BecomesFine
<1>c. ASSUME NEW C, Sound(C), Streams(C), NEW f \in Files, NEW newd \in FDs,
             Duplicate(C, f, newd) \/ NotDuplicated(C, f)
      PROVE  Streams(Lib)'
  <2>1. CASE Becomes(C)
    BY <1>c, <2>1, BecomesFine
  <2>2. CASE Becomes(Shared(C, f, newd))
    <3>1. Sound(Shared(C, f, newd)) /\ Streams(Shared(C, f, newd))
      BY <1>c, ShareFields, SharedFine
    <3> QED BY <2>2, <3>1, BecomesFine
  <2>3. ASSUME NEW g \in Files, NEW h \in FreeHandles(C), Becomes(SocketFile(C, g, newd, h))
        PROVE  Streams(Lib)'
    <3>1. h \in Handles /\ Fresh(C, h)
      BY <2>3 DEF FreeHandles, Fresh, Own
    <3>2. Sound(SocketFile(C, g, newd, h)) /\ Streams(SocketFile(C, g, newd, h))
      BY <1>c, <3>1, SocketFileSound, SocketFine
    <3> QED BY <2>3, <3>2, BecomesFine
  <2> QED BY <1>c, <2>1, <2>2, <2>3 DEF Duplicate, DupSockets, NotDuplicated, Shared
<1>u. \A fd \in FDs : fp[fd] # NULL => fp[fd] \in Files
  BY <1>s, <1>t DEF Sound, LIB
<1>7. ASSUME NEW oldd \in FDs, Dup(oldd) PROVE Streams(Lib)'
  <2>1. PICK fd \in FDs :
          /\ IsGetfd(Lib, fd)
          /\ Duplicate(Getfd(Lib, fd), fp[oldd], DupTarget(fd)) \/ NotDuplicated(Getfd(Lib, fd), fp[oldd])
    BY <1>7 DEF Dup
  <2>2. Sound(Getfd(Lib, fd)) /\ Streams(Getfd(Lib, fd)) /\ DupTarget(fd) \in FDs /\ fp[oldd] \in Files
    BY <1>7, <1>s, <1>d, <1>u, <2>1, GetfdSound, FoundFine DEF DupTarget, Dup
  <2> QED BY <1>c, <2>1, <2>2
<1>8. ASSUME NEW fd \in FDs, FcntlDup(fd) PROVE Streams(Lib)'
  <2>1. PICK newfd \in FDs :
          IsGetfd(Lib, newfd) /\ Becomes(Shared(Getfd(Lib, newfd), fp[fd], newfd))
    BY <1>8 DEF FcntlDup, Shared
  <2>2. Sound(Getfd(Lib, newfd)) /\ Streams(Getfd(Lib, newfd)) /\ fp[fd] \in Files
    BY <1>8, <1>s, <1>u, <2>1, GetfdSound, FoundFine DEF FcntlDup
  <2>3. Sound(Shared(Getfd(Lib, newfd), fp[fd], newfd)) /\ Streams(Shared(Getfd(Lib, newfd), fp[fd], newfd))
    BY <2>2, ShareFields, SharedFine
  <2> QED BY <2>1, <2>3, BecomesFine
<1>9. ASSUME NEW oldd \in FDs, NEW newd \in DupTargets, Dup2(oldd, newd) PROVE Streams(Lib)'
  <2> DEFINE Closed(ok) == IF fp[newd] # NULL THEN CloseFd(Lib, newd, ok) ELSE Lib
  <2>1. PICK ok \in BOOLEAN : Duplicate(Closed(ok), fp[oldd], newd) \/ NotDuplicated(Closed(ok), fp[oldd])
    BY <1>9 DEF Dup2
  <2>2. Sound(Closed(ok)) /\ Streams(Closed(ok)) /\ fp[oldd] \in Files /\ newd \in FDs
    BY <1>9, <1>s, <1>d, <1>u, CloseFdSound, CloseFine DEF Dup2
  <2> QED BY <1>c, <2>1, <2>2
<1>10. ASSUME NEW h \in Handles, Socket(h) \/ SocketNoFile(h) PROVE Streams(Lib)'
  <2>1. \A fd \in FDs : IsGetfd(Lib, fd) => /\ Sound(Getfd(S, fd)) /\ Streams(Getfd(S, fd))
                                            /\ Getfd(S, fd).dos = Lib.dos
    BY <1>s, SinitedTable, GetfdSound, FoundFine
  <2>2. CASE Socket(h)
    <3>1. PICK fd \in FDs, f \in Files : IsGetfd(Lib, fd) /\ Becomes(SocketFile(Getfd(S, fd), f, fd, h))
      BY <2>2 DEF Socket
    <3> DEFINE G == Getfd(S, fd)
    <3>2. Sound(G) /\ Streams(G) /\ Fresh(G, h)
      BY <1>t, <2>1, <2>2, <3>1 DEF Socket, FreeHandles, Fresh, Own
    <3> HIDE DEF G
    <3>3. Sound(SocketFile(G, f, fd, h)) /\ Streams(SocketFile(G, f, fd, h))
      BY <3>2, SocketFileSound, SocketFine
    <3> QED BY <3>1, <3>3, BecomesFine DEF G
  <2>3. CASE SocketNoFile(h)
    <3>1. PICK fd \in FDs : IsGetfd(Lib, fd) /\ Becomes([Getfd(S, fd) EXCEPT !.dos[h] = "sock"])
      BY <2>3 DEF SocketNoFile
    <3> DEFINE G == Getfd(S, fd)
    <3>2. Sound(G) /\ Streams(G)
      BY <2>1, <3>1
    <3> HIDE DEF G
    <3>3. Sound([G EXCEPT !.dos[h] = "sock"])
      BY <3>2, StrandHandle DEF DosState
    <3>4. Streams([G EXCEPT !.dos[h] = "sock"])
      BY <3>2 DEF Streams, Sound, LIB
    <3> QED BY <3>1, <3>3, <3>4, BecomesFine DEF G
  <2> QED BY <1>10, <2>2, <2>3
<1>11. ASSUME Stdio PROVE Streams(Lib)'
  BY <1>11, <1>s, BecomesFine DEF Stdio
<1>12. ASSUME LoseTable PROVE Streams(Lib)'
  BY <1>12, <1>s, BecomesFine DEF LoseTable
<1>13. ASSUME Exit PROVE Streams(Lib)'
  <2>1. Lib' = Lib
    BY <1>13 DEF Exit, Lib
  <2> QED BY <2>1 DEF Streams, Fine
<1>14. ~(Cleanup \/ CleanupEnds \/ ExitFd \/ ExitFdEnds)
  BY DEF Cleanup, CleanupEnds, ExitFd, ExitFdEnds
<1> HIDE DEF S
<1> QED BY <1>1, <1>2, <1>3, <1>4, <1>5, <1>6, <1>7, <1>8, <1>9, <1>10, <1>11, <1>12, <1>13, <1>14 DEF Next

----------------------------------------------------------------------------
(* The calls, one by one.                                                  *)

\* The descriptors that RightObject and Undisturbed are about.
Mine == owned \ (0 .. 2)

\* Where a descriptor may come to lead elsewhere (Undisturbed).
Moved(fd) ==
  \/ fd \in DupTargets /\ fp'[fd] \notin {NULL, fp[fd]} /\ maxfd' = maxfd
  \/ \E f \in Files : iob'[f].file = fd /\ iob'[f].handle \notin {NoHandle, iob[f].handle}

Calm ==
  \A fd \in (owned \cap owned') \ (0 .. 2) :
    (fp'[fd] # NULL /\ iob'[fp'[fd]].handle = iob[fp[fd]].handle) \/ Moved(fd)

\* What a call finds.
Ready ==
  /\ Plain /\ Even(Lib) /\ RestOK /\ Untouched(Lib) /\ Streams(Lib) /\ Good(Lib, Mine)
  /\ phase = "main"

\* What a call leaves, once it is known which descriptors it left alone.
LEMMA Settles ==
  ASSUME Good(Lib, Mine), NEW M, Sound(M), Becomes(M), NEW P, Mine' = P, Good(M, P),
         NEW X, Same(Lib, M, X), \A d \in (Mine \cap P) \ X : Moved(d)
  PROVE  Good(Lib, Mine)' /\ Calm
<1>1. Lib' = M
  BY DEF Becomes, Lib, Sound, LIB
<1>2. Good(Lib, Mine)'
  BY <1>1 DEF Good, Reach, Owners, Kind
<1>3. ASSUME NEW d \in X, d \in Mine
      PROVE  fp'[d] # NULL /\ iob'[fp'[d]].handle = iob[fp[d]].handle
  <2>1. fp'[d] = fp[d] /\ iob'[fp[d]].handle = iob[fp[d]].handle
    BY DEF Same, Becomes, Lib
  <2>2. fp[d] \in Files
    <3>1. Reach(Lib, d)
      BY <1>3 DEF Good
    <3> QED BY <3>1 DEF Reach, Lib
  <2> QED BY <2>1, <2>2, ValueAssumption
<1>4. (owned \cap owned') \ (0 .. 2) = Mine \cap P
  BY DEF Mine
<1> QED BY <1>2, <1>3, <1>4 DEF Calm

\* The descriptors of the program after a call.
LEMMA Learned ==
  ASSUME Plain, NEW got, NEW lost, Learns(got, lost)
  PROVE  Mine' = (Mine \ lost) \cup (got \ (0 .. 2))
BY DEF Plain, Learns, Mine

\* What the first call of __sinit() makes of what a call finds.
LEMMA Found ==
  ASSUME Ready
  PROVE  /\ Even(Sinited(Lib)) /\ Sound(Sinited(Lib)) /\ Sound(Lib) /\ Sinited(Lib).dos = Lib.dos
         /\ Good(Sinited(Lib), Mine) /\ Same(Lib, Sinited(Lib), Mine)
         /\ Sinited(Lib).maxfd = Lib.maxfd
BY SinitedEven, SinitedSound, SinitedGood DEF Ready, Even

\* __sfp() after __sinit().
LEMMA FileReserved ==
  ASSUME Ready, NEW f \in Files, IsSfp(Sinited(Lib), f)
  PROVE  LET R == Reserved(Sinited(Lib), f) IN
         /\ Even(R) /\ R.dos = Lib.dos /\ Good(R, Mine) /\ Same(Lib, R, Mine)
         /\ Owners(R, Mine, f) = {} /\ R.iob[f].flags # "free" /\ "SOCKET" \notin R.iob[f].fdflags
<1> DEFINE S == Sinited(Lib)
           R == Reserved(S, f)
<1>1. Even(S) /\ Sound(S) /\ S.dos = Lib.dos /\ Good(S, Mine) /\ Same(Lib, S, Mine)
  BY Found
<1> HIDE DEF S
<1>2. Even(R) /\ R.dos = S.dos /\ R.iob[f] = [Blank EXCEPT !.flags = "reserved"]
  BY <1>1, ReservedEven, ReservedSound
<1>3. Good(R, Mine) /\ Same(S, R, Mine) /\ Owners(R, Mine, f) = {}
  BY <1>1, ReservedGood DEF S
<1> HIDE DEF R
<1>4. R.iob[f].flags = "reserved" /\ R.iob[f].fdflags = {}
  BY <1>2 DEF Blank
<1>5. Same(Lib, R, Mine)
  BY <1>1, <1>3, SameSteps
<1> QED BY <1>1, <1>2, <1>3, <1>4, <1>5 DEF R, S

\* open()
LEMMA OpenReach ==
  ASSUME Ready, NEW flags \in Requests, Open(flags)
  PROVE  Good(Lib, Mine)' /\ Calm
<1> DEFINE S == Sinited(Lib)
<1>s. Sound(S) /\ S.dos = Lib.dos
  BY Found
<1>1. PICK f \in Files, fd \in FDs, res \in OpenResults[flags], h \in FreeHandles(S) \cup {NoHandle} :
        LET R == Reserved(S, f) IN
        /\ IsSfp(S, f) /\ IsGetfd(R, fd)
        /\ (h = NoHandle) <=> (res = "refused")
        /\ Becomes(OpenFp(R, f, fd, res, h))
        /\ Learns(IF Opened(res) THEN {fd} ELSE {}, {})
  BY DEF Open
<1> DEFINE R == Reserved(S, f)
           M == OpenFp(R, f, fd, res, h)
           got == IF Opened(res) THEN {fd} ELSE {}
<1>2. /\ Even(R) /\ R.dos = Lib.dos /\ Good(R, Mine) /\ Same(Lib, R, Mine)
      /\ Owners(R, Mine, f) = {} /\ R.iob[f].flags # "free" /\ "SOCKET" \notin R.iob[f].fdflags
  BY <1>1, FileReserved
<1> HIDE DEF S
<1>3. Given(S, res, h)
  BY <1>s, <1>1, OpenAnswers
<1>4. Given(R, res, h) /\ IsGetfd(R, fd) /\ Becomes(M) /\ Learns(got, {})
  BY <1>s, <1>1, <1>2, <1>3 DEF Given, Fresh
<1> HIDE DEF R
<1>5. Good(M, Mine \cup got) /\ Same(R, M, Mine) /\ fd \notin Mine /\ 3 <= fd
  BY <1>2, <1>4, OpenFpGood
<1>6. Sound(M)
  BY <1>2, <1>4, OpenFpSound DEF Even
<1>7. Same(Lib, M, Mine)
  BY <1>2, <1>5, SameSteps
<1>8. Mine' = Mine \cup got
  <2>1. Mine' = (Mine \ {}) \cup (got \ (0 .. 2))
    BY <1>4, Learned DEF Ready
  <2>2. fd \notin 0 .. 2
    BY <1>5
  <2> QED BY <2>1, <2>2
<1> HIDE DEF M, got
<1> QED BY <1>4, <1>5, <1>6, <1>7, <1>8, Settles DEF Ready

\* fopen()
LEMMA FopenReach ==
  ASSUME Ready, NEW flags \in Requests, Fopen(flags)
  PROVE  Good(Lib, Mine)' /\ Calm
<1> DEFINE S == Sinited(Lib)
<1>s. Sound(S) /\ S.dos = Lib.dos
  BY Found
<1>1. PICK f \in Files, fd \in FDs, res \in OpenResults[flags], h \in FreeHandles(S) \cup {NoHandle} :
        LET R == Reserved(S, f) IN
        /\ IsSfp(S, f) /\ IsGetfd(R, fd)
        /\ (h = NoHandle) <=> (res = "refused")
        /\ Becomes(OpenStream(R, f, fd, res, h))
        /\ Learns(IF Opened(res) THEN {fd} ELSE {}, {})
  BY DEF Fopen
<1> DEFINE R == Reserved(S, f)
           M == OpenStream(R, f, fd, res, h)
           got == IF Opened(res) THEN {fd} ELSE {}
<1>2. /\ Even(R) /\ R.dos = Lib.dos /\ Good(R, Mine) /\ Same(Lib, R, Mine)
      /\ Owners(R, Mine, f) = {} /\ R.iob[f].flags # "free" /\ "SOCKET" \notin R.iob[f].fdflags
  BY <1>1, FileReserved
<1> HIDE DEF S
<1>3. Given(S, res, h)
  BY <1>s, <1>1, OpenAnswers
<1>4. Given(R, res, h) /\ IsGetfd(R, fd) /\ Becomes(M) /\ Learns(got, {})
  BY <1>s, <1>1, <1>2, <1>3 DEF Given, Fresh
<1> HIDE DEF R
<1>5. Good(M, Mine \cup got) /\ Same(R, M, Mine) /\ fd \notin Mine /\ 3 <= fd
  BY <1>2, <1>4, OpenStreamGood
<1>6. Sound(M)
  BY <1>2, <1>4, OpenStreamSound DEF Even
<1>7. Same(Lib, M, Mine)
  BY <1>2, <1>5, SameSteps
<1>8. Mine' = Mine \cup got
  <2>1. Mine' = (Mine \ {}) \cup (got \ (0 .. 2))
    BY <1>4, Learned DEF Ready
  <2>2. fd \notin 0 .. 2
    BY <1>5
  <2> QED BY <2>1, <2>2
<1> HIDE DEF M, got
<1> QED BY <1>4, <1>5, <1>6, <1>7, <1>8, Settles DEF Ready

\* The calls that leave the descriptors as they are.
LEMMA IdleReach ==
  ASSUME Ready, Stdio \/ LoseTable \/ Exit
  PROVE  Good(Lib, Mine)' /\ Calm
<1>1. Sound(Lib) /\ Sound(Sinited(Lib)) /\ Good(Sinited(Lib), Mine) /\ Same(Lib, Sinited(Lib), Mine)
  BY Found
<1>2. PICK M : Becomes(M) /\ Sound(M) /\ Good(M, Mine) /\ Same(Lib, M, Mine)
  <2>1. CASE Stdio
    BY <1>1, <2>1 DEF Stdio
  <2>2. CASE LoseTable \/ Exit
    <3>1. Becomes(Lib)
      BY <2>2 DEF LoseTable, Exit, Becomes, Lib
    <3> QED BY <1>1, <3>1, SameSteps DEF Ready
  <2> QED BY <2>1, <2>2
<1>3. Mine' = Mine
  BY DEF Stdio, LoseTable, NoTable, Exit, Learns, Mine
<1> QED BY <1>2, <1>3, Settles DEF Ready

\* close()
LEMMA CloseReach ==
  ASSUME Ready, NEW fd \in FDs, Close(fd)
  PROVE  Good(Lib, Mine)' /\ Calm
<1>1. PICK ok \in BOOLEAN :
        /\ Becomes(CloseFd(Lib, fd, ok))
        /\ Learns({}, IF CloseSucceeds(Lib, fd, ok) THEN {fd} ELSE {})
  BY DEF Close
<1> DEFINE C == CloseFd(Lib, fd, ok)
           lost == IF CloseSucceeds(Lib, fd, ok) THEN {fd} ELSE {}
<1>2. Sound(Lib) /\ Sound(C)
  BY CloseFdSound DEF Ready, Even
<1>3. fd \in Mine
  BY DEF Close, MayUse, Mine, Ready, Plain, FDs
<1>4. Mine' = Mine \ lost
  <2>1. Mine' = (Mine \ lost) \cup ({} \ (0 .. 2))
    BY <1>1, Learned DEF Ready
  <2> QED BY <2>1
<1>5. Good(C, Mine \ lost) /\ Same(Lib, C, Mine \ lost)
  <2>1. CASE CloseSucceeds(Lib, fd, ok)
    <3> HIDE DEF C
    <3>1. C = CloseFd(Lib, fd, ok)
      BY DEF C
    <3>2. Good(C, Mine \ {fd}) /\ Same(Lib, C, Mine \ {fd})
      BY ONLY Ready, <1>2, <1>3, <3>1, CloseGood DEF Ready
    <3> QED BY <2>1, <3>2
  <2>2. CASE ~CloseSucceeds(Lib, fd, ok)
    <3>1. C = Lib
      BY <2>2, CloseFails
    <3>2. lost = {}
      BY <2>2
    <3> HIDE DEF C, lost
    <3> QED BY <3>1, <3>2, SameSteps DEF Ready
  <2> QED BY <2>1, <2>2
<1> HIDE DEF C, lost
<1>6. \A d \in (Mine \cap (Mine \ lost)) \ (Mine \ lost) : Moved(d)
  OBVIOUS
<1> QED BY ONLY Ready, <1>1, <1>2, <1>4, <1>5, <1>6, Settles DEF Ready, C

\* What the call that fopen() and freopen() end with leaves in the table and in its FILE.
LEMMA OpenStreamFields ==
  ASSUME NEW L, Even(L), NEW f \in Files, NEW fd \in FDs, IsGetfd(L, fd),
         NEW res, NEW h, Given(L, res, h), NEW M, M = OpenStream(L, f, fd, res, h)
  PROVE  /\ \A d \in FDs : M.fp[d] \in {L.fp[d], f}
         /\ Opened(res) => M.iob[f].handle = h
         /\ ~Opened(res) => M.iob[f].flags = "free"
<1> DEFINE G == Getfd(L, fd)
           T == OpenFp(L, f, fd, res, h)
           r == Holding(G.iob[f], res, h)
<1>1. Sound(G) /\ G.fp = L.fp /\ Sound(T)
  BY GetfdSound, GetfdEven, OpenFpSound DEF Even
<1>2. (\A d \in FDs : T.fp[d] \in {L.fp[d], f}) /\ (Opened(res) => T.iob[f].handle = h)
  <2>1. CASE res = "refused"
    BY <1>1, <2>1 DEF OpenFp, Opened
  <2>2. CASE res = "stranded"
    <3>1. T = [G EXCEPT !.dos[h] = "file"]
      BY <2>2 DEF OpenFp
    <3> HIDE DEF G, T
    <3>2. T.fp = G.fp
      BY <1>1, <3>1 DEF Sound, LIB
    <3> QED BY <1>1, <2>2, <3>2 DEF Opened
  <2>3. CASE res \in {"lock", "file"}
    <3>1. T = [G EXCEPT !.dos[h] = res, !.fp[fd] = f, !.iob[f] = r]
      BY <2>3 DEF OpenFp
    <3>2. G.iob[f] \in FILE
      BY <1>1 DEF Sound, LIB
    <3> HIDE DEF G
    <3>3. r.handle = h
      BY <3>2 DEF Holding, FILE
    <3> HIDE DEF T, r
    <3>4. T.fp = [G.fp EXCEPT ![fd] = f] /\ T.iob = [G.iob EXCEPT ![f] = r]
      BY <1>1, <3>1 DEF Sound, LIB
    <3>5. T.iob[f] = r /\ \A d \in FDs : T.fp[d] \in {G.fp[d], f}
      BY <1>1, <3>4 DEF Sound, LIB
    <3> QED BY <1>1, <3>3, <3>5
  <2> QED BY <2>1, <2>2, <2>3 DEF Given, Results
<1>3. M = IF Opened(res) THEN SetStream(T, f, fd) ELSE SetFlags(T, f, "free")
  BY DEF OpenStream
<1> HIDE DEF T
<1>4. M.fp = T.fp
  BY <1>1, <1>3 DEF SetStream, SetFlags, Sound, LIB
<1>5. Opened(res) => M.iob[f].handle = T.iob[f].handle
  BY <1>1, <1>3, FlagsHandles
<1>6. ~Opened(res) => M.iob[f].flags = "free"
  BY <1>1, <1>3 DEF SetFlags, Sound, LIB, FILE
<1> QED BY <1>2, <1>4, <1>5, <1>6

\* FILE f is a stream, and not of a socket.
IsStream(L, f) == L.iob[f].flags = "stream" /\ "SOCKET" \notin L.iob[f].fdflags

\* A stream of the program, its descriptor, and what close() makes of both.
LEMMA StreamClosed ==
  ASSUME Ready, NEW f \in Files, iob[f].flags \in {"std", "stream"}, MayUse(iob[f].file),
         NEW ok \in BOOLEAN, NEW fd, fd = iob[f].file, NEW C, C = CloseFd(Lib, fd, ok)
  PROVE  /\ IsStream(Lib, f) /\ IsStream(C, f)
         /\ fd \in Mine /\ {fd} \ (0 .. 2) = {fd} /\ Even(C) /\ Sinited(Lib) = Lib
         /\ Good(C, Mine \ {fd}) /\ Same(Lib, C, Mine \ {fd})
         /\ \A k : Fresh(Lib, k) => Fresh(C, k)
<1>1. Sound(Lib) /\ Even(Lib) /\ Streams(Lib) /\ Plain /\ Lib.iob = iob /\ Good(Lib, Mine)
  BY DEF Ready, Even, Lib
<1>2. /\ Lib.iob[f].flags = "stream" /\ "SOCKET" \notin Lib.iob[f].fdflags
      /\ fd \in owned \ (0 .. 2)
  BY <1>1, PassedStream
<1>3. fd \in Mine /\ {fd} \ (0 .. 2) = {fd}
  BY <1>2 DEF Mine
<1>4. /\ C.iob[f].flags = Lib.iob[f].flags
      /\ C.iob[f].fdflags \in {Lib.iob[f].fdflags, {}}
  BY ONLY <1>1, f \in Files, ok \in BOOLEAN, C = CloseFd(Lib, fd, ok), CloseFields
<1>5. Even(C)
  BY ONLY <1>1, ok \in BOOLEAN, C = CloseFd(Lib, fd, ok), CloseEven
<1>6. Good(C, Mine \ {fd}) /\ Same(Lib, C, Mine \ {fd})
  BY ONLY <1>1, <1>3, ok \in BOOLEAN, C = CloseFd(Lib, fd, ok), CloseGood
<1>7. \A k : Fresh(Lib, k) => Fresh(C, k)
  BY <1>1, CloseFdSound DEF Fresh, Own
<1>8. Sinited(Lib) = Lib
  <2>1. Lib.fp[fd] \in Files /\ fd \in FDs
    BY <1>1, <1>3 DEF Good, Reach
  <2>2. Lib.sdidinit
    BY <2>1, ValueAssumption DEF Ready, Untouched
  <2> QED BY <2>2 DEF Sinited
<1> QED BY <1>1, <1>2, <1>3, <1>4, <1>5, <1>6, <1>7, <1>8 DEF IsStream

\* A descriptor that is left of the FILE means that fclose() or freopen() has severed it.
LEMMA NotSevered ==
  ASSUME Ready, ~Severs, NEW f \in Files, iob[f].flags = "stream",
         iob'[f].flags = "free" \/ iob'[f].handle \notin {iob[f].handle, NoHandle},
         NEW d \in Mine, d \in owned', fp'[d] = f
  PROVE  fp[d] # f
<1>1. d \in owned \cap owned'
  BY DEF Mine
<1> QED BY <1>1 DEF Severs

\* fclose()
LEMMA FcloseReach ==
  ASSUME Ready, ~Severs, NEW f \in Files, Fclose(f)
  PROVE  Good(Lib, Mine)' /\ Calm
<1> DEFINE fd == iob[f].file
           P == Mine \ {fd}
<1>1. PICK ok \in BOOLEAN : Becomes(FcloseFile(Lib, f, ok)) /\ Learns({}, {fd} \ (0 .. 2))
  BY DEF Fclose
<1> DEFINE C == CloseFd(Lib, fd, ok)
           M == SetFlags(C, f, "free")
<1>2. /\ IsStream(Lib, f) /\ fd \in Mine /\ {fd} \ (0 .. 2) = {fd} /\ Even(C)
      /\ Good(C, P) /\ Same(Lib, C, P)
  <2>1. iob[f].flags \in {"std", "stream"} /\ MayUse(iob[f].file)
    BY DEF Fclose
  <2> HIDE DEF fd, C
  <2>2. fd = iob[f].file /\ C = CloseFd(Lib, fd, ok)
    BY DEF fd, C
  <2> QED BY ONLY Ready, f \in Files, ok \in BOOLEAN, <2>1, <2>2, StreamClosed
<1>3. iob[f].flags = "stream" /\ FcloseFile(Lib, f, ok) = M
  BY <1>2 DEF IsStream, FcloseFile, Lib
<1>4. Mine' = P
  <2>1. Mine' = (Mine \ {fd}) \cup ({} \ (0 .. 2))
    BY <1>1, <1>2, Learned DEF Ready
  <2> QED BY <2>1
<1> HIDE DEF C
<1>5. Becomes(M) /\ M.fp = C.fp /\ M.iob[f].flags = "free" /\ Sound(C)
  BY <1>1, <1>2, <1>3 DEF Even, SetFlags, Sound, LIB, FILE
<1>6. Owners(C, P, f) = {}
  <2> SUFFICES ASSUME NEW d \in P, C.fp[d] = f PROVE FALSE
    BY DEF Owners
  <2>1. fp[d] = f /\ fp'[d] = f /\ iob'[f].flags = "free"
    BY <1>2, <1>5 DEF Same, Becomes, Lib
  <2>2. d \in Mine /\ d \in owned'
    BY <1>4 DEF Mine
  <2> QED BY <1>3, <2>1, <2>2, NotSevered
<1>7. Good(M, P) /\ Same(C, M, P)
  BY <1>2, <1>5, <1>6, FlagsGood
<1>8. Sound(M)
  BY <1>5, FlagsSound DEF FileFlags
<1> HIDE DEF M
<1>9. Same(Lib, M, P)
  BY <1>2, <1>7, SameSteps
<1>10. \A d \in (Mine \cap P) \ P : Moved(d)
  OBVIOUS
<1> HIDE DEF P
<1> QED BY ONLY Ready, <1>4, <1>5, <1>7, <1>8, <1>9, <1>10, Settles DEF Ready

\* freopen()
LEMMA FreopenReach ==
  ASSUME Ready, ~Severs, NEW f \in Files, NEW flags \in Requests, Freopen(f, flags)
  PROVE  Good(Lib, Mine)' /\ Calm
<1> DEFINE S == Sinited(Lib)
<1>a. S.iob[f].flags \in {"std", "stream"} /\ MayUse(S.iob[f].file)
  BY DEF Freopen
<1>b. S = Lib
  <2>1. Sound(S) /\ Streams(S)
    BY Found, FoundFine DEF Ready
  <2> HIDE DEF S
  <2>2. S.iob[f].file \in owned \ (0 .. 2)
    BY <1>a, <2>1, PassedStream DEF Ready
  <2>3. Good(Lib, Mine) /\ S.iob[f].file \in Mine
    BY <2>2 DEF Mine, Ready
  <2>4. Lib.fp[S.iob[f].file] \in Files /\ S.iob[f].file \in FDs
    BY <2>3 DEF Good, Reach
  <2>5. Lib.sdidinit
    BY <2>4, ValueAssumption DEF Ready, Untouched
  <2> QED BY <2>5 DEF Sinited, S
<1> DEFINE old == iob[f].file
           P == Mine \ {old}
           Closed(ok) == IF iob[f].flags = "stream" THEN CloseFd(Lib, old, ok) ELSE Lib
<1>c. iob[f].flags \in {"std", "stream"} /\ MayUse(old)
  BY <1>a, <1>b DEF Lib
<1>1. PICK ok \in BOOLEAN, fd \in FDs, res \in OpenResults[flags], h \in FreeHandles(Lib) \cup {NoHandle} :
        /\ IsGetfd(Closed(ok), fd)
        /\ (h = NoHandle) <=> (res = "refused")
        /\ Becomes(OpenStream(Closed(ok), f, fd, res, h))
        /\ Learns(IF Opened(res) THEN {fd} ELSE {}, {old} \ (0 .. 2))
  <2> HIDE DEF S
  <2>1. \A ok \in BOOLEAN : Closed(ok) = IF S.iob[f].flags = "stream" THEN CloseFd(S, S.iob[f].file, ok) ELSE S
    BY <1>b DEF Lib
  <2>2. S.iob[f].file = old
    BY <1>b DEF Lib
  <2> HIDE DEF Closed, old
  <2> QED BY ZenonT(40), <1>b, <2>1, <2>2 DEF Freopen, S
<1>p. PICK C : C = CloseFd(Lib, iob[f].file, ok)
  OBVIOUS
<1> DEFINE M == OpenStream(C, f, fd, res, h)
           got == IF Opened(res) THEN {fd} ELSE {}
<1>2. /\ IsStream(Lib, f) /\ IsStream(C, f)
      /\ old \in Mine /\ {old} \ (0 .. 2) = {old} /\ Even(C)
      /\ Good(C, P) /\ Same(Lib, C, P)
      /\ \A k : Fresh(Lib, k) => Fresh(C, k)
  <2>1. iob[f].flags \in {"std", "stream"} /\ MayUse(iob[f].file)
    BY <1>c
  <2> QED BY ONLY Ready, f \in Files, ok \in BOOLEAN, <1>p, <2>1, StreamClosed
<1>3. iob[f].flags = "stream" /\ IsGetfd(C, fd) /\ Becomes(M) /\ Learns(got, {old})
  <2>1. iob[f].flags = "stream" /\ Closed(ok) = C
    BY <1>p, <1>2 DEF IsStream, Lib
  <2> HIDE DEF Closed, old
  <2> QED BY <1>1, <1>2, <2>1
<1>4. Given(Lib, res, h) /\ Sound(Lib)
  BY <1>1, OpenAnswers DEF Ready, Even
<1> HIDE DEF Closed
<1>5. Given(C, res, h)
  BY <1>2, <1>4 DEF Given
<1>6. /\ \A d \in FDs : M.fp[d] \in {C.fp[d], f}
      /\ Opened(res) => M.iob[f].handle = h
      /\ ~Opened(res) => M.iob[f].flags = "free"
  BY <1>2, <1>3, <1>5, OpenStreamFields
<1>7. Opened(res) => h \notin {NoHandle, iob[f].handle}
  <2>1. NoStale(Lib)
    BY <1>4 DEF Sound
  <2> QED BY <1>4, <2>1 DEF Given, Fresh, Opened, NoStale, Lib
<1> HIDE DEF M
<1>8. Mine' = P \cup (got \ (0 .. 2))
  BY <1>3, Learned DEF Ready
<1>9. Owners(C, P, f) = {}
  <2> SUFFICES ASSUME NEW d \in P, C.fp[d] = f PROVE FALSE
    BY DEF Owners
  <2>1. d \in FDs /\ fp[d] = f
    BY <1>2 DEF Same, Lib, Good
  <2>2. fp'[d] = f
    BY <1>3, <1>6, <2>1 DEF Becomes
  <2>3. iob'[f].flags = "free" \/ iob'[f].handle \notin {iob[f].handle, NoHandle}
    BY <1>3, <1>6, <1>7 DEF Becomes
  <2>4. d \in Mine /\ d \in owned'
    BY <1>8 DEF Mine
  <2> QED BY <1>3, <2>1, <2>2, <2>3, <2>4, NotSevered
<1>10. /\ Good(M, P \cup got) /\ Same(C, M, P) /\ 3 <= fd
       /\ Opened(res) => M.iob[f].file = fd
  <2>1. C.iob[f].flags # "free" /\ "SOCKET" \notin C.iob[f].fdflags
    BY <1>2 DEF IsStream
  <2> HIDE DEF P
  <2> QED BY <1>2, <1>3, <1>5, <1>9, <2>1, OpenStreamGood DEF M
<1>11. Sound(M)
  BY <1>2, <1>3, <1>5, OpenStreamSound DEF Even, M
<1>12. Same(Lib, M, P)
  BY <1>2, <1>10, SameSteps
<1>13. Mine' = P \cup got
  <2>1. fd \notin 0 .. 2
    BY <1>10
  <2> QED BY <1>8, <2>1
<1>14. ASSUME NEW d \in (Mine \cap (P \cup got)) \ P PROVE Moved(d)
  <2>1. d = fd /\ Opened(res)
    BY <1>14
  <2>2. iob'[f].file = d /\ iob'[f].handle \notin {NoHandle, iob[f].handle}
    BY <1>3, <1>6, <1>7, <1>10, <2>1 DEF Becomes
  <2> QED BY <2>2 DEF Moved
<1> HIDE DEF P, got
<1> QED BY ONLY Ready, <1>3, <1>10, <1>11, <1>12, <1>13, <1>14, Settles DEF Ready

\* A handle that the library hands out as a socket.
LEMMA FreeFresh ==
  ASSUME NEW L, NEW h \in FreeHandles(L)
  PROVE  h \in Handles /\ Fresh(L, h)
BY DEF FreeHandles, Fresh, Own

\* A descriptor that the program may pass to a call is one of those it counts on.
LEMMA Passed ==
  ASSUME Ready, NEW fd, MayUse(fd)
  PROVE  fd \in Mine /\ fd \in FDs /\ 3 <= fd /\ fp[fd] \in Files
<1>1. fd \in Mine
  BY DEF MayUse, Mine, Ready, Plain, FDs
<1>2. Reach(Lib, fd) /\ fd \in FDs
  BY <1>1 DEF Ready, Good
<1> QED BY <1>1, <1>2 DEF Reach, Lib

\* dup(), which lets count and descriptors part unless it fails.
LEMMA DupReach ==
  ASSUME Ready, ~miscounted', NEW oldd \in FDs, Dup(oldd)
  PROVE  Good(Lib, Mine)' /\ Calm
<1>1. PICK fd \in FDs :
        /\ IsGetfd(Lib, fd)
        /\ \/ /\ Duplicate(Getfd(Lib, fd), fp[oldd], DupTarget(fd))
              /\ Learns({DupTarget(fd)}, {}) /\ miscounted' = (miscounted \/ DupTarget(fd) < 3)
           \/ /\ NotDuplicated(Getfd(Lib, fd), fp[oldd])
              /\ Learns({}, {}) /\ UNCHANGED miscounted
  BY DEF Dup
<1>2. DupTarget(fd) < 3
  BY DEF DupTarget
<1>3. NotDuplicated(Getfd(Lib, fd), fp[oldd]) /\ Learns({}, {})
  BY <1>1, <1>2, Zenon
<1>4. Sound(Getfd(Lib, fd)) /\ Becomes(Getfd(Lib, fd))
  BY <1>1, <1>3, GetfdSound DEF NotDuplicated, Ready, Even
<1>5. Good(Getfd(Lib, fd), Mine) /\ Same(Lib, Getfd(Lib, fd), Mine)
  BY <1>1, GetfdGood DEF Ready
<1>6. Mine' = Mine
  <2>1. Mine' = (Mine \ {}) \cup ({} \ (0 .. 2))
    BY <1>3, Learned DEF Ready
  <2> QED BY <2>1
<1> QED BY <1>4, <1>5, <1>6, Settles DEF Ready

\* fcntl(F_DUPFD), which does not tell the program the descriptor.
LEMMA FcntlReach ==
  ASSUME Ready, NEW fd \in FDs, FcntlDup(fd)
  PROVE  Good(Lib, Mine)' /\ Calm
<1>1. PICK newfd \in FDs :
        IsGetfd(Lib, newfd) /\ Becomes(Shared(Getfd(Lib, newfd), fp[fd], newfd))
  BY DEF FcntlDup, Shared
<1>2. fp[fd] \in Files
  BY Passed DEF FcntlDup
<1> DEFINE G == Getfd(Lib, newfd)
<1>3. Sound(G) /\ 3 <= newfd /\ newfd < G.maxfd
  BY <1>1, GetfdEven DEF Ready, Even
<1>4. Good(G, Mine) /\ Same(Lib, G, Mine) /\ newfd \in FDs \ Mine
  BY <1>1, GetfdGood DEF Ready
<1> HIDE DEF G
<1>5. PICK M : M = Shared(G, fp[fd], newfd)
  OBVIOUS
<1>6. Good(M, Mine) /\ Same(G, M, Mine) /\ Sound(M)
  BY <1>2, <1>3, <1>4, <1>5, ShareGood, ShareFields
<1>7. Same(Lib, M, Mine)
  BY <1>4, <1>6, SameSteps
<1>8. Mine' = Mine
  <2>1. Mine' = (Mine \ {}) \cup ({} \ (0 .. 2))
    BY Learned DEF Ready, FcntlDup
  <2> QED BY <2>1
<1>9. Becomes(M)
  BY <1>1, <1>5 DEF G
<1> QED BY <1>6, <1>7, <1>8, <1>9, Settles DEF Ready

\* socket() and accept()
LEMMA SocketReach ==
  ASSUME Ready, NEW h \in Handles, Socket(h)
  PROVE  Good(Lib, Mine)' /\ Calm
<1> DEFINE S == Sinited(Lib)
<1>1. PICK fd \in FDs, f \in Files :
        /\ IsGetfd(Lib, fd) /\ IsSfp(S, f)
        /\ Becomes(SocketFile(Getfd(S, fd), f, fd, h)) /\ Learns({fd}, {})
  BY DEF Socket
<1>2. Even(S) /\ Sound(S) /\ S.dos = Lib.dos /\ Good(S, Mine) /\ Same(Lib, S, Mine) /\ IsGetfd(S, fd)
  BY <1>1, Found, SinitedTable
<1>3. Fresh(S, h)
  BY <1>2 DEF Socket, FreeHandles, Fresh, Own
<1> HIDE DEF S
<1> DEFINE G == Getfd(S, fd)
           M == SocketFile(G, f, fd, h)
<1>4. /\ Sound(G) /\ 3 <= fd /\ fd < G.maxfd /\ G.dos = S.dos /\ G.iob = S.iob
      /\ Good(G, Mine) /\ Same(S, G, Mine) /\ fd \in FDs \ Mine
  BY <1>2, GetfdSound, GetfdEven, GetfdGood DEF Even
<1>5. Fresh(G, h) /\ G.iob[f].flags = "free" /\ Becomes(M) /\ Learns({fd}, {})
  BY <1>1, <1>3, <1>4 DEF Fresh, IsSfp
<1> HIDE DEF G
<1>6. Good(M, Mine \cup {fd}) /\ Same(G, M, Mine) /\ Sound(M)
  BY <1>4, <1>5, FreeOwners, SocketFileGood, SocketFileSound
<1> HIDE DEF M
<1>7. Same(Lib, M, Mine)
  BY <1>2, <1>4, <1>6, SameSteps
<1>8. Mine' = Mine \cup {fd}
  <2>1. Mine' = (Mine \ {}) \cup ({fd} \ (0 .. 2))
    BY <1>5, Learned DEF Ready
  <2>2. fd \notin 0 .. 2
    BY <1>4
  <2> QED BY <2>1, <2>2
<1> QED BY <1>5, <1>6, <1>7, <1>8, Settles DEF Ready

\* socket() and accept() without a FILE for the socket
LEMMA SocketNoFileReach ==
  ASSUME Ready, NEW h \in Handles, SocketNoFile(h)
  PROVE  Good(Lib, Mine)' /\ Calm
<1> DEFINE S == Sinited(Lib)
<1>1. PICK fd \in FDs : IsGetfd(Lib, fd) /\ Becomes([Getfd(S, fd) EXCEPT !.dos[h] = "sock"])
  BY DEF SocketNoFile
<1>2. Even(S) /\ Sound(S) /\ S.dos = Lib.dos /\ Good(S, Mine) /\ Same(Lib, S, Mine) /\ IsGetfd(S, fd)
  BY <1>1, Found, SinitedTable
<1>3. Fresh(S, h)
  BY <1>2 DEF SocketNoFile, FreeHandles, Fresh, Own
<1> HIDE DEF S
<1> DEFINE G == Getfd(S, fd)
           M == [G EXCEPT !.dos[h] = "sock"]
<1>4. Sound(G) /\ G.dos = S.dos /\ Good(G, Mine) /\ Same(S, G, Mine)
  BY <1>2, GetfdSound, GetfdGood DEF Even
<1>5. Fresh(G, h) /\ Becomes(M)
  BY <1>1, <1>3, <1>4 DEF Fresh
<1> HIDE DEF G
<1>6. Good(M, Mine) /\ Same(G, M, Mine) /\ Sound(M)
  BY <1>4, <1>5, StrandGood, StrandHandle DEF DosState
<1> HIDE DEF M
<1>7. Same(Lib, M, Mine)
  BY <1>2, <1>4, <1>6, SameSteps
<1>8. Mine' = Mine
  <2>1. Mine' = (Mine \ {}) \cup ({} \ (0 .. 2))
    BY Learned DEF Ready, SocketNoFile
  <2> QED BY <2>1
<1> QED BY <1>5, <1>6, <1>7, <1>8, Settles DEF Ready

\* What close() of the new descriptor leaves to dup2().
LEMMA Replaced ==
  ASSUME Ready, NEW newd \in FDs, newd < maxfd, newd \in owned \/ fp[newd] = NULL,
         NEW ok \in BOOLEAN, NEW C, C = IF fp[newd] # NULL THEN CloseFd(Lib, newd, ok) ELSE Lib
  PROVE  /\ Even(C) /\ C.maxfd = Lib.maxfd
         /\ Good(C, Mine \ {newd}) /\ Same(Lib, C, Mine \ {newd})
         /\ \A g \in Files : IsSfp(C, g) => Lib.iob[g].flags = "free"
<1>1. Sound(Lib) /\ Even(Lib) /\ Good(Lib, Mine) /\ Lib.fp = fp /\ Lib.maxfd = maxfd
  BY DEF Ready, Even, Lib
<1>2. CASE C = Lib /\ newd \notin Mine
  <2>1. Mine \ {newd} = Mine
    BY <1>2
  <2> QED BY <1>1, <1>2, <2>1, SameSteps DEF IsSfp
<1>3. CASE C = CloseFd(Lib, newd, ok) /\ newd \in Mine
  <2>1. Even(C) /\ C.maxfd = Lib.maxfd
    BY ONLY <1>1, <1>3, ok \in BOOLEAN, CloseEven
  <2>2. Good(C, Mine \ {newd}) /\ Same(Lib, C, Mine \ {newd})
    BY ONLY <1>1, <1>3, ok \in BOOLEAN, CloseGood
  <2>3. \A g \in Files : C.iob[g].flags = Lib.iob[g].flags
    BY ONLY <1>1, <1>3, ok \in BOOLEAN, CloseFields
  <2> QED BY <2>1, <2>2, <2>3 DEF IsSfp
<1>4. CASE fp[newd] = NULL
  BY <1>1, <1>2, <1>4, NullUnowned
<1>5. CASE fp[newd] # NULL /\ newd \in 0 .. 2
  <2>1. newd \notin Mine /\ newd \notin 3 .. Lib.maxfd - 1
    BY <1>5, <1>1, SizeAssumption DEF Mine, Sound, LIB
  <2>2. C = Lib
    BY <1>5, <2>1 DEF CloseFd
  <2> QED BY <1>2, <2>1, <2>2
<1>6. CASE fp[newd] # NULL /\ newd \notin 0 .. 2
  BY <1>3, <1>6 DEF Mine
<1> QED BY <1>4, <1>5, <1>6

\* What dup2() puts at a descriptor that can be given away.
LEMMA DuplicateReach ==
  ASSUME Ready, NEW newd \in DupTargets, newd \in FDs, 3 <= newd, newd < maxfd,
         NEW f \in Files, fp[newd] # f, NEW C, Even(C), C.maxfd = Lib.maxfd,
         Good(C, Mine \ {newd}), Same(Lib, C, Mine \ {newd}), Owners(C, Mine \ {newd}, f) # {},
         \A g \in Files : IsSfp(C, g) => Lib.iob[g].flags = "free",
         Duplicate(C, f, newd), Learns({newd}, {})
  PROVE  Good(Lib, Mine)' /\ Calm
<1> DEFINE P == Mine \ {newd}
<1>1. Mine' = P \cup {newd}
  <2>1. Mine' = (Mine \ {}) \cup ({newd} \ (0 .. 2))
    BY Learned DEF Ready
  <2>2. newd \notin 0 .. 2
    OBVIOUS
  <2> QED BY <2>1, <2>2
<1>2. /\ Sound(C) /\ newd < C.maxfd /\ newd \in FDs \ P /\ 3 <= newd /\ f \in Files
      /\ Good(C, P) /\ Owners(C, P, f) # {}
  BY DEF Even, Lib
<1>3. ASSUME NEW M, Sound(M), Becomes(M), Good(M, P \cup {newd}), Same(C, M, P),
             M.maxfd = C.maxfd, NEW g \in Files, M.fp[newd] = g, newd \in Mine => fp[newd] # g
      PROVE  Good(Lib, Mine)' /\ Calm
  <2>1. Same(Lib, M, P)
    BY <1>3, SameSteps
  <2>2. ASSUME newd \in Mine PROVE Moved(newd)
    <3>1. fp'[newd] = g /\ maxfd' = maxfd
      BY <1>3 DEF Becomes, Lib
    <3> QED BY <1>3, <2>2, <3>1, ValueAssumption DEF Moved
  <2>3. \A d \in (Mine \cap (P \cup {newd})) \ P : Moved(d)
    BY <2>2
  <2> HIDE DEF P
  <2> QED BY ONLY Ready, <1>1, <1>3, <2>1, <2>3, Settles DEF Ready
<1>4. CASE Becomes(Shared(C, f, newd))
  <2>1. PICK M : M = Shared(C, f, newd)
    OBVIOUS
  <2> HIDE DEF P
  <2>2. Good(M, P \cup {newd}) /\ Same(C, M, P) /\ M.fp[newd] = f /\ M.maxfd = C.maxfd
    BY ONLY <1>2, <2>1, ShareGood
  <2>3. Sound(M)
    BY ONLY <1>2, <2>1, ShareFields
  <2> QED BY <1>3, <1>4, <2>1, <2>2, <2>3
<1>5. ASSUME NEW g \in Files, IsSfp(C, g), NEW h \in FreeHandles(C), Becomes(SocketFile(C, g, newd, h))
      PROVE  Good(Lib, Mine)' /\ Calm
  <2>1. h \in Handles /\ Fresh(C, h)
    BY FreeFresh
  <2>2. Owners(C, P, g) = {}
    BY <1>5, FreeOwners DEF IsSfp
  <2>3. newd \in Mine => fp[newd] # g
    BY <1>5 DEF Ready, Good, Reach, Lib
  <2> DEFINE M == SocketFile(C, g, newd, h)
  <2> HIDE DEF P
  <2>4. /\ Good(M, P \cup {newd}) /\ Same(C, M, P) /\ Sound(M)
        /\ M.fp[newd] = g /\ M.maxfd = C.maxfd
    BY ONLY <1>2, g \in Files, <2>1, <2>2, SocketFileGood, SocketFileSound
  <2> HIDE DEF M
  <2>5. Becomes(M)
    BY <1>5 DEF M
  <2> QED BY <1>3, <2>3, <2>4, <2>5
<1> QED BY <1>4, <1>5 DEF Duplicate, DupSockets, Shared

\* dup2()
LEMMA Dup2Reach ==
  ASSUME Ready, miscounted' = FALSE, NEW oldd \in FDs, NEW newd \in DupTargets, Dup2(oldd, newd)
  PROVE  Good(Lib, Mine)' /\ Calm
<1>1. PICK ok \in BOOLEAN :
        LET C == IF fp[newd] # NULL THEN CloseFd(Lib, newd, ok) ELSE Lib IN
        \/ /\ Duplicate(C, fp[oldd], newd)
           /\ Learns({newd}, {}) /\ miscounted' = (miscounted \/ Miscounts(oldd, newd, ok))
        \/ /\ NotDuplicated(C, fp[oldd])
           /\ Learns({}, {newd} \ (0 .. 2)) /\ UNCHANGED miscounted
  BY DEF Dup2
<1>2. oldd \in Mine /\ fp[oldd] \in Files /\ oldd # newd /\ (newd \in owned \/ fp[newd] = NULL)
  BY Passed DEF Dup2, MayReplace, Ready, Plain
<1>3. newd \in FDs /\ newd < maxfd
  BY SizeAssumption DEF FDs, Ready, Even, Sound, LIB, Lib
<1>4. PICK C : C = IF fp[newd] # NULL THEN CloseFd(Lib, newd, ok) ELSE Lib
  OBVIOUS
<1> DEFINE P == Mine \ {newd}
<1>5. /\ Even(C) /\ C.maxfd = Lib.maxfd /\ Good(C, P) /\ Same(Lib, C, P)
      /\ \A g \in Files : IsSfp(C, g) => Lib.iob[g].flags = "free"
  BY ONLY Ready, ok \in BOOLEAN, <1>2, <1>3, <1>4, Replaced
<1>6. CASE NotDuplicated(C, fp[oldd]) /\ Learns({}, {newd} \ (0 .. 2))
  <2>1. Becomes(C) /\ Sound(C)
    BY <1>5, <1>6 DEF NotDuplicated, Even
  <2>2. Mine' = P
    <3>1. Mine' = (Mine \ ({newd} \ (0 .. 2))) \cup ({} \ (0 .. 2))
      BY <1>6, Learned DEF Ready
    <3> QED BY <3>1 DEF Mine
  <2>3. \A d \in (Mine \cap P) \ P : Moved(d)
    OBVIOUS
  <2> HIDE DEF P
  <2> QED BY ONLY Ready, <1>5, <2>1, <2>2, <2>3, Settles DEF Ready
<1>7. CASE Duplicate(C, fp[oldd], newd) /\ Learns({newd}, {}) /\ ~Miscounts(oldd, newd, ok)
  <2>1. ~(newd < 3) /\ (fp[newd] # NULL => fp[newd] # fp[oldd])
    BY <1>7 DEF Miscounts
  <2>2. 3 <= newd /\ fp[newd] # fp[oldd]
    BY <1>2, <1>3, <2>1, ValueAssumption DEF FDs
  <2>3. oldd \in Owners(C, P, fp[oldd])
    BY <1>2, <1>5 DEF Owners, Same, Lib
  <2> QED BY <1>2, <1>3, <1>5, <1>7, <2>2, <2>3, DuplicateReach
<1>8. \/ NotDuplicated(C, fp[oldd]) /\ Learns({}, {newd} \ (0 .. 2))
      \/ Duplicate(C, fp[oldd], newd) /\ Learns({newd}, {}) /\ ~Miscounts(oldd, newd, ok)
  <2>1. \/ /\ Duplicate(C, fp[oldd], newd)
           /\ Learns({newd}, {}) /\ miscounted' = (miscounted \/ Miscounts(oldd, newd, ok))
        \/ /\ NotDuplicated(C, fp[oldd])
           /\ Learns({}, {newd} \ (0 .. 2)) /\ UNCHANGED miscounted
    BY <1>1, <1>4
  <2> QED BY <2>1, Zenon
<1> QED BY <1>6, <1>7, <1>8

\* Every call of such a program, unless it severs or miscounts a FILE.
LEMMA NextReach ==
  ASSUME Ready, Next, miscounted' = FALSE, ~Severs
  PROVE  Good(Lib, Mine)' /\ Calm
<1>1. \A flags \in Requests : Open(flags) \/ Fopen(flags) => Good(Lib, Mine)' /\ Calm
  BY OpenReach, FopenReach
<1>2. \A f \in Files, flags \in Requests : Freopen(f, flags) => Good(Lib, Mine)' /\ Calm
  BY FreopenReach
<1>3. \A f \in Files : Fclose(f) => Good(Lib, Mine)' /\ Calm
  BY FcloseReach
<1>4. \A fd \in FDs : ~Fdopen(fd) /\ ~FdopenUnused(fd)
  BY DEF Fdopen, FdopenUnused, Called, Ready, Plain
<1>5. \A fd \in FDs : Close(fd) => Good(Lib, Mine)' /\ Calm
  BY CloseReach
<1>6. \A fd \in FDs : Dup(fd) \/ FcntlDup(fd) => Good(Lib, Mine)' /\ Calm
  BY DupReach, FcntlReach
<1>7. \A oldd \in FDs, newd \in DupTargets : Dup2(oldd, newd) => Good(Lib, Mine)' /\ Calm
  BY Dup2Reach
<1>8. \A h \in Handles : Socket(h) \/ SocketNoFile(h) => Good(Lib, Mine)' /\ Calm
  BY SocketReach, SocketNoFileReach
<1>9. Stdio \/ LoseTable \/ Exit => Good(Lib, Mine)' /\ Calm
  BY IdleReach
<1>10. ~(Cleanup \/ CleanupEnds \/ ExitFd \/ ExitFdEnds)
  BY DEF Cleanup, CleanupEnds, ExitFd, ExitFdEnds, Ready
<1> QED BY <1>1, <1>2, <1>3, <1>4, <1>5, <1>6, <1>7, <1>8, <1>9, <1>10 DEF Next

\* The invariant behind RightObject and Undisturbed.
ReachInv ==
  /\ CountInv /\ KeepInv
  /\ Plain /\ phase = "main" => Streams(Lib)
  /\ Plain /\ phase = "main" /\ ~miscounted /\ ~severed => Good(Lib, Mine)

\* The program starts with no descriptor of its own.
LEMMA InitReach == InitIO => ReachInv
<1> SUFFICES ASSUME InitIO PROVE ReachInv
  OBVIOUS
<1>1. Init /\ CountInv /\ KeepInv
  BY InitCountInv, InitIInv DEF InitIO, KeepInv, Init, Untouched, Lib, Blank
<1>2. \A f \in Files : /\ Lib.iob[f].flags = "free" /\ Lib.iob[f].nestcnt = 0
                       /\ Lib.iob[f].handle = NoHandle
  BY <1>1 DEF Init, Lib, Blank
<1>3. Streams(Lib)
  BY <1>2 DEF Streams, Fine
<1>4. Good(Lib, Mine)
  <2>1. Mine = {}
    BY <1>1 DEF Init, Mine
  <2>2. \A f \in Files : Cardinality(Owners(Lib, Mine, f)) <= Lib.iob[f].nestcnt + 1
    <3>1. \A f \in Files : Owners(Lib, Mine, f) = {}
      BY <2>1 DEF Owners
    <3> QED BY <1>2, <3>1, FS_EmptySet
  <2>3. \A f \in Files : Kind(Lib, f)
    BY <1>2, KindOfNone, ValueAssumption DEF Own
  <2> QED BY <2>1, <2>2, <2>3 DEF Good
<1> QED BY <1>1, <1>3, <1>4 DEF ReachInv

\* Nothing returns to the program from its exit functions.
LEMMA StillMain == Next /\ phase' = "main" => phase = "main"
<1> SUFFICES ASSUME Next, phase' = "main", phase # "main" PROVE FALSE
  OBVIOUS
<1>1. \A flags \in Requests : ~Open(flags) /\ ~Fopen(flags)
  BY DEF Open, Fopen, Called
<1>2. \A f \in Files : ~Fclose(f) /\ \A flags \in Requests : ~Freopen(f, flags)
  BY DEF Freopen, Fclose, Called
<1>3. \A fd \in FDs : ~Fdopen(fd) /\ ~FdopenUnused(fd) /\ ~Close(fd) /\ ~Dup(fd) /\ ~FcntlDup(fd)
  BY DEF Fdopen, FdopenUnused, Close, Dup, FcntlDup, Called
<1>4. \A oldd \in FDs, newd \in DupTargets : ~Dup2(oldd, newd)
  BY DEF Dup2, Called
<1>5. \A h \in Handles : ~Socket(h) /\ ~SocketNoFile(h)
  BY DEF Socket, SocketNoFile, Called
<1>6. ~Stdio /\ ~LoseTable /\ ~Exit /\ ~Cleanup /\ ~CleanupEnds /\ ~ExitFd /\ ~ExitFdEnds
  BY DEF Stdio, LoseTable, Exit, Cleanup, CleanupEnds, ExitFd, ExitFdEnds
<1> QED BY <1>1, <1>2, <1>3, <1>4, <1>5, <1>6 DEF Next

\* What Undisturbed says of a step.
Undisturbs == phase = "main" /\ Disciplined /\ ~miscounted' /\ ~severed' => Calm

\* Every step of a program of this kind keeps the invariant and does what Undisturbed says.
LEMMA NextReachInv ==
  ASSUME StdUsed = {}, "fdopen" \notin Calls
  PROVE  ReachInv /\ [NextIO]_ioVars => ReachInv' /\ [Undisturbs]_ioVars
<1> SUFFICES ASSUME ReachInv, [NextIO]_ioVars PROVE ReachInv' /\ Undisturbs
  OBVIOUS
<1>1. [Next]_vars
  BY DEF NextIO, TableCall, InitBsdsocket, ExitBsdsocket, ioVars
<1>2. CountInv' /\ KeepInv'
  BY <1>1, NextCountInv, NextKeeps DEF ReachInv
<1>3. Sound(Lib) /\ RestOK /\ IInv /\ Untouched(Lib) /\ miscounted' \in BOOLEAN
  BY <1>2 DEF ReachInv, CountInv, KeepInv, IInv, RestOK
<1>4. CASE UNCHANGED vars /\ severed' = severed
  <2>1. Lib' = Lib /\ Mine' = Mine /\ Becomes(Lib) /\ phase' = phase /\ miscounted' = miscounted
    BY <1>4 DEF vars, Lib, Mine, Becomes
  <2>2. Streams(Lib) => Streams(Lib)'
    BY <2>1 DEF Streams, Fine
  <2>3. Good(Lib, Mine) => Good(Lib, Mine)' /\ Calm
    BY <1>3, <2>1, Settles, SameSteps
  <2>4. Plain' <=> Plain
    BY DEF Plain
  <2> QED BY <1>2, <1>4, <2>1, <2>2, <2>3, <2>4 DEF ReachInv, Undisturbs, Plain
<1>5. CASE TableCall
  <2>1. Next /\ (severed' = (severed \/ Severs))
    BY <1>5 DEF TableCall
  <2>2. ~severed' => ~severed /\ ~Severs
    BY <2>1, Zenon
  <2>3. ~miscounted' => ~miscounted /\ (miscounted' = FALSE)
    BY <1>3, <2>1, MiscountStays
  <2>4. Plain' <=> Plain
    BY DEF Plain
  <2>5. Plain /\ phase = "main" => Streams(Lib)'
    BY <1>3, <2>1, NextStreams DEF ReachInv
  <2>6. ASSUME Plain, phase = "main", ~miscounted', ~severed' PROVE Good(Lib, Mine)' /\ Calm
    <3>1. Even(Lib)
      BY <2>3, <2>6 DEF ReachInv, CountInv
    <3>2. Streams(Lib) /\ Good(Lib, Mine)
      BY <2>2, <2>3, <2>6 DEF ReachInv
    <3>3. Ready
      BY <1>3, <2>6, <3>1, <3>2 DEF Ready
    <3> QED BY <2>1, <2>2, <2>3, <2>6, <3>3, NextReach
  <2>7. phase' = "main" => phase = "main"
    BY <2>1, StillMain
  <2>8. ReachInv'
    BY <1>2, <2>4, <2>5, <2>6, <2>7 DEF ReachInv
  <2>9. Undisturbs
    BY <2>6 DEF Undisturbs, Plain
  <2> QED BY <2>8, <2>9
<1> QED BY <1>4, <1>5 DEF NextIO, InitBsdsocket, ExitBsdsocket, ioVars, vars

\* What the calls hand to a library is an open object of its kind, for each descriptor the
\* program counts on, when it uses no standard descriptor in a call of the table and does
\* not call fdopen() (read.c:37-50, fsync.c:34, lseek.c:34).
THEOREM ReachesRightObject ==
  ASSUME StdUsed = {}, "fdopen" \notin Calls
  PROVE  SpecIO => []RightObject
<1>1. ReachInv => RightObject
  <2> SUFFICES ASSUME Good(Lib, Mine), NEW fd \in Mine
               PROVE  /\ fp[fd] # NULL
                      /\ \A o \in Careful(fd) : Fits(o)
                      /\ ~Is(fd, "DIRLOCK") => \A o \in TakesLocks(fd) : Fits(o)
                      /\ Entry(fd).fdflags = {} => \A o \in TakesAll(fd) : Fits(o)
    BY DEF ReachInv, RightObject, Plain, Mine
  <2>1. Lib.fp = fp /\ Lib.iob = iob /\ Lib.dos = dos
    BY DEF Lib
  <2>2. Reach(Lib, fd)
    BY DEF Good
  <2>3. fp[fd] \in Files /\ Own(Entry(fd).handle)
    BY <2>1, <2>2 DEF Reach, Entry
  <2>4. Kind(Lib, fp[fd])
    BY <2>3 DEF Good
  <2>5. /\ Is(fd, "SOCKET") => dos[Entry(fd).handle] = "sock"
        /\ ~Is(fd, "SOCKET") /\ ~Is(fd, "DIRLOCK") => dos[Entry(fd).handle] = "file"
    BY <2>1, <2>3, <2>4 DEF Kind, Is, Entry
  <2>6. fp[fd] # NULL /\ Entry(fd).handle # NoHandle
    BY <2>3, ValueAssumption DEF Own
  <2>7. Fits(Nothing)
    BY DEF Fits, Nothing
  <2>8. Fits(Bsdsocket(fd))
    BY <2>5, <2>6, <2>7 DEF Fits, Bsdsocket
  <2>9. ~Is(fd, "SOCKET") /\ ~Is(fd, "DIRLOCK") => Fits(Dos(fd))
    BY <2>5, <2>6 DEF Fits, Dos
  <2>10. Fits(Read(fd)) /\ Fits(Write(fd)) /\ Fits(Ioctl(fd))
    BY <2>7, <2>8, <2>9 DEF Read, Write, Ioctl
  <2>11. \A o \in Careful(fd) : Fits(o)
    BY <2>8, <2>10 DEF Careful, Bind, Connect, Listen, Accept, Recv, Recvfrom, Recvmsg, Send,
         Sendmsg, Sendto, Setsockopt, Getsockopt, Getsockname, Getpeername, Shutdown
  <2>12. ~Is(fd, "DIRLOCK") => \A o \in TakesLocks(fd) : Fits(o)
    BY <2>7, <2>9 DEF TakesLocks, Fsync, Isatty, SetAppend
  <2>13. Entry(fd).fdflags = {} => \A o \in TakesAll(fd) : Fits(o)
    <3>1. Entry(fd).fdflags = {} => ~Is(fd, "SOCKET") /\ ~Is(fd, "DIRLOCK")
      BY DEF Is
    <3> QED BY <2>7, <2>9, <3>1 DEF TakesAll, Lseek, Ftruncate, Fstat
  <2> QED BY <2>6, <2>11, <2>12, <2>13
<1> QED BY <1>1, InitReach, NextReachInv, PTL DEF SpecIO

\* No call on one descriptor moves another: the table may grow, a FILE may be shared, reused
\* or given up (open.c:108-118, close.c:33, freopen.c:132).
THEOREM LeavesOthersAlone ==
  ASSUME StdUsed = {}, "fdopen" \notin Calls
  PROVE  SpecIO => Undisturbed
<1>1. ReachInv /\ [NextIO]_ioVars => ReachInv' /\ [Undisturbs]_ioVars
  BY NextReachInv
<1>2. SpecIO => [][Undisturbs]_ioVars
  BY <1>1, InitReach, PTL DEF SpecIO
<1>3. [Undisturbs]_ioVars =>
        [phase = "main" /\ Disciplined /\ ~miscounted' /\ ~severed' =>
           \A fd \in (owned \cap owned') \ (0 .. 2) :
             \/ fp'[fd] # NULL /\ iob'[fp'[fd]].handle = iob[fp[fd]].handle
             \/ fd \in DupTargets /\ fp'[fd] \notin {NULL, fp[fd]} /\ maxfd' = maxfd
             \/ \E f \in Files : iob'[f].file = fd /\ iob'[f].handle \notin {NoHandle, iob[f].handle}]_ioVars
  BY DEF Undisturbs, Calm, Moved
<1> QED BY <1>2, <1>3, PTL DEF Undisturbed
=============================================================================
