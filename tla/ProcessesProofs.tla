-------------------------- MODULE ProcessesProofs ---------------------------
(***************************************************************************)
(* Theorems about Processes: for any number of programs, and whatever      *)
(* fails on the way.                                                       *)
(***************************************************************************)
EXTENDS Processes, FiniteSetTheorems, SequenceTheorems, WellFoundedInduction, TLAPS

----------------------------------------------------------------------------
(* A program.                                                              *)

Steps == {"idle", "start", "prefix", "find", "resident", "device", "load", "script",
          "interpreter", "bits", "home", "tried", "found", "notfound", "memory", "run",
          "running", "out", "success", "returned", "back", "exited", "wild"}

Parts  == {"block", "resident", "builtin", "segments", "home", "name", "interpreter", "args"}
Loaded == {"resident", "builtin", "segments"}

Infos   == [{1, 2} -> SUBSET Parts]
Changes == SUBSET {"window", "task", "dir", "name", "home"}
Scratch == SUBSET {"argv", "path", "buffer", "string"}
Counts  == Int
Lines   == [script : {<<>>, Script}, options : Options, argv : Vectors]

Program ==
  [pc : Steps, search : BOOLEAN, kind : Kinds, level : {1, 2}, info : Infos, changed : Changes,
   dvp : {"none", "volume", "assign"}, dirs : Counts, error : BOOLEAN, scratch : Scratch,
   left : Counts, line : Lines]

\* Nothing of the process is other than at the call.
Same(s) == s.changed = {} /\ s.dvp = "none" /\ s.dirs = 0 /\ ~s.error /\ s.line = NoLine

Outside == {"start", "prefix", "back", "returned"}
Finding == {"device", "load", "script", "interpreter", "bits", "home", "tried"}
Running == {"memory", "run", "running", "out", "success"}

\* What is true of a program in each of its steps.
ProgramOK(s) ==
  /\ s.pc = "idle" => s = Idle
  /\ s.pc \in Outside \cup {"exited"} =>
       Same(s) /\ s.level = 1 /\ s.info = Idle.info /\ "string" \notin s.scratch
  /\ s.pc = "find" => Same(s) /\ s.info[s.level] = {}
  /\ s.pc \notin Running \cup {"exited"} => "string" \notin s.scratch
  /\ s.level = 1 => s.info[2] = {}
  /\ s.pc \in {"find", "found", "notfound", "resident"} \cup Finding /\ s.level = 2 =>
       "interpreter" \in s.info[1]
  /\ s.pc \in {"resident"} \cup Finding => "resident" \notin s.info[s.level]
  /\ s.pc = "resident" => s.info[s.level] = {"block"}
  /\ s.pc \in Running /\ s.level = 2 => s.info[1] = {}
  /\ s.pc \in {"resident", "found", "notfound"} =>
       s.changed = {"window"} /\ s.dvp = "none" /\ s.line = NoLine
  /\ s.pc \in Finding =>
       /\ "window" \in s.changed /\ s.changed \subseteq {"window", "task", "dir"}
       /\ s.line = NoLine
       /\ "dir" \in s.changed => s.dvp # "none"
  /\ s.pc = "device" => "dir" \notin s.changed
  /\ s.pc = "found" => {"name", "interpreter"} \cap s.info[s.level] # {}
  /\ s.pc \in {"memory", "run", "out", "success"} => Same(s)
  /\ s.pc = "running" => s.changed = {"name", "home"} /\ s.dvp = "none" /\ s.dirs = 0 /\ ~s.error
  /\ s.pc \in {"memory", "run", "running"} =>
       Loaded \cap s.info[s.level] # {} /\ "interpreter" \notin s.info[s.level]
  /\ \A l \in {1, 2} :
       /\ "name" \in s.info[l] => Loaded \cap s.info[l] # {}
       /\ "interpreter" \in s.info[l] => "resident" \notin s.info[l]

ProgramsOK == prog \in [Programs -> Program] /\ \A p \in Programs : ProgramOK(prog[p])

LEMMA IdleOK == Idle \in Program /\ ProgramOK(Idle)
  BY StringAssumption, VectorAssumption
  DEF Idle, NoLine, Program, ProgramOK, Steps, Kinds, Infos, Changes, Scratch, Counts, Parts,
      Lines, Outside, Finding, Running, Same

\* The same levels have the resident command.
Kept(s, t) == \A l \in {1, 2} : "resident" \in t.info[l] <=> "resident" \in s.info[l]

\* t is a state of the program after s, with the same levels.
Follows(s, t) == t \in Program /\ ProgramOK(t) /\ Kept(s, t)

\* The loop over the directories of an assign ends: a command has been found.
Ended(s) == {"name", "interpreter"} \cap s.info[s.level] # {}

\* The present level gets the resident command too.
Added(s, t) ==
  \A l \in {1, 2} : "resident" \in t.info[l] <=> l = s.level \/ "resident" \in s.info[l]

Adds(s, t) == t \in Program /\ ProgramOK(t) /\ Added(s, t)

\* No level has anything.
Frees(s, t) == t \in Program /\ ProgramOK(t) /\ t.info = Idle.info

\* The calls.
LEMMA CallFollows ==
  ASSUME NEW s \in Program, s = Idle, NEW search \in BOOLEAN, NEW kind \in Kinds
  PROVE  /\ Follows(s, [s EXCEPT !.pc = "start", !.search = search, !.kind = kind])
         /\ Follows(s, [s EXCEPT !.pc = "start", !.search = search, !.kind = kind,
                                 !.scratch = {"argv"}])
         /\ Follows(s, [s EXCEPT !.pc = "back"])
<1>1. ASSUME NEW t, t = [s EXCEPT !.pc = "start", !.search = search, !.kind = kind]
      PROVE  Follows(s, t)
  <2>1. /\ t.pc = "start" /\ t.search = search /\ t.kind = kind /\ t.level = s.level
        /\ t.info = s.info /\ t.changed = s.changed /\ t.dvp = s.dvp /\ t.dirs = s.dirs
        /\ t.error = s.error /\ t.scratch = s.scratch /\ t.left = s.left /\ t.line = s.line
    BY <1>1 DEF Program
  <2>2. {"argv"} \in Scratch /\ s = Idle
    BY DEF Program, Scratch
  <2>3. t \in Program
    BY <1>1, <2>2 DEF Program, Steps, Kinds
  <2>4. ProgramOK(t)
    BY <2>1, <2>2 DEF ProgramOK, Program, Infos, Outside, Finding, Running, Same, Idle
  <2>5. Kept(s, t)
    BY <2>1 DEF Kept, Program
  <2> QED
    BY <2>3, <2>4, <2>5 DEF Follows
<1>2. ASSUME NEW t, t = [s EXCEPT !.pc = "start", !.search = search, !.kind = kind,
                                  !.scratch = {"argv"}]
      PROVE  Follows(s, t)
  <2>1. /\ t.pc = "start" /\ t.search = search /\ t.kind = kind /\ t.level = s.level
        /\ t.info = s.info /\ t.changed = s.changed /\ t.dvp = s.dvp /\ t.dirs = s.dirs
        /\ t.error = s.error /\ t.scratch = {"argv"} /\ t.left = s.left /\ t.line = s.line
    BY <1>2 DEF Program
  <2>2. {"argv"} \in Scratch /\ s = Idle
    BY DEF Program, Scratch
  <2>3. t \in Program
    BY <1>2, <2>2 DEF Program, Steps, Kinds
  <2>4. ProgramOK(t)
    BY <2>1, <2>2 DEF ProgramOK, Program, Infos, Outside, Finding, Running, Same, Idle
  <2>5. Kept(s, t)
    BY <2>1 DEF Kept, Program
  <2> QED
    BY <2>3, <2>4, <2>5 DEF Follows
<1>3. ASSUME NEW t, t = [s EXCEPT !.pc = "back"]
      PROVE  Follows(s, t)
  <2>1. /\ t.pc = "back" /\ t.search = s.search /\ t.kind = s.kind /\ t.level = s.level
        /\ t.info = s.info /\ t.changed = s.changed /\ t.dvp = s.dvp /\ t.dirs = s.dirs
        /\ t.error = s.error /\ t.scratch = s.scratch /\ t.left = s.left /\ t.line = s.line
    BY <1>3 DEF Program
  <2>2. {"argv"} \in Scratch /\ s = Idle
    BY DEF Program, Scratch
  <2>3. t \in Program
    BY <1>3, <2>2 DEF Program, Steps
  <2>4. ProgramOK(t)
    BY <2>1, <2>2 DEF ProgramOK, Program, Infos, Outside, Finding, Running, Same, Idle
  <2>5. Kept(s, t)
    BY <2>1 DEF Kept, Program
  <2> QED
    BY <2>3, <2>4, <2>5 DEF Follows
<1> QED
  BY <1>1, <1>2, <1>3

\* The search in the path.
LEMMA StartFollows ==
  ASSUME NEW s \in Program, ProgramOK(s), s.pc = "start"
  PROVE  /\ Follows(s, [s EXCEPT !.pc = "prefix", !.left = MaxPrefixes, !.search = FALSE,
                                 !.scratch = @ \cup {"path"}])
         /\ Follows(s, [s EXCEPT !.pc = "back"])
         /\ Follows(s, [s EXCEPT !.pc = "find", !.search = FALSE])
<1>1. ASSUME NEW t, t = [s EXCEPT !.pc = "prefix", !.left = MaxPrefixes, !.search = FALSE,
                                  !.scratch = @ \cup {"path"}]
      PROVE  Follows(s, t)
  <2>1. /\ t.pc = "prefix" /\ t.search = FALSE /\ t.kind = s.kind /\ t.level = s.level
        /\ t.info = s.info /\ t.changed = s.changed /\ t.dvp = s.dvp /\ t.dirs = s.dirs
        /\ t.error = s.error /\ t.scratch = s.scratch \cup {"path"} /\ t.left = MaxPrefixes
        /\ t.line = s.line
    BY <1>1 DEF Program
  <2>2. s.scratch \cup {"path"} \in Scratch /\ MaxPrefixes \in Counts
    BY BoundAssumption DEF Program, Scratch, Counts
  <2>3. t \in Program
    BY <1>1, <2>2 DEF Program, Steps
  <2>4. ProgramOK(t)
    BY <2>1 DEF ProgramOK, Program, Infos, Outside, Finding, Running, Same
  <2>5. Kept(s, t)
    BY <2>1 DEF Kept, Program
  <2> QED
    BY <2>3, <2>4, <2>5 DEF Follows
<1>2. ASSUME NEW t, t = [s EXCEPT !.pc = "back"]
      PROVE  Follows(s, t)
  <2>1. /\ t.pc = "back" /\ t.search = s.search /\ t.kind = s.kind /\ t.level = s.level
        /\ t.info = s.info /\ t.changed = s.changed /\ t.dvp = s.dvp /\ t.dirs = s.dirs
        /\ t.error = s.error /\ t.scratch = s.scratch /\ t.left = s.left /\ t.line = s.line
    BY <1>2 DEF Program
  <2>2. t \in Program
    BY <1>2 DEF Program, Steps
  <2>3. ProgramOK(t)
    BY <2>1 DEF ProgramOK, Program, Infos, Outside, Finding, Running, Same
  <2>4. Kept(s, t)
    BY <2>1 DEF Kept, Program
  <2> QED
    BY <2>2, <2>3, <2>4 DEF Follows
<1>3. ASSUME NEW t, t = [s EXCEPT !.pc = "find", !.search = FALSE]
      PROVE  Follows(s, t)
  <2>1. /\ t.pc = "find" /\ t.search = FALSE /\ t.kind = s.kind /\ t.level = s.level
        /\ t.info = s.info /\ t.changed = s.changed /\ t.dvp = s.dvp /\ t.dirs = s.dirs
        /\ t.error = s.error /\ t.scratch = s.scratch /\ t.left = s.left /\ t.line = s.line
    BY <1>3 DEF Program
  <2>2. t \in Program
    BY <1>3 DEF Program, Steps
  <2>3. ProgramOK(t)
    BY <2>1 DEF ProgramOK, Program, Infos, Outside, Finding, Running, Same, Idle
  <2>4. Kept(s, t)
    BY <2>1 DEF Kept, Program
  <2> QED
    BY <2>2, <2>3, <2>4 DEF Follows
<1> QED
  BY <1>1, <1>2, <1>3

\* The next directory of the path, and after a call that found nothing.
LEMMA PrefixFollows ==
  ASSUME NEW s \in Program, ProgramOK(s), s.pc = "prefix", NEW kind \in {"path", "volume"}
  PROVE  /\ Follows(s, [s EXCEPT !.pc = "find", !.kind = kind, !.left = @ - 1,
                                 !.scratch = @ \cup {"buffer"}])
         /\ Follows(s, [s EXCEPT !.pc = "back"])
<1>1. ASSUME NEW t, t = [s EXCEPT !.pc = "find", !.kind = kind, !.left = @ - 1,
                                  !.scratch = @ \cup {"buffer"}]
      PROVE  Follows(s, t)
  <2>1. /\ t.pc = "find" /\ t.search = s.search /\ t.kind = kind /\ t.level = s.level
        /\ t.info = s.info /\ t.changed = s.changed /\ t.dvp = s.dvp /\ t.dirs = s.dirs
        /\ t.error = s.error /\ t.scratch = s.scratch \cup {"buffer"} /\ t.left = s.left - 1
        /\ t.line = s.line
    BY <1>1 DEF Program
  <2>2. s.scratch \cup {"buffer"} \in Scratch /\ s.left - 1 \in Counts
    BY DEF Program, Scratch, Counts
  <2>3. t \in Program
    BY <1>1, <2>2 DEF Program, Steps, Kinds
  <2>4. ProgramOK(t)
    BY <2>1 DEF ProgramOK, Program, Infos, Outside, Finding, Running, Same, Idle
  <2>5. Kept(s, t)
    BY <2>1 DEF Kept, Program
  <2> QED
    BY <2>3, <2>4, <2>5 DEF Follows
<1>2. ASSUME NEW t, t = [s EXCEPT !.pc = "back"]
      PROVE  Follows(s, t)
  <2>1. /\ t.pc = "back" /\ t.search = s.search /\ t.kind = s.kind /\ t.level = s.level
        /\ t.info = s.info /\ t.changed = s.changed /\ t.dvp = s.dvp /\ t.dirs = s.dirs
        /\ t.error = s.error /\ t.scratch = s.scratch /\ t.left = s.left /\ t.line = s.line
    BY <1>2 DEF Program
  <2>2. t \in Program
    BY <1>2 DEF Program, Steps
  <2>3. ProgramOK(t)
    BY <2>1 DEF ProgramOK, Program, Infos, Outside, Finding, Running, Same
  <2>4. Kept(s, t)
    BY <2>1 DEF Kept, Program
  <2> QED
    BY <2>2, <2>3, <2>4 DEF Follows
<1> QED
  BY <1>1, <1>2

LEMMA RetryFollows ==
  ASSUME NEW s \in Program, ProgramOK(s), s.pc = "returned", NEW pc \in {"prefix", "back"}
  PROVE  Follows(s, [s EXCEPT !.pc = pc])
<1>1. ASSUME NEW t, t = [s EXCEPT !.pc = pc]
      PROVE  Follows(s, t)
  <2>1. /\ t.pc = pc /\ t.search = s.search /\ t.kind = s.kind /\ t.level = s.level
        /\ t.info = s.info /\ t.changed = s.changed /\ t.dvp = s.dvp /\ t.dirs = s.dirs
        /\ t.error = s.error /\ t.scratch = s.scratch /\ t.left = s.left /\ t.line = s.line
    BY <1>1 DEF Program
  <2>2. t \in Program
    BY <1>1 DEF Program, Steps
  <2>3. ProgramOK(t)
    BY <2>1 DEF ProgramOK, Program, Infos, Outside, Finding, Running, Same
  <2>4. Kept(s, t)
    BY <2>1 DEF Kept, Program
  <2> QED
    BY <2>2, <2>3, <2>4 DEF Follows
<1> QED
  BY <1>1

\* find_command() begins.
LEMMA FindFollows ==
  ASSUME NEW s \in Program, ProgramOK(s), s.pc = "find", NEW garbage \in BOOLEAN,
         NEW pc \in {"resident", "device"}
  PROVE  /\ Follows(s, [s EXCEPT !.changed = @ \cup {"window"}, !.error = garbage, !.dirs = 0,
                                 !.info[s.level] = {"block"}, !.pc = pc])
         /\ Follows(s, [s EXCEPT !.changed = @ \cup {"window"}, !.error = garbage, !.dirs = 0,
                                 !.pc = "notfound"])
<1>1. ASSUME NEW t, t = [s EXCEPT !.changed = @ \cup {"window"}, !.error = garbage, !.dirs = 0,
                                  !.info[s.level] = {"block"}, !.pc = pc]
      PROVE  Follows(s, t)
  <2>1. /\ t.pc = pc /\ t.search = s.search /\ t.kind = s.kind /\ t.level = s.level
        /\ t.info[s.level] = {"block"} /\ t.info \in Infos
        /\ \A l \in {1, 2} : l # s.level => t.info[l] = s.info[l]
        /\ t.changed = s.changed \cup {"window"} /\ t.dvp = s.dvp /\ t.dirs = 0
        /\ t.error = garbage /\ t.scratch = s.scratch /\ t.left = s.left /\ t.line = s.line
    BY <1>1 DEF Program, Infos, Parts
  <2>2. s.changed \cup {"window"} \in Changes /\ 0 \in Counts
        /\ [s.info EXCEPT ![s.level] = {"block"}] \in Infos
    BY DEF Program, Counts, Changes, Infos, Parts
  <2>3. t \in Program
    BY <1>1, <2>2 DEF Program, Steps
  <2>4. ProgramOK(t)
    BY <2>1 DEF ProgramOK, Program, Infos, Outside, Finding, Running, Same
  <2>5. Kept(s, t)
    BY <2>1 DEF Kept, Program, ProgramOK
  <2> QED
    BY <2>3, <2>4, <2>5 DEF Follows
<1>2. ASSUME NEW t, t = [s EXCEPT !.changed = @ \cup {"window"}, !.error = garbage, !.dirs = 0,
                                  !.pc = "notfound"]
      PROVE  Follows(s, t)
  <2>1. /\ t.pc = "notfound" /\ t.search = s.search /\ t.kind = s.kind /\ t.level = s.level
        /\ t.info = s.info /\ t.changed = s.changed \cup {"window"} /\ t.dvp = s.dvp
        /\ t.dirs = 0 /\ t.error = garbage /\ t.scratch = s.scratch /\ t.left = s.left
        /\ t.line = s.line
    BY <1>2 DEF Program
  <2>2. s.changed \cup {"window"} \in Changes /\ 0 \in Counts
    BY DEF Program, Changes, Counts
  <2>3. t \in Program
    BY <1>2, <2>2 DEF Program, Steps
  <2>4. ProgramOK(t)
    BY <2>1 DEF ProgramOK, Program, Infos, Outside, Finding, Running, Same
  <2>5. Kept(s, t)
    BY <2>1 DEF Kept, Program
  <2> QED
    BY <2>3, <2>4, <2>5 DEF Follows
<1> QED
  BY <1>1, <1>2

\* find_resident_command() has no user to count.
LEMMA ResidentFollows ==
  ASSUME NEW s \in Program, ProgramOK(s), s.pc = "resident"
  PROVE  /\ Follows(s, [s EXCEPT !.info[s.level] = @ \cup {"builtin", "name"}, !.pc = "found"])
         /\ Follows(s, [s EXCEPT !.info[s.level] = @ \cup {"builtin"}, !.pc = "notfound"])
         /\ Follows(s, [s EXCEPT !.pc = "device"])
<1>1. ASSUME NEW t, t = [s EXCEPT !.info[s.level] = @ \cup {"builtin", "name"}, !.pc = "found"]
      PROVE  Follows(s, t)
  <2>1. /\ t.pc = "found" /\ t.search = s.search /\ t.kind = s.kind /\ t.level = s.level
        /\ t.info[s.level] = s.info[s.level] \cup {"builtin", "name"} /\ t.info \in Infos
        /\ \A l \in {1, 2} : l # s.level => t.info[l] = s.info[l]
        /\ t.changed = s.changed /\ t.dvp = s.dvp /\ t.dirs = s.dirs /\ t.error = s.error
        /\ t.scratch = s.scratch /\ t.left = s.left /\ t.line = s.line
    BY <1>1 DEF Program, Infos, Parts
  <2>2. [s.info EXCEPT ![s.level] = @ \cup {"builtin", "name"}] \in Infos
    BY DEF Program, Infos, Parts
  <2>3. t \in Program
    BY <1>1, <2>2 DEF Program, Steps
  <2>4. ProgramOK(t)
    BY <2>1 DEF ProgramOK, Program, Infos, Outside, Finding, Running, Same, Loaded
  <2>5. Kept(s, t)
    BY <2>1 DEF Kept, Program
  <2> QED
    BY <2>3, <2>4, <2>5 DEF Follows
<1>2. ASSUME NEW t, t = [s EXCEPT !.info[s.level] = @ \cup {"builtin"}, !.pc = "notfound"]
      PROVE  Follows(s, t)
  <2>1. /\ t.pc = "notfound" /\ t.search = s.search /\ t.kind = s.kind /\ t.level = s.level
        /\ t.info[s.level] = s.info[s.level] \cup {"builtin"} /\ t.info \in Infos
        /\ \A l \in {1, 2} : l # s.level => t.info[l] = s.info[l]
        /\ t.changed = s.changed /\ t.dvp = s.dvp /\ t.dirs = s.dirs /\ t.error = s.error
        /\ t.scratch = s.scratch /\ t.left = s.left /\ t.line = s.line
    BY <1>2 DEF Program, Infos, Parts
  <2>2. [s.info EXCEPT ![s.level] = @ \cup {"builtin"}] \in Infos
    BY DEF Program, Infos, Parts
  <2>3. t \in Program
    BY <1>2, <2>2 DEF Program, Steps
  <2>4. ProgramOK(t)
    BY <2>1 DEF ProgramOK, Program, Infos, Outside, Finding, Running, Same, Loaded
  <2>5. Kept(s, t)
    BY <2>1 DEF Kept, Program
  <2> QED
    BY <2>3, <2>4, <2>5 DEF Follows
<1>3. ASSUME NEW t, t = [s EXCEPT !.pc = "device"]
      PROVE  Follows(s, t)
  <2>1. /\ t.pc = "device" /\ t.search = s.search /\ t.kind = s.kind /\ t.level = s.level
        /\ t.info = s.info /\ t.changed = s.changed /\ t.dvp = s.dvp /\ t.dirs = s.dirs
        /\ t.error = s.error /\ t.scratch = s.scratch /\ t.left = s.left /\ t.line = s.line
    BY <1>3 DEF Program
  <2>2. t \in Program
    BY <1>3 DEF Program, Steps
  <2>3. ProgramOK(t)
    BY <2>1 DEF ProgramOK, Program, Infos, Outside, Finding, Running, Same
  <2>4. Kept(s, t)
    BY <2>1 DEF Kept, Program
  <2> QED
    BY <2>2, <2>3, <2>4 DEF Follows
<1> QED
  BY <1>1, <1>2, <1>3

\* find_resident_command() has found the resident command.
LEMMA UserFollows ==
  ASSUME NEW s \in Program, ProgramOK(s), s.pc = "resident"
  PROVE  /\ Adds(s, [s EXCEPT !.info[s.level] = @ \cup {"resident", "name"}, !.pc = "found"])
         /\ Adds(s, [s EXCEPT !.info[s.level] = @ \cup {"resident"}, !.pc = "notfound"])
<1>1. ASSUME NEW t, t = [s EXCEPT !.info[s.level] = @ \cup {"resident", "name"}, !.pc = "found"]
      PROVE  Adds(s, t)
  <2>1. /\ t.pc = "found" /\ t.search = s.search /\ t.kind = s.kind /\ t.level = s.level
        /\ t.info[s.level] = s.info[s.level] \cup {"resident", "name"} /\ t.info \in Infos
        /\ \A l \in {1, 2} : l # s.level => t.info[l] = s.info[l]
        /\ t.changed = s.changed /\ t.dvp = s.dvp /\ t.dirs = s.dirs /\ t.error = s.error
        /\ t.scratch = s.scratch /\ t.left = s.left /\ t.line = s.line
    BY <1>1 DEF Program, Infos, Parts
  <2>2. [s.info EXCEPT ![s.level] = @ \cup {"resident", "name"}] \in Infos
    BY DEF Program, Infos, Parts
  <2>3. t \in Program
    BY <1>1, <2>2 DEF Program, Steps
  <2>4. ProgramOK(t)
    BY <2>1 DEF ProgramOK, Program, Infos, Outside, Finding, Running, Same, Loaded
  <2>5. Added(s, t)
    BY <2>1 DEF Added, Program
  <2> QED
    BY <2>3, <2>4, <2>5 DEF Adds
<1>2. ASSUME NEW t, t = [s EXCEPT !.info[s.level] = @ \cup {"resident"}, !.pc = "notfound"]
      PROVE  Adds(s, t)
  <2>1. /\ t.pc = "notfound" /\ t.search = s.search /\ t.kind = s.kind /\ t.level = s.level
        /\ t.info[s.level] = s.info[s.level] \cup {"resident"} /\ t.info \in Infos
        /\ \A l \in {1, 2} : l # s.level => t.info[l] = s.info[l]
        /\ t.changed = s.changed /\ t.dvp = s.dvp /\ t.dirs = s.dirs /\ t.error = s.error
        /\ t.scratch = s.scratch /\ t.left = s.left /\ t.line = s.line
    BY <1>2 DEF Program, Infos, Parts
  <2>2. [s.info EXCEPT ![s.level] = @ \cup {"resident"}] \in Infos
    BY DEF Program, Infos, Parts
  <2>3. t \in Program
    BY <1>2, <2>2 DEF Program, Steps
  <2>4. ProgramOK(t)
    BY <2>1 DEF ProgramOK, Program, Infos, Outside, Finding, Running, Same, Loaded
  <2>5. Added(s, t)
    BY <2>1 DEF Added, Program
  <2> QED
    BY <2>3, <2>4, <2>5 DEF Adds
<1> QED
  BY <1>1, <1>2

\* GetDeviceProc().
LEMMA DeviceFollows ==
  ASSUME NEW s \in Program, ProgramOK(s), s.pc = "device", NEW dvp \in {"volume", "assign"}
  PROVE  /\ Follows(s, [s EXCEPT !.pc = "load"])
         /\ Follows(s, [s EXCEPT !.pc = "load", !.dvp = "none"])
         /\ Follows(s, [s EXCEPT !.pc = "load", !.dvp = dvp, !.dirs = @ + 1,
                                 !.changed = @ \cup {"task", "dir"}])
<1>1. ASSUME NEW t, t = [s EXCEPT !.pc = "load"]
      PROVE  Follows(s, t)
  <2>1. /\ t.pc = "load" /\ t.search = s.search /\ t.kind = s.kind /\ t.level = s.level
        /\ t.info = s.info /\ t.changed = s.changed /\ t.dvp = s.dvp /\ t.dirs = s.dirs
        /\ t.error = s.error /\ t.scratch = s.scratch /\ t.left = s.left /\ t.line = s.line
    BY <1>1 DEF Program
  <2>2. t \in Program
    BY <1>1 DEF Program, Steps
  <2>3. ProgramOK(t)
    BY <2>1 DEF ProgramOK, Program, Infos, Outside, Finding, Running, Same
  <2>4. Kept(s, t)
    BY <2>1 DEF Kept, Program
  <2> QED
    BY <2>2, <2>3, <2>4 DEF Follows
<1>2. ASSUME NEW t, t = [s EXCEPT !.pc = "load", !.dvp = "none"]
      PROVE  Follows(s, t)
  <2>1. /\ t.pc = "load" /\ t.search = s.search /\ t.kind = s.kind /\ t.level = s.level
        /\ t.info = s.info /\ t.changed = s.changed /\ t.dvp = "none" /\ t.dirs = s.dirs
        /\ t.error = s.error /\ t.scratch = s.scratch /\ t.left = s.left /\ t.line = s.line
    BY <1>2 DEF Program
  <2>2. t \in Program
    BY <1>2 DEF Program, Steps
  <2>3. ProgramOK(t)
    BY <2>1 DEF ProgramOK, Program, Infos, Outside, Finding, Running, Same
  <2>4. Kept(s, t)
    BY <2>1 DEF Kept, Program
  <2> QED
    BY <2>2, <2>3, <2>4 DEF Follows
<1>3. ASSUME NEW t, t = [s EXCEPT !.pc = "load", !.dvp = dvp, !.dirs = @ + 1,
                                  !.changed = @ \cup {"task", "dir"}]
      PROVE  Follows(s, t)
  <2>1. /\ t.pc = "load" /\ t.search = s.search /\ t.kind = s.kind /\ t.level = s.level
        /\ t.info = s.info /\ t.changed = s.changed \cup {"task", "dir"} /\ t.dvp = dvp
        /\ t.dirs = s.dirs + 1 /\ t.error = s.error /\ t.scratch = s.scratch
        /\ t.left = s.left /\ t.line = s.line
    BY <1>3 DEF Program
  <2>2. s.changed \cup {"task", "dir"} \in Changes /\ s.dirs + 1 \in Counts
    BY DEF Program, Changes, Counts
  <2>3. t \in Program
    BY <1>3, <2>2 DEF Program, Steps
  <2>4. ProgramOK(t)
    BY <2>1 DEF ProgramOK, Program, Infos, Outside, Finding, Running, Same
  <2>5. Kept(s, t)
    BY <2>1 DEF Kept, Program
  <2> QED
    BY <2>3, <2>4, <2>5 DEF Follows
<1> QED
  BY <1>1, <1>2, <1>3

\* A part is added.
LEMMA PartsFollow ==
  ASSUME NEW s \in Program, ProgramOK(s), s.pc \in Finding \ {"device", "tried"},
         NEW pc \in {"home", "interpreter", "tried"},
         NEW parts \in {{"segments", "name"}, {"interpreter"}, {"args"}, {"home"}}
  PROVE  Follows(s, [s EXCEPT !.info[s.level] = @ \cup parts, !.pc = pc])
<1>1. ASSUME NEW t, t = [s EXCEPT !.info[s.level] = @ \cup parts, !.pc = pc]
      PROVE  Follows(s, t)
  <2>1. /\ t.pc = pc /\ t.search = s.search /\ t.kind = s.kind /\ t.level = s.level
        /\ t.info[s.level] = s.info[s.level] \cup parts /\ t.info \in Infos
        /\ \A l \in {1, 2} : l # s.level => t.info[l] = s.info[l]
        /\ t.changed = s.changed /\ t.dvp = s.dvp /\ t.dirs = s.dirs /\ t.error = s.error
        /\ t.scratch = s.scratch /\ t.left = s.left /\ t.line = s.line
    BY <1>1 DEF Program, Infos, Parts
  <2>2. [s.info EXCEPT ![s.level] = @ \cup parts] \in Infos
    BY DEF Program, Infos, Parts
  <2>3. t \in Program
    BY <1>1, <2>2 DEF Program, Steps
  <2>4. ProgramOK(t)
    BY <2>1 DEF ProgramOK, Program, Infos, Outside, Finding, Running, Same, Loaded
  <2>5. Kept(s, t)
    BY <2>1 DEF Kept, Program
  <2> QED
    BY <2>3, <2>4, <2>5 DEF Follows
<1> QED
  BY <1>1

\* A part is not added, and the search goes on or ends.
LEMMA MoveFollows ==
  ASSUME NEW s \in Program, ProgramOK(s), s.pc \in Finding \ {"device", "tried"}
  PROVE  /\ Follows(s, [s EXCEPT !.error = TRUE, !.pc = "tried"])
         /\ Follows(s, [s EXCEPT !.info[s.level] = @ \cup {"segments"}, !.pc = "tried",
                                 !.error = TRUE])
<1>1. ASSUME NEW t, t = [s EXCEPT !.error = TRUE, !.pc = "tried"]
      PROVE  Follows(s, t)
  <2>1. /\ t.pc = "tried" /\ t.search = s.search /\ t.kind = s.kind /\ t.level = s.level
        /\ t.info = s.info /\ t.changed = s.changed /\ t.dvp = s.dvp /\ t.dirs = s.dirs
        /\ t.error = TRUE /\ t.scratch = s.scratch /\ t.left = s.left /\ t.line = s.line
    BY <1>1 DEF Program
  <2>2. t \in Program
    BY <1>1 DEF Program, Steps
  <2>3. ProgramOK(t)
    BY <2>1 DEF ProgramOK, Program, Infos, Outside, Finding, Running, Same
  <2>4. Kept(s, t)
    BY <2>1 DEF Kept, Program
  <2> QED
    BY <2>2, <2>3, <2>4 DEF Follows
<1>2. ASSUME NEW t, t = [s EXCEPT !.info[s.level] = @ \cup {"segments"}, !.pc = "tried",
                                  !.error = TRUE]
      PROVE  Follows(s, t)
  <2>1. /\ t.pc = "tried" /\ t.search = s.search /\ t.kind = s.kind /\ t.level = s.level
        /\ t.info[s.level] = s.info[s.level] \cup {"segments"} /\ t.info \in Infos
        /\ \A l \in {1, 2} : l # s.level => t.info[l] = s.info[l]
        /\ t.changed = s.changed /\ t.dvp = s.dvp /\ t.dirs = s.dirs /\ t.error = TRUE
        /\ t.scratch = s.scratch /\ t.left = s.left /\ t.line = s.line
    BY <1>2 DEF Program, Infos, Parts
  <2>2. [s.info EXCEPT ![s.level] = @ \cup {"segments"}] \in Infos
    BY DEF Program, Infos, Parts
  <2>3. t \in Program
    BY <1>2, <2>2 DEF Program, Steps
  <2>4. ProgramOK(t)
    BY <2>1 DEF ProgramOK, Program, Infos, Outside, Finding, Running, Same, Loaded
  <2>5. Kept(s, t)
    BY <2>1 DEF Kept, Program
  <2> QED
    BY <2>3, <2>4, <2>5 DEF Follows
<1> QED
  BY <1>1, <1>2

LEMMA GoesFollows ==
  ASSUME NEW s \in Program, ProgramOK(s), s.pc \in Finding \ {"device", "tried"},
         NEW pc \in {"tried", "script", "bits", "wild"}
  PROVE  Follows(s, [s EXCEPT !.pc = pc])
<1>1. ASSUME NEW t, t = [s EXCEPT !.pc = pc]
      PROVE  Follows(s, t)
  <2>1. /\ t.pc = pc /\ t.search = s.search /\ t.kind = s.kind /\ t.level = s.level
        /\ t.info = s.info /\ t.changed = s.changed /\ t.dvp = s.dvp /\ t.dirs = s.dirs
        /\ t.error = s.error /\ t.scratch = s.scratch /\ t.left = s.left /\ t.line = s.line
    BY <1>1 DEF Program
  <2>2. t \in Program
    BY <1>1 DEF Program, Steps
  <2>3. ProgramOK(t)
    BY <2>1 DEF ProgramOK, Program, Infos, Outside, Finding, Running, Same
  <2>4. Kept(s, t)
    BY <2>1 DEF Kept, Program
  <2> QED
    BY <2>2, <2>3, <2>4 DEF Follows
<1> QED
  BY <1>1

\* The next directory of the assign, or the end of the search.
LEMMA TriedFollows ==
  ASSUME NEW s \in Program, ProgramOK(s), s.pc = "tried",
         NEW changed, changed = (IF s.dvp = "none" THEN s.changed ELSE s.changed \ {"dir"})
  PROVE  /\ (s.dvp = "assign" => Follows(s, [s EXCEPT !.changed = changed, !.pc = "device"]))
         /\ (Ended(s)
               => Follows(s, [[s EXCEPT !.changed = changed] EXCEPT !.dvp = "none",
               !.changed = @ \ {"task"}, !.pc = "found"]))
         /\ Follows(s, [[s EXCEPT !.changed = changed] EXCEPT !.dvp = "none",
               !.changed = @ \ {"task"}, !.pc = "notfound"])
<1>1. ASSUME NEW t, t = [s EXCEPT !.changed = changed, !.pc = "device"], s.dvp = "assign"
      PROVE  Follows(s, t)
  <2>1. /\ t.pc = "device" /\ t.search = s.search /\ t.kind = s.kind /\ t.level = s.level
        /\ t.info = s.info /\ t.changed = changed /\ t.dvp = s.dvp /\ t.dirs = s.dirs
        /\ t.error = s.error /\ t.scratch = s.scratch /\ t.left = s.left /\ t.line = s.line
    BY <1>1 DEF Program
  <2>2. changed \in Changes
    BY DEF Program, Changes
  <2>3. t \in Program
    BY <1>1, <2>2 DEF Program, Steps
  <2>4. ProgramOK(t)
    BY <2>1, <1>1 DEF ProgramOK, Program, Infos, Outside, Finding, Running, Same
  <2>5. Kept(s, t)
    BY <2>1 DEF Kept, Program
  <2> QED
    BY <2>3, <2>4, <2>5 DEF Follows
<1>2. ASSUME NEW t, t = [[s EXCEPT !.changed = changed] EXCEPT !.dvp = "none",
         !.changed = @ \ {"task"}, !.pc = "found"], Ended(s)
      PROVE  Follows(s, t)
  <2>1. /\ t.pc = "found" /\ t.search = s.search /\ t.kind = s.kind /\ t.level = s.level
        /\ t.info = s.info /\ t.changed = changed \ {"task"} /\ t.dvp = "none"
        /\ t.dirs = s.dirs /\ t.error = s.error /\ t.scratch = s.scratch /\ t.left = s.left
        /\ t.line = s.line
    <3>1. /\ t.pc = "found" /\ t.search = s.search /\ t.kind = s.kind /\ t.level = s.level
      BY <1>2 DEF Program
    <3>2. /\ t.info = s.info /\ t.changed = changed \ {"task"} /\ t.dvp = "none"
      BY <1>2 DEF Program
    <3>3. /\ t.dirs = s.dirs /\ t.error = s.error /\ t.scratch = s.scratch /\ t.left = s.left
      BY <1>2 DEF Program
    <3>4. /\ t.line = s.line
      BY <1>2 DEF Program
    <3> QED
      BY <3>1, <3>2, <3>3, <3>4
  <2>2. changed \ {"task"} = {"window"}
    BY <1>2 DEF Program, ProgramOK, Finding
  <2>3. changed \ {"task"} \in Changes
    BY <2>2 DEF Program, Changes
  <2>4. t \in Program
    BY <1>2, <2>3 DEF Program, Steps
  <2>5. ProgramOK(t)
    BY <2>1, <2>2, <1>2 DEF ProgramOK, Program, Infos, Outside, Finding, Running, Same, Ended
  <2>6. Kept(s, t)
    BY <2>1 DEF Kept, Program
  <2> QED
    BY <2>4, <2>5, <2>6 DEF Follows
<1>3. ASSUME NEW t, t = [[s EXCEPT !.changed = changed] EXCEPT !.dvp = "none",
         !.changed = @ \ {"task"}, !.pc = "notfound"]
      PROVE  Follows(s, t)
  <2>1. /\ t.pc = "notfound" /\ t.search = s.search /\ t.kind = s.kind /\ t.level = s.level
        /\ t.info = s.info /\ t.changed = changed \ {"task"} /\ t.dvp = "none"
        /\ t.dirs = s.dirs /\ t.error = s.error /\ t.scratch = s.scratch /\ t.left = s.left
        /\ t.line = s.line
    <3>1. /\ t.pc = "notfound" /\ t.search = s.search /\ t.kind = s.kind /\ t.level = s.level
      BY <1>3 DEF Program
    <3>2. /\ t.info = s.info /\ t.changed = changed \ {"task"} /\ t.dvp = "none"
      BY <1>3 DEF Program
    <3>3. /\ t.dirs = s.dirs /\ t.error = s.error /\ t.scratch = s.scratch /\ t.left = s.left
      BY <1>3 DEF Program
    <3>4. /\ t.line = s.line
      BY <1>3 DEF Program
    <3> QED
      BY <3>1, <3>2, <3>3, <3>4
  <2>2. changed \ {"task"} = {"window"}
    BY DEF Program, ProgramOK, Finding
  <2>3. changed \ {"task"} \in Changes
    BY <2>2 DEF Program, Changes
  <2>4. t \in Program
    BY <1>3, <2>3 DEF Program, Steps
  <2>5. ProgramOK(t)
    BY <2>1, <2>2 DEF ProgramOK, Program, Infos, Outside, Finding, Running, Same, Ended
  <2>6. Kept(s, t)
    BY <2>1 DEF Kept, Program
  <2> QED
    BY <2>4, <2>5, <2>6 DEF Follows
<1> QED
  BY <1>1, <1>2, <1>3

\* find_command() has found a command, or a script.
LEMMA LeavesFollow ==
  ASSUME NEW s \in Program, ProgramOK(s), s.pc = "found", NEW kind \in Kinds
  PROVE  /\ (s.level = 1 /\ "interpreter" \notin s.info[s.level]
               => Follows(s, Leaves(s, "memory")))
         /\ (s.level = 1 /\ "interpreter" \in s.info[s.level]
               => Follows(s, [Leaves(s, "find") EXCEPT !.level = 2, !.kind = kind]))
<1>1. ASSUME NEW t, t = Leaves(s, "memory"), s.level = 1, "interpreter" \notin s.info[s.level]
      PROVE  Follows(s, t)
  <2>1. /\ t.pc = "memory" /\ t.search = s.search /\ t.kind = "name" /\ t.level = s.level
        /\ t.info = s.info /\ t.changed = s.changed \ {"window"} /\ t.dvp = s.dvp
        /\ t.dirs = 0 /\ t.error = FALSE /\ t.scratch = s.scratch /\ t.left = s.left
        /\ t.line = s.line
    <3>1. /\ t.pc = "memory" /\ t.search = s.search /\ t.kind = "name" /\ t.level = s.level
      BY <1>1 DEF Program, Leaves
    <3>2. /\ t.info = s.info /\ t.changed = s.changed \ {"window"} /\ t.dvp = s.dvp
      BY <1>1 DEF Program, Leaves
    <3>3. /\ t.dirs = 0 /\ t.error = FALSE /\ t.scratch = s.scratch /\ t.left = s.left
      BY <1>1 DEF Program, Leaves
    <3>4. /\ t.line = s.line
      BY <1>1 DEF Program, Leaves
    <3> QED
      BY <3>1, <3>2, <3>3, <3>4
  <2>2. s.changed \ {"window"} = {}
    BY <1>1 DEF Program, ProgramOK
  <2>3. s.changed \ {"window"} \in Changes /\ 0 \in Counts
    BY <2>2 DEF Program, Changes, Counts
  <2>4. t \in Program
    BY <1>1, <2>3 DEF Program, Steps, Kinds, Leaves
  <2>5. ProgramOK(t)
    BY <2>1, <2>2, <1>1 DEF ProgramOK, Program, Infos, Outside, Finding, Running, Same, Loaded,
          Kinds
  <2>6. Kept(s, t)
    BY <2>1 DEF Kept, Program
  <2> QED
    BY <2>4, <2>5, <2>6 DEF Follows
<1>2. ASSUME NEW t, t = [Leaves(s, "find") EXCEPT !.level = 2, !.kind = kind],
         s.level = 1, "interpreter" \in s.info[s.level]
      PROVE  Follows(s, t)
  <2>1. /\ t.pc = "find" /\ t.search = s.search /\ t.kind = kind /\ t.level = 2
        /\ t.info = s.info /\ t.changed = s.changed \ {"window"} /\ t.dvp = s.dvp
        /\ t.dirs = 0 /\ t.error = FALSE /\ t.scratch = s.scratch /\ t.left = s.left
        /\ t.line = s.line
    <3>1. /\ t.pc = "find" /\ t.search = s.search /\ t.kind = kind /\ t.level = 2
      BY <1>2 DEF Program, Leaves
    <3>2. /\ t.info = s.info /\ t.changed = s.changed \ {"window"} /\ t.dvp = s.dvp
      BY <1>2 DEF Program, Leaves
    <3>3. /\ t.dirs = 0 /\ t.error = FALSE /\ t.scratch = s.scratch /\ t.left = s.left
      BY <1>2 DEF Program, Leaves
    <3>4. /\ t.line = s.line
      BY <1>2 DEF Program, Leaves
    <3> QED
      BY <3>1, <3>2, <3>3, <3>4
  <2>2. s.changed \ {"window"} = {}
    BY <1>2 DEF Program, ProgramOK
  <2>3. s.changed \ {"window"} \in Changes /\ 0 \in Counts
    BY <2>2 DEF Program, Changes, Counts
  <2>4. t \in Program
    BY <1>2, <2>3 DEF Program, Steps, Kinds, Leaves
  <2>5. ProgramOK(t)
    BY <2>1, <2>2, <1>2 DEF ProgramOK, Program, Infos, Outside, Finding, Running, Same, Loaded,
          Kinds
  <2>6. Kept(s, t)
    BY <2>1 DEF Kept, Program
  <2> QED
    BY <2>4, <2>5, <2>6 DEF Follows
<1> QED
  BY <1>1, <1>2

\* arg_string, and RunCommand().
LEMMA MemoryFollows ==
  ASSUME NEW s \in Program, ProgramOK(s), s.pc = "memory"
  PROVE  /\ Follows(s, [s EXCEPT !.pc = "run", !.scratch = @ \cup {"string"}])
         /\ Follows(s, [s EXCEPT !.pc = "out"])
<1>1. ASSUME NEW t, t = [s EXCEPT !.pc = "run", !.scratch = @ \cup {"string"}]
      PROVE  Follows(s, t)
  <2>1. /\ t.pc = "run" /\ t.search = s.search /\ t.kind = s.kind /\ t.level = s.level
        /\ t.info = s.info /\ t.changed = s.changed /\ t.dvp = s.dvp /\ t.dirs = s.dirs
        /\ t.error = s.error /\ t.scratch = s.scratch \cup {"string"} /\ t.left = s.left
        /\ t.line = s.line
    BY <1>1 DEF Program
  <2>2. s.scratch \cup {"string"} \in Scratch
    BY DEF Program, Scratch
  <2>3. t \in Program
    BY <1>1, <2>2 DEF Program, Steps
  <2>4. ProgramOK(t)
    BY <2>1 DEF ProgramOK, Program, Infos, Outside, Finding, Running, Same
  <2>5. Kept(s, t)
    BY <2>1 DEF Kept, Program
  <2> QED
    BY <2>3, <2>4, <2>5 DEF Follows
<1>2. ASSUME NEW t, t = [s EXCEPT !.pc = "out"]
      PROVE  Follows(s, t)
  <2>1. /\ t.pc = "out" /\ t.search = s.search /\ t.kind = s.kind /\ t.level = s.level
        /\ t.info = s.info /\ t.changed = s.changed /\ t.dvp = s.dvp /\ t.dirs = s.dirs
        /\ t.error = s.error /\ t.scratch = s.scratch /\ t.left = s.left /\ t.line = s.line
    BY <1>2 DEF Program
  <2>2. t \in Program
    BY <1>2 DEF Program, Steps
  <2>3. ProgramOK(t)
    BY <2>1 DEF ProgramOK, Program, Infos, Outside, Finding, Running, Same
  <2>4. Kept(s, t)
    BY <2>1 DEF Kept, Program
  <2> QED
    BY <2>2, <2>3, <2>4 DEF Follows
<1> QED
  BY <1>1, <1>2

\* RunCommand() begins.
LEMMA RunFollows ==
  ASSUME NEW s \in Program, ProgramOK(s), s.pc = "run", NEW line \in Lines
  PROVE  Follows(s, [s EXCEPT !.pc = "running", !.changed = @ \cup {"name", "home"},
                              !.line = line])
<1>1. ASSUME NEW t, t = [s EXCEPT !.pc = "running", !.changed = @ \cup {"name", "home"},
                                  !.line = line]
      PROVE  Follows(s, t)
  <2>1. /\ t.pc = "running" /\ t.search = s.search /\ t.kind = s.kind /\ t.level = s.level
        /\ t.info = s.info /\ t.changed = s.changed \cup {"name", "home"} /\ t.dvp = s.dvp
        /\ t.dirs = s.dirs /\ t.error = s.error /\ t.scratch = s.scratch /\ t.left = s.left
        /\ t.line = line
    BY <1>1 DEF Program
  <2>2. s.changed = {}
    BY DEF Program, ProgramOK, Same
  <2>3. s.changed \cup {"name", "home"} \in Changes
    BY <2>2 DEF Program, Changes
  <2>4. t \in Program
    BY <1>1, <2>3 DEF Program, Steps
  <2>5. ProgramOK(t)
    BY <2>1, <2>2 DEF ProgramOK, Program, Infos, Outside, Finding, Running, Same
  <2>6. Kept(s, t)
    BY <2>1 DEF Kept, Program
  <2> QED
    BY <2>4, <2>5, <2>6 DEF Follows
<1> QED
  BY <1>1

\* RunCommand() returns.
LEMMA CommandFollows ==
  ASSUME NEW s \in Program, ProgramOK(s), s.pc = "running", NEW pc \in {"out", "success"}
  PROVE  Follows(s, [s EXCEPT !.pc = pc, !.changed = @ \ {"name", "home"}, !.line = NoLine])
<1>1. ASSUME NEW t, t = [s EXCEPT !.pc = pc, !.changed = @ \ {"name", "home"}, !.line = NoLine]
      PROVE  Follows(s, t)
  <2>1. /\ t.pc = pc /\ t.search = s.search /\ t.kind = s.kind /\ t.level = s.level
        /\ t.info = s.info /\ t.changed = s.changed \ {"name", "home"} /\ t.dvp = s.dvp
        /\ t.dirs = s.dirs /\ t.error = s.error /\ t.scratch = s.scratch /\ t.left = s.left
        /\ t.line = NoLine
    BY <1>1 DEF Program
  <2>2. s.changed \ {"name", "home"} = {}
    BY DEF Program, ProgramOK
  <2>3. s.changed \ {"name", "home"} \in Changes /\ NoLine \in Lines
    BY StringAssumption, VectorAssumption, <2>2 DEF Program, Changes, NoLine, Lines
  <2>4. t \in Program
    BY <1>1, <2>3 DEF Program, Steps
  <2>5. ProgramOK(t)
    BY <2>1, <2>2 DEF ProgramOK, Program, Infos, Outside, Finding, Running, Same
  <2>6. Kept(s, t)
    BY <2>1 DEF Kept, Program
  <2> QED
    BY <2>4, <2>5, <2>6 DEF Follows
<1> QED
  BY <1>1

\* free_program_info() of both levels.
LEMMA WithoutBoth ==
  ASSUME NEW s \in Program
  PROVE  Without(s, {1, 2}) = [s EXCEPT !.info = Idle.info]
<1>1. [l \in {1, 2} |-> IF l \in {1, 2} THEN {} ELSE s.info[l]] = Idle.info
  BY DEF Idle
<1> QED
  BY <1>1 DEF Without

\* execve() returns before RunCommand().
LEMMA FreedFollow ==
  ASSUME NEW s \in Program, ProgramOK(s), s.pc \in {"found", "notfound"}
  PROVE  Frees(s, [Leaves([s EXCEPT !.info = Idle.info], "returned") EXCEPT !.level = 1])
<1>1. ASSUME NEW t, t = [Leaves([s EXCEPT !.info = Idle.info], "returned") EXCEPT !.level = 1]
      PROVE  Frees(s, t)
  <2>1. /\ t.pc = "returned" /\ t.search = s.search /\ t.kind = "name" /\ t.level = 1
        /\ t.info = Idle.info /\ t.changed = s.changed \ {"window"} /\ t.dvp = s.dvp
        /\ t.dirs = 0 /\ t.error = FALSE /\ t.scratch = s.scratch /\ t.left = s.left
        /\ t.line = s.line
    <3>1. /\ t.pc = "returned" /\ t.search = s.search /\ t.kind = "name" /\ t.level = 1
      BY <1>1 DEF Program, Leaves, Infos, Parts
    <3>2. /\ t.info = Idle.info /\ t.changed = s.changed \ {"window"} /\ t.dvp = s.dvp
      BY <1>1 DEF Program, Leaves, Infos, Parts
    <3>3. /\ t.dirs = 0 /\ t.error = FALSE /\ t.scratch = s.scratch /\ t.left = s.left
      BY <1>1 DEF Program, Leaves, Infos, Parts
    <3>4. /\ t.line = s.line
      BY <1>1 DEF Program, Leaves, Infos, Parts
    <3> QED
      BY <3>1, <3>2, <3>3, <3>4
  <2>2. s.changed \ {"window"} = {}
    BY DEF Program, ProgramOK
  <2>3. s.changed \ {"window"} \in Changes /\ 0 \in Counts /\ Idle.info \in Infos
    BY <2>2 DEF Program, Changes, Counts, Infos, Idle
  <2>4. t \in Program
    BY <1>1, <2>3 DEF Program, Steps, Kinds, Leaves
  <2>5. ProgramOK(t)
    BY <2>1, <2>2 DEF ProgramOK, Program, Infos, Outside, Finding, Running, Same, Idle
  <2>6. t.info = Idle.info
    BY <2>1
  <2> QED
    BY <2>4, <2>5, <2>6 DEF Frees
<1> QED
  BY <1>1

\* execve() returns, or the program exits.
LEMMA OutFollows ==
  ASSUME NEW s \in Program, ProgramOK(s), s.pc \in {"out", "success"},
         NEW pc \in {"exited", "returned"}
  PROVE  Frees(s, [[s EXCEPT !.info = Idle.info] EXCEPT !.scratch = @ \ {"string"}, !.level = 1,
                                                        !.pc = pc])
<1>1. ASSUME NEW t, t = [[s EXCEPT !.info = Idle.info] EXCEPT !.scratch = @ \ {"string"},
         !.level = 1, !.pc = pc]
      PROVE  Frees(s, t)
  <2>1. /\ t.pc = pc /\ t.search = s.search /\ t.kind = s.kind /\ t.level = 1
        /\ t.info = Idle.info /\ t.changed = s.changed /\ t.dvp = s.dvp /\ t.dirs = s.dirs
        /\ t.error = s.error /\ t.scratch = s.scratch \ {"string"} /\ t.left = s.left
        /\ t.line = s.line
    BY <1>1 DEF Program, Infos, Parts
  <2>2. s.scratch \ {"string"} \in Scratch /\ Idle.info \in Infos
    BY DEF Program, Scratch, Infos, Idle
  <2>3. t \in Program
    BY <1>1, <2>2 DEF Program, Steps
  <2>4. ProgramOK(t)
    BY <2>1 DEF ProgramOK, Program, Infos, Outside, Finding, Running, Same, Idle
  <2>5. t.info = Idle.info
    BY <2>1
  <2> QED
    BY <2>3, <2>4, <2>5 DEF Frees
<1> QED
  BY <1>1

\* The interpreter takes the place of the script.
LEMMA InterpreterFollows ==
  ASSUME NEW s \in Program, ProgramOK(s), s.pc = "found",
         s.level = 2, "interpreter" \notin s.info[2], NEW info,
         info = [l \in {1, 2} |-> IF l \in {1} THEN {} ELSE s.info[l]]
  PROVE  Follows(s, [Leaves([s EXCEPT !.info = info], "memory")
               EXCEPT !.info[2] = @ \cup ({"args"} \cap s.info[1])])
<1>1. ASSUME NEW t, t = [Leaves([s EXCEPT !.info = info], "memory")
         EXCEPT !.info[2] = @ \cup ({"args"} \cap s.info[1])]
      PROVE  Follows(s, t)
  <2>1. /\ t.pc = "memory" /\ t.search = s.search /\ t.kind = "name" /\ t.level = s.level
        /\ t.info[1] = {} /\ t.info[2] = s.info[2] \cup ({"args"} \cap s.info[1])
        /\ t.info \in Infos /\ t.changed = s.changed \ {"window"} /\ t.dvp = s.dvp
        /\ t.dirs = 0 /\ t.error = FALSE /\ t.scratch = s.scratch /\ t.left = s.left
        /\ t.line = s.line
    <3>1. /\ t.pc = "memory" /\ t.search = s.search /\ t.kind = "name" /\ t.level = s.level
      BY <1>1 DEF Program, Leaves, Infos, Parts
    <3>2. /\ t.info[1] = {} /\ t.info[2] = s.info[2] \cup ({"args"} \cap s.info[1])
      BY <1>1 DEF Program, Leaves, Infos, Parts
    <3>3. /\ t.info \in Infos /\ t.changed = s.changed \ {"window"} /\ t.dvp = s.dvp
      BY <1>1 DEF Program, Leaves, Infos, Parts
    <3>4. /\ t.dirs = 0 /\ t.error = FALSE /\ t.scratch = s.scratch /\ t.left = s.left
      BY <1>1 DEF Program, Leaves, Infos, Parts
    <3>5. /\ t.line = s.line
      BY <1>1 DEF Program, Leaves, Infos, Parts
    <3> QED
      BY <3>1, <3>2, <3>3, <3>4, <3>5
  <2>2. s.changed \ {"window"} = {}
    BY DEF Program, ProgramOK
  <2>3. s.changed \ {"window"} \in Changes /\ 0 \in Counts
        /\ [info EXCEPT ![2] = @ \cup ({"args"} \cap s.info[1])] \in Infos
    BY <2>2 DEF Program, Changes, Counts, Infos, Parts
  <2>4. t \in Program
    <3> DEFINE u == [s EXCEPT !.info = info]
               v == Leaves(u, "memory")
    <3>1. info \in Infos
      BY DEF Program, Infos, Parts
    <3>2. u \in Program /\ u.info = info /\ u.changed = s.changed
      BY <3>1 DEF Program
    <3> HIDE DEF u
    <3>3. v \in Program /\ v.info = info
      BY <2>3, <3>2 DEF Program, Steps, Kinds, Leaves
    <3>4. t = [v EXCEPT !.info[2] = @ \cup ({"args"} \cap s.info[1])]
      BY <1>1 DEF u
    <3> HIDE DEF v
    <3> QED
      BY <2>3, <3>3, <3>4 DEF Program
  <2>5. ProgramOK(t)
    BY <2>1, <2>2 DEF ProgramOK, Program, Infos, Outside, Finding, Running, Same, Loaded
  <2>6. Kept(s, t)
    BY <2>1 DEF Kept, Program, ProgramOK
  <2> QED
    BY <2>4, <2>5, <2>6 DEF Follows
<1> QED
  BY <1>1

\* Two programs with the same fields are the same.
LEMMA SameFields ==
  ASSUME NEW s \in Program, NEW t \in Program,
         s.pc = t.pc, s.search = t.search, s.kind = t.kind, s.level = t.level, s.info = t.info,
         s.changed = t.changed, s.dvp = t.dvp, s.dirs = t.dirs, s.error = t.error,
         s.scratch = t.scratch, s.left = t.left, s.line = t.line
  PROVE  s = t
  BY DEF Program

\* A call that has returned leaves nothing.
LEMMA BackFollows ==
  ASSUME NEW s \in Program, ProgramOK(s), s.pc = "back"
  PROVE  Follows(s, [s EXCEPT !.pc = "idle", !.left = 0, !.search = FALSE, !.kind = "name",
                              !.scratch = @ \ {"argv", "path", "buffer"}])
<1>1. ASSUME NEW t, t = [s EXCEPT !.pc = "idle", !.left = 0, !.search = FALSE, !.kind = "name",
           !.scratch = @ \ {"argv", "path", "buffer"}]
      PROVE  Follows(s, t)
  <2>1. /\ t.pc = "idle" /\ t.search = FALSE /\ t.kind = "name" /\ t.level = s.level
        /\ t.info = s.info /\ t.changed = s.changed /\ t.dvp = s.dvp /\ t.dirs = s.dirs
        /\ t.error = s.error /\ t.scratch = s.scratch \ {"argv", "path", "buffer"}
        /\ t.left = 0 /\ t.line = s.line
    BY <1>1 DEF Program
  <2>2. s.scratch \ {"argv", "path", "buffer"} \in Scratch /\ 0 \in Counts
    BY DEF Program, Scratch, Counts
  <2>3. t \in Program
    BY <1>1, <2>2 DEF Program, Steps, Kinds
  <2>4. s.scratch \ {"argv", "path", "buffer"} = {}
    BY DEF Program, ProgramOK, Running, Scratch
  <2>5. t = Idle
    <3>1. /\ t.pc = Idle.pc /\ t.search = Idle.search /\ t.kind = Idle.kind
          /\ t.level = Idle.level /\ t.info = Idle.info /\ t.changed = Idle.changed
          /\ t.dvp = Idle.dvp /\ t.dirs = Idle.dirs /\ t.error = Idle.error
          /\ t.scratch = Idle.scratch /\ t.left = Idle.left /\ t.line = Idle.line
      BY <2>1, <2>4 DEF Program, ProgramOK, Outside, Same, Idle
    <3> QED
      BY <2>3, <3>1, IdleOK, SameFields
  <2>6. Kept(s, t)
    BY <2>1 DEF Kept, Program
  <2> QED
    BY <2>5, <2>6, IdleOK DEF Follows
<1> QED
  BY <1>1

----------------------------------------------------------------------------
(* The steps of a program.                                                 *)

\* A step that neither adds nor frees a reference to the resident command.
Moves(p) ==
  /\ UNCHANGED Shared
  /\ \E t : Follows(prog[p], t) /\ prog' = [prog EXCEPT ![p] = t]

\* The calls do not touch the list, nor do the steps up to RunCommand() that follow.
LEMMA CallMoves ==
  ASSUME ProgramsOK, NEW p \in Programs, Calls(p)
  PROVE  Moves(p)
<1>1. prog[p] = Idle /\ prog[p] \in Program
  BY IdleOK, Zenon DEF Calls, Execv, Execl, Execlp, WithList, At, ProgramsOK, ProgramOK
<1>2. CASE Execv(p)
  BY <1>1, <1>2, CallFollows, Zenon DEF Execv, Becomes, Moves
<1>3. ASSUME NEW search \in BOOLEAN, WithList(p, search)
      PROVE  Moves(p)
  <2>1. "name" \in Kinds
    BY DEF Kinds
  <2> QED
    BY <1>1, <1>3, <2>1, CallFollows, Zenon DEF WithList, Becomes, Moves
<1>4. TRUE \in BOOLEAN /\ FALSE \in BOOLEAN
  OBVIOUS
<1> QED
  BY <1>2, <1>3, <1>4, Zenon DEF Calls, Execl, Execlp

LEMMA SearchMoves ==
  ASSUME ProgramsOK, NEW p \in Programs, Start(p) \/ NextPrefix(p) \/ Retry(p) \/ Back(p)
  PROVE  Moves(p)
<1>1. prog[p] \in Program /\ ProgramOK(prog[p])
  BY DEF ProgramsOK
<1>2. CASE Start(p)
  BY <1>1, <1>2, StartFollows, Zenon DEF Start, At, Becomes, Moves
<1>3. CASE NextPrefix(p)
  BY <1>1, <1>3, PrefixFollows, Zenon DEF NextPrefix, Prefixed, At, Becomes, Moves
<1>4. CASE Retry(p)
  BY <1>1, <1>4, RetryFollows, Zenon DEF Retry, At, Becomes, Moves
<1>5. CASE Back(p)
  BY <1>1, <1>5, BackFollows, Zenon DEF Back, At, Becomes, Moves
<1> QED
  BY <1>2, <1>3, <1>4, <1>5

LEMMA FindMoves ==
  ASSUME ProgramsOK, NEW p \in Programs,
         Find(p) \/ Device(p) \/ Load(p) \/ FirstLine(p) \/ Interpreter(p) \/ ScriptBit(p)
           \/ Home(p) \/ Tried(p)
  PROVE  Moves(p)
<1>1. prog[p] \in Program /\ ProgramOK(prog[p])
  BY DEF ProgramsOK
<1>2. CASE Find(p)
  BY <1>1, <1>2, FindFollows, Zenon DEF Find, At, Becomes, Moves
<1>3. CASE Device(p)
  BY <1>1, <1>3, DeviceFollows, Zenon DEF Device, At, Becomes, Moves
<1>4. CASE Load(p)
  BY <1>1, <1>4, PartsFollow, MoveFollows, GoesFollows, Zenon
  DEF Load, At, Becomes, Moves, With, Finding
<1>5. CASE FirstLine(p)
  BY <1>1, <1>5, PartsFollow, MoveFollows, GoesFollows, Zenon
  DEF FirstLine, Keeps, At, Becomes, Moves, With, Finding
<1>6. CASE Interpreter(p)
  BY <1>1, <1>6, PartsFollow, MoveFollows, Zenon
  DEF Interpreter, Keeps, At, Becomes, Moves, With, Finding
<1>7. CASE ScriptBit(p)
  BY <1>1, <1>7, PartsFollow, MoveFollows, GoesFollows, Zenon
  DEF ScriptBit, Keeps, At, Becomes, Moves, With, Finding
<1>8. CASE Home(p)
  BY <1>1, <1>8, PartsFollow, MoveFollows, Zenon DEF Home, Keeps, At, Becomes, Moves, With,
        Finding
<1>9. CASE Tried(p)
  BY <1>1, <1>9, TriedFollows, Zenon DEF Tried, Again, Done, Ended, Info, At, Becomes, Moves
<1> QED
  BY <1>2, <1>3, <1>4, <1>5, <1>6, <1>7, <1>8, <1>9

LEMMA ExecveMoves ==
  ASSUME ProgramsOK, NEW p \in Programs,
         FoundCommand(p) \/ FoundScript(p) \/ Memory(p) \/ RunCommand(p) \/ CommandReturns(p)
  PROVE  Moves(p)
<1>1. prog[p] \in Program /\ ProgramOK(prog[p])
  BY DEF ProgramsOK
<1>2. CASE FoundCommand(p)
  <2>1. "name" \in Kinds
    BY DEF Kinds
  <2>2. prog[p].level = 1 /\ "interpreter" \notin prog[p].info[prog[p].level]
    BY <1>2 DEF FoundCommand, NeedsInterpreter, Info
  <2>3. Follows(prog[p], Leaves(prog[p], "memory"))
    BY <1>1, <1>2, <2>1, <2>2, LeavesFollow, Zenon DEF FoundCommand, At
  <2> QED
    BY <1>2, <2>3, Zenon DEF FoundCommand, Becomes, Moves
<1>3. CASE FoundScript(p)
  BY <1>1, <1>3, LeavesFollow, Zenon DEF FoundScript, NeedsInterpreter, Info, At, Becomes, Moves
<1>4. CASE Memory(p)
  BY <1>1, <1>4, MemoryFollows, Zenon DEF Memory, At, Becomes, Moves
<1>5. CASE RunCommand(p)
  <2>1. PICK argv \in Vectors, options \in Options :
          prog' = [prog EXCEPT ![p] = [prog[p] EXCEPT
            !.pc = "running", !.changed = @ \cup {"name", "home"},
            !.line = [script |-> IF prog[p].level = 2 THEN Script ELSE <<>>,
                      options |-> options, argv |-> argv]]]
    BY <1>5, Zenon DEF RunCommand, Becomes
  <2>2. [script |-> IF prog[p].level = 2 THEN Script ELSE <<>>,
         options |-> options, argv |-> argv] \in Lines
    BY DEF Lines
  <2> QED
    BY <1>1, <1>5, <2>1, <2>2, RunFollows, Zenon DEF RunCommand, At, Moves
<1>6. CASE CommandReturns(p)
  BY <1>1, <1>6, CommandFollows, Zenon DEF CommandReturns, At, Becomes, Moves
<1> QED
  BY <1>2, <1>3, <1>4, <1>5, <1>6

----------------------------------------------------------------------------
(* The users of the resident command.                                      *)

Users == {u \in Programs \X {1, 2} : "resident" \in prog[u[1]].info[u[2]]}

Counted ==
  /\ IsFiniteSet(Users)
  /\ uses = others + Cardinality(Users)
  /\ others \in Nat
  /\ uses > 0 => listed
  /\ listed \in BOOLEAN

Inv == ProgramsOK /\ Counted

\* The program after a step.
LEMMA ProgramOf ==
  ASSUME ProgramsOK, NEW p \in Programs, NEW t \in Program, ProgramOK(t),
         prog' = [prog EXCEPT ![p] = t]
  PROVE  /\ ProgramsOK'
         /\ prog'[p] = t
         /\ \A q \in Programs : q # p => prog'[q] = prog[q]
<1>1. prog'[p] = t /\ \A q \in Programs : q # p => prog'[q] = prog[q]
  BY DEF ProgramsOK
<1>2. prog' \in [Programs -> Program]
  BY DEF ProgramsOK
<1>3. \A q \in Programs : ProgramOK(prog'[q])
  BY <1>1 DEF ProgramsOK
<1> QED
  BY <1>1, <1>2, <1>3 DEF ProgramsOK

LEMMA MovesOK ==
  ASSUME Inv, NEW p \in Programs, Moves(p)
  PROVE  Inv'
<1>1. PICK t : Follows(prog[p], t) /\ prog' = [prog EXCEPT ![p] = t]
  BY DEF Moves
<1>2. t \in Program /\ ProgramOK(t) /\ Kept(prog[p], t)
  BY <1>1 DEF Follows
<1>3. ProgramsOK' /\ prog'[p] = t /\ \A q \in Programs : q # p => prog'[q] = prog[q]
  BY <1>1, <1>2, ProgramOf DEF Inv
<1>4. Users' = Users
  BY <1>2, <1>3 DEF Users, Kept
<1>5. UNCHANGED <<listed, uses, others>>
  BY DEF Moves, Shared
<1> QED
  BY <1>3, <1>4, <1>5 DEF Inv, Counted

\* find_resident_command() adds the present level to the users, or leaves them as they are.
LEMMA ResidentOK ==
  ASSUME Inv, NEW p \in Programs, Resident(p)
  PROVE  Inv'
<1>1. prog[p] \in Program /\ ProgramOK(prog[p]) /\ prog[p].pc = "resident"
  BY DEF Inv, ProgramsOK, Resident, At
<1>2. CASE /\ UNCHANGED Shared
          /\ \/ Becomes(p, With(p, {"builtin", "name"}, "found"))
             \/ Becomes(p, With(p, {"builtin"}, "notfound"))
             \/ Becomes(p, [prog[p] EXCEPT !.pc = "device"])
  <2>1. Moves(p)
    BY <1>1, <1>2, ResidentFollows, Zenon DEF Becomes, With, Moves
  <2> QED
    BY <2>1, MovesOK
<1>3. CASE /\ listed /\ uses' = uses + 1
          /\ \/ Becomes(p, With(p, {"resident", "name"}, "found"))
             \/ Becomes(p, With(p, {"resident"}, "notfound"))
  <2> DEFINE level == prog[p].level
  <2>1. PICK t : Adds(prog[p], t) /\ prog' = [prog EXCEPT ![p] = t]
    BY <1>1, <1>3, UserFollows, Zenon DEF Becomes, With
  <2>2. ProgramsOK' /\ prog'[p] = t /\ \A q \in Programs : q # p => prog'[q] = prog[q]
    BY <2>1, ProgramOf DEF Inv, Adds
  <2>3. level \in {1, 2} /\ <<p, level>> \notin Users
    BY <1>1 DEF Program, ProgramOK, Users
  <2>4. Users' = Users \cup {<<p, level>>}
    BY <2>1, <2>2, <2>3 DEF Users, Adds, Added
  <2>5. IsFiniteSet(Users') /\ Cardinality(Users') = Cardinality(Users) + 1
    BY <2>3, <2>4, FS_AddElement DEF Inv, Counted
  <2>6. Cardinality(Users) \in Nat
    BY FS_CardinalityType DEF Inv, Counted
  <2>7. UNCHANGED <<listed, others>>
    BY DEF Resident
  <2> QED
    BY <1>3, <2>2, <2>5, <2>6, <2>7 DEF Inv, Counted
<1> QED
  BY <1>2, <1>3 DEF Resident, Shared

\* free_program_info() of all that the program has: at most one of its levels is a user.
LEMMA FreesOK ==
  ASSUME Inv, NEW p \in Programs, prog[p].pc \in {"found", "notfound", "out", "success"},
         Freed(p, {1, 2}), UNCHANGED <<listed, others>>,
         NEW t, Frees(prog[p], t), prog' = [prog EXCEPT ![p] = t]
  PROVE  Inv'
<1>1. prog[p] \in Program /\ ProgramOK(prog[p])
  BY DEF Inv, ProgramsOK
<1>2. ProgramsOK' /\ prog'[p] = t /\ \A q \in Programs : q # p => prog'[q] = prog[q]
  BY ProgramOf DEF Inv, Frees
<1>3. "resident" \notin t.info[1] /\ "resident" \notin t.info[2]
  BY DEF Frees, Idle
<1>4. Cardinality(Users) \in Nat
  BY FS_CardinalityType DEF Inv, Counted
<1>5. CASE \A l \in {1, 2} : "resident" \notin prog[p].info[l]
  <2>1. Users' = Users
    BY <1>2, <1>3, <1>5 DEF Users
  <2>2. UNCHANGED uses
    BY <1>5 DEF Freed
  <2> QED
    BY <1>2, <2>1, <2>2 DEF Inv, Counted
<1>6. ASSUME NEW l \in {1, 2}, "resident" \in prog[p].info[l]
      PROVE  Inv'
  <2>1. \A k \in {1, 2} : k # l => "resident" \notin prog[p].info[k]
    BY <1>1, <1>6 DEF Program, ProgramOK, Running
  <2>2. <<p, l>> \in Users
    BY <1>6 DEF Users
  <2>3. Users' = Users \ {<<p, l>>}
    BY <1>2, <1>3, <2>1 DEF Users
  <2>4. IsFiniteSet(Users') /\ Cardinality(Users') = Cardinality(Users) - 1
    BY <2>2, <2>3, FS_RemoveElement DEF Inv, Counted
  <2>5. Cardinality(Users) > 0
    BY <2>2, <1>4, FS_EmptySet DEF Inv, Counted
  <2>6. uses > 0
    BY <1>4, <2>5 DEF Inv, Counted
  <2>7. uses' = uses - 1
    BY <1>6, <2>6 DEF Freed
  <2> QED
    BY <1>2, <1>4, <2>4, <2>6, <2>7 DEF Inv, Counted
<1> QED
  BY <1>5, <1>6

LEMMA ReturnsOK ==
  ASSUME Inv, NEW p \in Programs, NotFound(p) \/ FoundTwoScripts(p) \/ Out(p)
  PROVE  Inv'
<1>1. prog[p] \in Program /\ ProgramOK(prog[p])
  BY DEF Inv, ProgramsOK
<1>2. prog[p].pc \in {"found", "notfound", "out", "success"} /\ Freed(p, {1, 2})
        /\ UNCHANGED <<listed, others>>
  BY DEF NotFound, FoundTwoScripts, Out, At
<1>3. Without(prog[p], {1, 2}) = [prog[p] EXCEPT !.info = Idle.info]
  BY <1>1, WithoutBoth
<1>4. PICK t : Frees(prog[p], t) /\ prog' = [prog EXCEPT ![p] = t]
  <2>1. CASE NotFound(p) \/ FoundTwoScripts(p)
    BY <1>1, <1>3, <2>1, FreedFollow, Zenon DEF NotFound, FoundTwoScripts, At, Becomes
  <2>2. CASE Out(p)
    BY <1>1, <1>3, <2>2, OutFollows, Zenon DEF Out, At, Becomes
  <2> QED
    BY <2>1, <2>2
<1> QED
  BY <1>2, <1>4, FreesOK

\* The interpreter takes the place of a script, which is no user.
LEMMA InterpreterOK ==
  ASSUME Inv, NEW p \in Programs, FoundInterpreter(p)
  PROVE  Inv'
<1>1. prog[p] \in Program /\ ProgramOK(prog[p])
  BY DEF Inv, ProgramsOK
<1>2. prog[p].pc = "found" /\ prog[p].level = 2 /\ "interpreter" \notin prog[p].info[2]
  BY DEF FoundInterpreter, At, NeedsInterpreter, Info
<1>3. "resident" \notin prog[p].info[1]
  BY <1>1, <1>2 DEF ProgramOK
<1>4. UNCHANGED Shared
  BY <1>3 DEF FoundInterpreter, Freed, Shared
<1>5. Without(prog[p], {1}) =
        [prog[p] EXCEPT !.info = [l \in {1, 2} |-> IF l \in {1} THEN {} ELSE prog[p].info[l]]]
  BY DEF Without
<1>6. Moves(p)
  BY <1>1, <1>2, <1>4, <1>5, InterpreterFollows DEF FoundInterpreter, Becomes, Moves
<1> QED
  BY <1>6, MovesOK

\* The others.
LEMMA OthersOK ==
  ASSUME Inv, UserResident \/ OtherFinds \/ OtherFrees
  PROVE  Inv'
<1>1. Users' = Users /\ ProgramsOK'
  BY DEF Inv, Users, ProgramsOK, UserResident, OtherFinds, OtherFrees
<1>2. Cardinality(Users) \in Nat
  BY FS_CardinalityType DEF Inv, Counted
<1>3. /\ uses = others + Cardinality(Users) /\ others \in Nat /\ IsFiniteSet(Users)
      /\ uses > 0 => listed
      /\ listed \in BOOLEAN
  BY DEF Inv, Counted
<1>4. CASE UserResident
  <2>1. uses = 0 /\ others = 0 /\ Cardinality(Users) = 0
    BY <1>2, <1>3, <1>4 DEF UserResident
  <2>2. uses' = 0 /\ others' = 0 /\ listed' \in BOOLEAN
    BY <1>4, <2>1 DEF UserResident
  <2> QED
    BY <1>1, <1>3, <2>1, <2>2 DEF Inv, Counted
<1>5. CASE OtherFinds
  <2>1. uses' = uses + 1 /\ others' = others + 1 /\ listed' = listed /\ listed
    BY <1>5 DEF OtherFinds
  <2> QED
    BY <1>1, <1>2, <1>3, <2>1 DEF Inv, Counted
<1>6. CASE OtherFrees
  <2>1. uses' = uses - 1 /\ others' = others - 1 /\ others > 0 /\ listed' = listed
    BY <1>2, <1>3, <1>6 DEF OtherFrees
  <2> QED
    BY <1>1, <1>2, <1>3, <2>1 DEF Inv, Counted
<1> QED
  BY <1>4, <1>5, <1>6

----------------------------------------------------------------------------
\* The invariant holds at the start.
LEMMA InitOK ==
  ASSUME Init
  PROVE  Inv
<1>1. ProgramsOK
  BY IdleOK DEF Init, ProgramsOK
<1>2. Users = {}
  BY DEF Init, Users, Idle
<1>3. IsFiniteSet(Users) /\ Cardinality(Users) = 0
  BY <1>2, FS_EmptySet
<1> QED
  BY <1>1, <1>3 DEF Init, Inv, Counted

\* And every step keeps it.
LEMMA NextOK ==
  ASSUME Inv, [Next]_vars
  PROVE  Inv'
<1>1. CASE UNCHANGED vars
  BY <1>1 DEF vars, Inv, ProgramsOK, Counted, Users
<1>2. CASE UserResident \/ OtherFinds \/ OtherFrees
  BY <1>2, OthersOK
<1>3. ASSUME NEW p \in Programs, Calls(p) \/ Step(p) \/ CommandReturns(p)
      PROVE  Inv'
  <2>1. CASE Calls(p)
    BY <2>1, CallMoves, MovesOK DEF Inv
  <2>2. CASE Start(p) \/ NextPrefix(p) \/ Retry(p) \/ Back(p)
    BY <2>2, SearchMoves, MovesOK DEF Inv
  <2>3. CASE Find(p) \/ Device(p) \/ Load(p) \/ FirstLine(p) \/ Interpreter(p) \/ ScriptBit(p)
               \/ Home(p) \/ Tried(p)
    BY <2>3, FindMoves, MovesOK DEF Inv
  <2>4. CASE FoundCommand(p) \/ FoundScript(p) \/ Memory(p) \/ RunCommand(p) \/ CommandReturns(p)
    BY <2>4, ExecveMoves, MovesOK DEF Inv
  <2>5. CASE Resident(p)
    BY <2>5, ResidentOK
  <2>6. CASE FoundInterpreter(p)
    BY <2>6, InterpreterOK
  <2>7. CASE NotFound(p) \/ FoundTwoScripts(p) \/ Out(p)
    BY <2>7, ReturnsOK
  <2> QED
    BY <1>3, <2>1, <2>2, <2>3, <2>4, <2>5, <2>6, <2>7 DEF Step
<1> QED
  BY <1>1, <1>2, <1>3 DEF Next

LEMMA Invariant == Spec => []Inv
<1>1. Init => Inv
  BY InitOK
<1>2. Inv /\ [Next]_vars => Inv'
  BY NextOK
<1> QED
  BY <1>1, <1>2, PTL DEF Spec

\* For any number of programs: whatever fails in execve() (execve.c:273-543, 701-851), when
\* the call returns or the program exits the process is as it was, the program_infos are
\* freed, and a call that has returned has freed its memory.
THEOREM EverythingRestored == Spec => []AllRestored
<1>1. ASSUME Inv, NEW p \in Programs, prog[p].pc = "idle"
      PROVE  prog[p] = Idle
  BY <1>1 DEF Inv, ProgramsOK, ProgramOK
<1>2. ASSUME Inv, NEW p \in Programs, prog[p].pc \in {"prefix", "returned", "exited"}
      PROVE  /\ prog[p].changed = {} /\ prog[p].dvp = "none"
             /\ prog[p].info = Idle.info /\ "string" \notin prog[p].scratch
  BY <1>2 DEF Inv, ProgramsOK, ProgramOK, Outside, Same
<1>3. /\ Idle.changed = {} /\ Idle.dvp = "none" /\ "string" \notin Idle.scratch
  BY DEF Idle
<1>4. Inv => AllRestored
  BY <1>1, <1>2, <1>3 DEF AllRestored, At
<1> QED
  BY <1>4, Invariant, PTL

\* For any number of programs and of other users: seg_UC is the number of program_infos with
\* the resident command (execve.c:109-137, 237-247), which stays in the list while it has users.
THEOREM UsersAreCounted == Spec => []UsersCounted
<1>1. Inv => UsersCounted
  BY DEF Inv, Counted, Users, UsersCounted
<1> QED
  BY <1>1, Invariant, PTL

\* For any number of programs: RunCommand() (execve.c:819) is given something that is loaded,
\* and no script, in the file system, directory and window of the program.
THEOREM LoadedIsRun == Spec => []RunsLoaded
<1>1. Inv => RunsLoaded
  BY DEF Inv, ProgramsOK, ProgramOK, Running, RunsLoaded, Loaded, Info, At
<1> QED
  BY <1>1, Invariant, PTL

----------------------------------------------------------------------------
(* Induction over what the functions of CommandLine run through: a least   *)
(* number for which something is false, with the predicate as a set.       *)

\* That the last of these are strings is not known to the provers.
Char == STRING \cup {"*", "N", "\"", " ", "\n"}
String == Seq(Char)

LEMMA LeastNumber ==
  ASSUME NEW T, T \subseteq Nat, T # {}
  PROVE  \E n \in T : \A m \in T : n <= m
<1> DEFINE R == OpToRel(<, Nat)
<1>1. IsWellFoundedOn(R, Nat)
  BY NatLessThanWellFounded
<1>2. \A a, b \in Nat : a < b => <<a, b>> \in R
  BY SMT DEF OpToRel
<1> HIDE DEF R
<1>3. PICK n \in T : \A m \in T : <<m, n>> \notin R
  BY <1>1, WFMin
<1>4. \A m \in T : ~(m < n)
  BY <1>2, <1>3, Zenon
<1>5. QED
  BY <1>4, SMT

LEMMA Induction ==
  ASSUME NEW n \in Nat, NEW G, 0 \in G, \A k \in 1 .. n : k - 1 \in G => k \in G
  PROVE  \A k \in 0 .. n : k \in G
<1> SUFFICES ASSUME {k \in 0 .. n : k \notin G} # {}
             PROVE  FALSE
  OBVIOUS
<1>1. PICK k \in {m \in 0 .. n : m \notin G} : \A m \in {m \in 0 .. n : m \notin G} : k <= m
  <2>1. {k \in 0 .. n : k \notin G} \subseteq Nat
    BY SMT
  <2>2. QED
    BY <2>1, LeastNumber
<1>2. k \in 1 .. n /\ k - 1 \in 0 .. n /\ k - 1 \in G
  BY <1>1, SMT
<1>3. QED
  BY <1>1, <1>2

\* What read[] of Read is.
Reading(f, st, string, n) ==
  f[0] = st /\ \A k \in 1 .. n : f[k] = Scan(f[k - 1], string[k])

LEMMA ReadIs ==
  ASSUME NEW st, NEW string, NEW n \in Nat, Len(string) = n
  PROVE  \E read : Reading(read, st, string, n) /\ Read(st, string) = read[n]
<1> DEFINE
      Is(f, m) == f = [k \in 0 .. m |-> IF k = 0 THEN st ELSE Scan(f[k - 1], string[k])]
      G     == {m \in Nat : \E f : Is(f, m)}
<1>1. 0 \in G
  <2>1. Is([k \in 0 .. 0 |-> st], 0)
    BY SMT
  <2>2. QED
    BY <2>1
<1>2. ASSUME NEW m \in 1 .. n, m - 1 \in G
      PROVE  m \in G
  <2>1. PICK f : Is(f, m - 1)
    BY <1>2
  <2> DEFINE g == [k \in 0 .. m |-> IF k = m THEN Scan(f[m - 1], string[m]) ELSE f[k]]
  <2>2. Is(g, m)
    <3>1. ASSUME NEW k \in 0 .. m
          PROVE  g[k] = IF k = 0 THEN st ELSE Scan(g[k - 1], string[k])
      <4>1. CASE k = m
        BY <4>1, SMT
      <4>2. CASE k # m
        <5>1. k \in 0 .. m - 1 /\ g[k] = f[k]
          BY <4>2, SMT
        <5>2. f[k] = IF k = 0 THEN st ELSE Scan(f[k - 1], string[k])
          BY <2>1, <5>1
        <5>3. k # 0 => g[k - 1] = f[k - 1]
          BY <5>1, SMT
        <5>4. QED
          BY <5>1, <5>2, <5>3
      <4>3. QED
        BY <4>1, <4>2
    <3>2. QED
      BY <3>1
  <2>3. m \in Nat
    BY SMT
  <2>4. QED
    BY <2>2, <2>3
<1>3. n \in G
  <2> HIDE DEF G
  <2>1. \A k \in 0 .. n : k \in G
    BY <1>1, <1>2, Induction
  <2>2. QED
    BY <2>1, SMT
<1>4. PICK f : Is(f, n)
  BY <1>3
<1>5. Read(st, string) = (CHOOSE g : Is(g, n))[n]
  BY DEF Read
<1>6. PICK g : Is(g, n) /\ Read(st, string) = g[n]
  BY <1>4, <1>5
<1>7. 0 \in 0 .. n /\ \A k \in 1 .. n : k \in 0 .. n /\ k # 0
  BY SMT
<1>8. g[0] = st /\ \A k \in 1 .. n : g[k] = Scan(g[k - 1], string[k])
  BY <1>6, <1>7
<1>9. QED
  BY <1>6, <1>8 DEF Reading

LEMMA ReadEmpty ==
  ASSUME NEW st
  PROVE  Read(st, <<>>) = st
<1>1. Len(<<>>) = 0
  BY EmptySeq
<1>2. PICK f : Reading(f, st, <<>>, 0) /\ Read(st, <<>>) = f[0]
  BY <1>1, ReadIs
<1>3. QED
  BY <1>2 DEF Reading

LEMMA ReadOne ==
  ASSUME NEW st, NEW c
  PROVE  Read(st, <<c>>) = Scan(st, c)
<1>1. Len(<<c>>) = 1 /\ <<c>>[1] = c
  OBVIOUS
<1>2. PICK f : Reading(f, st, <<c>>, 1) /\ Read(st, <<c>>) = f[1]
  <2>1. PICK s : s = <<c>>
    OBVIOUS
  <2>2. PICK n \in Nat : n = 1
    OBVIOUS
  <2>3. Len(s) = n
    BY <1>1, <2>1, <2>2
  <2>4. \E f : Reading(f, st, s, n) /\ Read(st, s) = f[n]
    BY <2>3, ReadIs
  <2>5. QED
    BY <2>1, <2>2, <2>4
<1>3. f[0] = st /\ f[1] = Scan(f[0], c)
  <2>1. 1 \in 1 .. 1 /\ 1 - 1 = 0
    BY SMT
  <2>2. QED
    BY <1>1, <1>2, <2>1 DEF Reading
<1>4. QED
  BY <1>2, <1>3

LEMMA ReadConcat ==
  ASSUME NEW st, NEW s \in String, NEW t \in String
  PROVE  Read(st, s \o t) = Read(Read(st, s), t)
<1>1. /\ s \o t \in String /\ Len(s \o t) = Len(s) + Len(t)
      /\ Len(s) \in Nat /\ Len(t) \in Nat
      /\ \A i \in 1 .. Len(s) : (s \o t)[i] = s[i]
      /\ \A i \in 1 .. Len(t) : (s \o t)[Len(s) + i] = t[i]
  <2>1. Len(s) \in Nat /\ Len(t) \in Nat
    BY LenProperties DEF String
  <2>2. /\ s \o t \in String /\ Len(s \o t) = Len(s) + Len(t)
        /\ \A i \in 1 .. Len(s) + Len(t) : (s \o t)[i] = IF i <= Len(s) THEN s[i] ELSE t[i - Len(s)]
    BY ConcatProperties DEF String
  <2>3. QED
    BY <2>1, <2>2, SMT
<1> DEFINE m == Len(s)
           n == Len(t)
<1>2. PICK f : Reading(f, st, s \o t, m + n) /\ Read(st, s \o t) = f[m + n]
  <2>1. PICK len \in Nat : len = m + n /\ Len(s \o t) = len
    BY <1>1, SMT
  <2>2. \E f : Reading(f, st, s \o t, len) /\ Read(st, s \o t) = f[len]
    BY <2>1, ReadIs
  <2>3. QED
    BY <2>1, <2>2
<1>3. PICK g : Reading(g, st, s, m) /\ Read(st, s) = g[m]
  BY <1>1, ReadIs
<1>4. PICK h : Reading(h, Read(st, s), t, n) /\ Read(Read(st, s), t) = h[n]
  BY <1>1, ReadIs
<1>5. \A k \in 0 .. m : f[k] = g[k]
  <2> DEFINE G == {k \in 0 .. m : f[k] = g[k]}
  <2>1. 0 \in G
    <3>1. 0 \in 0 .. m /\ 0 \in 0 .. m + n
      BY <1>1, SMT
    <3>2. QED
      BY <1>2, <1>3, <3>1 DEF Reading
  <2>2. ASSUME NEW k \in 1 .. m, k - 1 \in G
        PROVE  k \in G
    <3>1. k \in 0 .. m /\ k \in 1 .. m + n
      BY <1>1, SMT
    <3>2. f[k] = Scan(f[k - 1], (s \o t)[k]) /\ g[k] = Scan(g[k - 1], s[k])
      BY <1>2, <1>3, <3>1 DEF Reading
    <3>3. (s \o t)[k] = s[k]
      BY <1>1
    <3>4. QED
      BY <2>2, <3>1, <3>2, <3>3
  <2> HIDE DEF G
  <2>3. \A k \in 0 .. m : k \in G
    BY <1>1, <2>1, <2>2, Induction
  <2>4. QED
    BY <2>3 DEF G
<1>6. \A k \in 0 .. n : f[m + k] = h[k]
  <2> DEFINE G == {k \in 0 .. n : f[m + k] = h[k]}
  <2>1. 0 \in G
    <3>1. 0 \in 0 .. n /\ m \in 0 .. m /\ m + 0 = m
      BY <1>1, SMT
    <3>2. h[0] = Read(st, s)
      BY <1>4 DEF Reading
    <3>3. QED
      BY <1>3, <1>5, <3>1, <3>2
  <2>2. ASSUME NEW k \in 1 .. n, k - 1 \in G
        PROVE  k \in G
    <3>1. /\ k \in 0 .. n /\ m + k \in 1 .. m + n
          /\ (m + k) - 1 = m + (k - 1)
      BY <1>1, SMT
    <3>2. f[m + k] = Scan(f[m + (k - 1)], (s \o t)[m + k]) /\ h[k] = Scan(h[k - 1], t[k])
      BY <1>2, <1>4, <3>1 DEF Reading
    <3>3. (s \o t)[m + k] = t[k]
      BY <1>1
    <3>4. QED
      BY <2>2, <3>1, <3>2, <3>3
  <2> HIDE DEF G
  <2>3. \A k \in 0 .. n : k \in G
    BY <1>1, <2>1, <2>2, Induction
  <2>4. QED
    BY <2>3 DEF G
<1>7. n \in 0 .. n
  BY <1>1, SMT
<1>8. QED
  BY <1>2, <1>4, <1>6, <1>7

----------------------------------------------------------------------------
\* A recursive function over 0 .. n is there, and has its values in S, if its step has.
Recurs(f, n, S, b, D) ==
  f \in [0 .. n -> S] /\ f[0] = b /\ \A k \in 1 .. n : f[k] = D[k][f[k - 1]]

LEMMA Recursion ==
  ASSUME NEW n \in Nat, NEW S, NEW b \in S, NEW D \in [1 .. n -> [S -> S]]
  PROVE  \E f : Recurs(f, n, S, b, D)
<1> DEFINE
      Is(f, m) == f \in [0 .. m -> S] /\ f[0] = b /\ \A k \in 1 .. m : f[k] = D[k][f[k - 1]]
      G == {m \in 0 .. n : \E f : Is(f, m)}
<1>1. 0 \in G
  <2>1. Is([k \in 0 .. 0 |-> b], 0)
    BY SMT
  <2>2. 0 \in 0 .. n
    BY SMT
  <2>3. QED
    BY <2>1, <2>2
<1>2. ASSUME NEW m \in 1 .. n, m - 1 \in G
      PROVE  m \in G
  <2>1. PICK f : Is(f, m - 1)
    BY <1>2
  <2> DEFINE g == [k \in 0 .. m |-> IF k = m THEN D[m][f[m - 1]] ELSE f[k]]
  <2>2. D[m][f[m - 1]] \in S
    BY <2>1, SMT
  <2>3. g \in [0 .. m -> S]
    BY <2>1, <2>2, SMT
  <2>4. g[0] = b
    BY <2>1, SMT
  <2>5. ASSUME NEW k \in 1 .. m
        PROVE  g[k] = D[k][g[k - 1]]
    BY <2>1, SMT
  <2>6. m \in 0 .. n
    BY SMT
  <2>7. QED
    BY <2>3, <2>4, <2>5, <2>6
<1>3. n \in G
  <2> HIDE DEF G
  <2>1. \A k \in 0 .. n : k \in G
    BY <1>1, <1>2, Induction
  <2>2. QED
    BY <2>1, SMT
<1>4. QED
  BY <1>3 DEF Recurs

----------------------------------------------------------------------------
(* The length of the line.                                                 *)

EscapedUpTo(arg, f, n) ==
  /\ f \in [0 .. n -> String] /\ f[0] = <<>>
  /\ \A k \in 1 .. n : f[k] = f[k - 1] \o Escaped(arg[k])

LEMMA ShortStrings ==
  ASSUME NEW a \in Char, NEW b \in Char
  PROVE  /\ <<a>> \in String /\ Len(<<a>>) = 1
         /\ <<a, b>> \in String /\ Len(<<a, b>>) = 2
<1> HIDE DEF Char
<1>1. QED
  BY DEF String

LEMMA EscapedChar ==
  ASSUME NEW c \in Char
  PROVE  /\ Escaped(c) \in String
         /\ Len(Escaped(c)) = IF c \in {"\"", "*", "\n"} THEN 2 ELSE 1
<1>0. "*" \in Char /\ "N" \in Char
  BY DEF Char
<1>1. CASE c \in {"\"", "*"}
  <2>1. Escaped(c) = <<"*", c>>
    BY <1>1 DEF Escaped
  <2>2. QED
    BY ONLY <1>0, <1>1, <2>1, c \in Char, ShortStrings
<1>2. CASE c = "\n"
  <2>1. Escaped(c) = <<"*", "N">>
    BY <1>2 DEF Escaped
  <2>2. QED
    BY ONLY <1>0, <1>2, <2>1, c \in Char, ShortStrings
<1>3. CASE c \notin {"\"", "*", "\n"}
  <2>1. Escaped(c) = <<c>>
    BY <1>3 DEF Escaped
  <2>2. QED
    BY ONLY <1>0, <1>3, <2>1, c \in Char, ShortStrings
<1>4. QED
  BY <1>1, <1>2, <1>3

LEMMA EscapedIs ==
  ASSUME NEW arg \in String, NEW n \in Nat, n = Len(arg)
  PROVE  \E f : EscapedUpTo(arg, f, n) /\ FlattenSeq([i \in DOMAIN arg |-> Escaped(arg[i])]) = f[n]
<1> DEFINE D == [k \in 1 .. n |-> [s \in String |-> s \o Escaped(arg[k])]]
           seqs == [i \in DOMAIN arg |-> Escaped(arg[i])]
<1>1. DOMAIN arg = 1 .. n /\ \A k \in 1 .. n : arg[k] \in Char
  BY LenProperties, ElementOfSeq DEF String
<1>2. \A k \in 1 .. n : Escaped(arg[k]) \in String
  BY <1>1, EscapedChar
<1>3. D \in [1 .. n -> [String -> String]]
  <2>1. \A k \in 1 .. n : \A s \in String : s \o Escaped(arg[k]) \in String
    BY <1>2, ConcatProperties DEF String
  <2>2. QED
    BY <2>1
<1>4. <<>> \in String
  BY EmptySeq DEF String
<1>5. PICK f : f \in [0 .. n -> String] /\ f[0] = <<>>
               /\ \A k \in 1 .. n : f[k] = D[k][f[k - 1]]
  <2> HIDE DEF D
  <2>1. PICK f : Recurs(f, n, String, <<>>, D)
    BY <1>3, <1>4, Recursion
  <2>2. QED
    BY <2>1 DEF Recurs
<1>6. \A k \in 1 .. n : f[k - 1] \in String
  BY <1>5, SMT
<1>7. EscapedUpTo(arg, f, n)
  BY <1>5, <1>6 DEF EscapedUpTo
<1>8. seqs \in Seq(String) /\ Len(seqs) = n
  BY <1>1, <1>2, SMT
<1>9. FlattenSeq(seqs) = f[n]
  <2>1. CASE n = 0
    <3>1. seqs = <<>>
      BY <1>8, <2>1, EmptySeq, SMT
    <3>2. FlattenSeq(seqs) = seqs
      BY <1>8, <2>1 DEF FlattenSeq
    <3>3. QED
      BY <1>5, <2>1, <3>1, <3>2
  <2>2. CASE n # 0
    <3> DEFINE Is(g) == g = [i \in 1 .. n |-> IF i = 1 THEN seqs[i] ELSE g[i - 1] \o seqs[i]]
               h == [i \in 1 .. n |-> f[i]]
    <3>1. FlattenSeq(seqs) = (CHOOSE g : Is(g))[n]
      BY <1>8, <2>2 DEF FlattenSeq
    <3>2. Is(h)
      <4>1. ASSUME NEW i \in 1 .. n
            PROVE  h[i] = IF i = 1 THEN seqs[i] ELSE h[i - 1] \o seqs[i]
        <5>1. f[i] = f[i - 1] \o Escaped(arg[i]) /\ seqs[i] = Escaped(arg[i])
          BY <1>1, <1>7 DEF EscapedUpTo
        <5>2. CASE i = 1
          <6>1. <<>> \o Escaped(arg[1]) = Escaped(arg[1])
            BY <1>2, <5>2, ConcatEmptySeq DEF String
          <6>2. f[1 - 1] = <<>>
            BY <1>5, SMT
          <6>3. QED
            BY <5>1, <5>2, <6>1, <6>2
        <5>3. CASE i # 1
          <6>1. i - 1 \in 1 .. n
            BY <5>3, SMT
          <6>2. QED
            BY <5>1, <5>3, <6>1
        <5>4. QED
          BY <5>2, <5>3
      <4>2. QED
        BY <4>1
    <3>3. ASSUME NEW g, Is(g)
          PROVE  \A i \in 1 .. n : g[i] = f[i]
      <4> DEFINE G == {i \in 0 .. n : i = 0 \/ g[i] = f[i]}
      <4>1. 0 \in G
        BY SMT
      <4>2. ASSUME NEW i \in 1 .. n, i - 1 \in G
            PROVE  i \in G
        <5>1. g[i] = IF i = 1 THEN seqs[i] ELSE g[i - 1] \o seqs[i]
          BY <3>3
        <5>2. f[i] = IF i = 1 THEN seqs[i] ELSE f[i - 1] \o seqs[i]
          <6>1. i # 1 => i - 1 \in 1 .. n
            BY SMT
          <6>2. QED
            BY <3>2, <6>1
        <5>3. i \in 0 .. n /\ (i # 1 => i - 1 # 0)
          BY SMT
        <5>4. QED
          BY <4>2, <5>1, <5>2, <5>3
      <4> HIDE DEF G
      <4>3. \A i \in 0 .. n : i \in G
        BY <4>1, <4>2, Induction
      <4>4. ASSUME NEW i \in 1 .. n
            PROVE  i \in 0 .. n /\ i # 0
        BY SMT
      <4>5. QED
        BY <4>3, <4>4 DEF G
    <3>4. n \in 1 .. n
      BY <2>2, SMT
    <3>5. Is(CHOOSE g : Is(g))
      BY <3>2
    <3>6. QED
      BY <3>1, <3>3, <3>4, <3>5
  <2>3. QED
    BY <2>1, <2>2
<1>10. QED
  BY <1>7, <1>9

Special == {"\"", "*", "\n"}

SpecialUpTo(arg, k) == {i \in 1 .. k : arg[i] \in Special}

LEMMA EscapedLength ==
  ASSUME NEW arg \in String, NEW n \in Nat, n = Len(arg), NEW f, EscapedUpTo(arg, f, n)
  PROVE  /\ Extra(arg) \in Nat
         /\ f[n] \in String
         /\ Len(f[n]) = n + Extra(arg)
<1> DEFINE Count(k) == Cardinality(SpecialUpTo(arg, k))
           Good(k) == /\ IsFiniteSet(SpecialUpTo(arg, k)) /\ Count(k) \in Nat
                      /\ Len(f[k]) = k + Count(k)
           G == {k \in 0 .. n : Good(k)}
<1>1. DOMAIN arg = 1 .. n /\ \A k \in 1 .. n : arg[k] \in Char
  BY LenProperties, ElementOfSeq DEF String
<1>2. \A k \in 0 .. n : f[k] \in String
  BY DEF EscapedUpTo
<1>3. 0 \in G
  <2>1. SpecialUpTo(arg, 0) = {} /\ 0 \in 0 .. n
    BY SMT DEF SpecialUpTo
  <2>2. f[0] = <<>> /\ Len(<<>>) = 0
    BY EmptySeq DEF EscapedUpTo
  <2>3. IsFiniteSet({}) /\ Cardinality({}) = 0
    BY FS_EmptySet
  <2>4. Count(0) = 0
    BY <2>1, <2>3
  <2>5. Len(f[0]) = 0 + Count(0)
    BY <2>2, <2>4
  <2>6. IsFiniteSet(SpecialUpTo(arg, 0))
    BY <2>1, <2>3
  <2>7. Count(0) \in Nat
    BY <2>4
  <2>8. QED
    BY <2>1, <2>5, <2>6, <2>7
<1>4. ASSUME NEW k \in 1 .. n, k - 1 \in G
      PROVE  k \in G
  <2>1. Good(k - 1)
    BY <1>4
  <2>2. k \in 0 .. n /\ k - 1 \in 0 .. n /\ k \notin SpecialUpTo(arg, k - 1)
    BY SMT DEF SpecialUpTo
  <2>3. /\ Escaped(arg[k]) \in String
        /\ Len(Escaped(arg[k])) = IF arg[k] \in Special THEN 2 ELSE 1
    BY <1>1, EscapedChar DEF Special
  <2>4. Len(f[k]) = Len(f[k - 1]) + Len(Escaped(arg[k]))
    <3>1. f[k] = f[k - 1] \o Escaped(arg[k])
      BY DEF EscapedUpTo
    <3>2. f[k - 1] \in String
      BY <1>2, <2>2
    <3>3. QED
      BY <2>3, <3>1, <3>2, ConcatProperties DEF String
  <2>5. CASE arg[k] \in Special
    <3>1. SpecialUpTo(arg, k) = SpecialUpTo(arg, k - 1) \cup {k}
      BY <2>5, SMT DEF SpecialUpTo
    <3>2. IsFiniteSet(SpecialUpTo(arg, k - 1) \cup {k})
      BY <2>1, FS_AddElement
    <3>3. Cardinality(SpecialUpTo(arg, k - 1) \cup {k}) = Count(k - 1) + 1
      BY <2>1, <2>2, FS_AddElement
    <3>4. Len(f[k]) = Len(f[k - 1]) + 2
      BY <2>3, <2>4, <2>5
    <3>5. Good(k)
      BY <2>1, <3>1, <3>2, <3>3, <3>4, SMT
    <3>6. QED
      BY <2>2, <3>5
  <2>6. CASE arg[k] \notin Special
    <3>1. SpecialUpTo(arg, k) = SpecialUpTo(arg, k - 1)
      BY <2>6, SMT DEF SpecialUpTo
    <3>2. Len(f[k]) = Len(f[k - 1]) + 1
      BY <2>3, <2>4, <2>6
    <3>3. Good(k)
      BY <2>1, <3>1, <3>2, SMT
    <3>4. QED
      BY <2>2, <3>3
  <2>7. QED
    BY <2>5, <2>6
<1>5. n \in G
  <2> HIDE DEF G
  <2>1. \A k \in 0 .. n : k \in G
    BY <1>3, <1>4, Induction
  <2>2. QED
    BY <2>1, SMT
<1>6. Extra(arg) = Count(n)
  BY <1>1 DEF Extra, Special, SpecialUpTo
<1>7. n \in 0 .. n
  BY SMT
<1>8. QED
  BY <1>2, <1>5, <1>6, <1>7

LEMMA WrittenLength ==
  ASSUME NEW arg \in String
  PROVE  /\ Written(arg) \in String
         /\ ArgLength(arg) \in Nat
         /\ Len(Written(arg)) = ArgLength(arg)
         /\ arg # <<>> => ArgLength(arg) > 0
<1>1. PICK n \in Nat : n = Len(arg)
  BY LenProperties DEF String
<1>2. arg # <<>> => n # 0
  BY <1>1, EmptySeq DEF String
<1>3. CASE IsQuoted(arg)
  <2>1. PICK f : /\ EscapedUpTo(arg, f, n)
                 /\ FlattenSeq([i \in DOMAIN arg |-> Escaped(arg[i])]) = f[n]
    BY <1>1, EscapedIs
  <2>2. Extra(arg) \in Nat /\ f[n] \in String /\ Len(f[n]) = n + Extra(arg)
    BY <1>1, <2>1, EscapedLength
  <2>3. Written(arg) = <<"\"">> \o f[n] \o <<"\"">>
    BY <1>3, <2>1 DEF Written
  <2>4. <<"\"">> \in String /\ Len(<<"\"">>) = 1
    <3>1. "\"" \in Char
      BY DEF Char
    <3>2. QED
      BY <3>1, ShortStrings
  <2>5. /\ <<"\"">> \o f[n] \in String /\ Len(<<"\"">> \o f[n]) = 1 + Len(f[n])
        /\ Written(arg) \in String /\ Len(Written(arg)) = Len(<<"\"">> \o f[n]) + 1
    <3>1. /\ <<"\"">> \o f[n] \in String
          /\ Len(<<"\"">> \o f[n]) = Len(<<"\"">>) + Len(f[n])
      BY <2>2, <2>4, ConcatProperties DEF String
    <3>2. /\ <<"\"">> \o f[n] \o <<"\"">> \in String
          /\ Len(<<"\"">> \o f[n] \o <<"\"">>) = Len(<<"\"">> \o f[n]) + Len(<<"\"">>)
      BY <3>1, <2>4, ConcatProperties DEF String
    <3>3. QED
      BY <2>3, <2>4, <3>1, <3>2
  <2>6. ArgLength(arg) = n + 1 + Extra(arg) + 1
    BY <1>1, <1>3 DEF ArgLength
  <2>7. Len(Written(arg)) = 1 + (n + Extra(arg)) + 1
    BY <2>2, <2>5
  <2>8. ArgLength(arg) \in Nat /\ ArgLength(arg) > 0 /\ Len(Written(arg)) = ArgLength(arg)
    BY <2>2, <2>6, <2>7, SMT
  <2>9. QED
    BY <2>5, <2>8
<1>4. CASE ~IsQuoted(arg)
  <2>1. Written(arg) = arg /\ ArgLength(arg) = n
    BY <1>1, <1>4 DEF Written, ArgLength
  <2>2. QED
    BY <1>1, <1>2, <2>1, SMT
<1>5. QED
  BY <1>3, <1>4

\* What build_arg_string() has written, and what get_arg_string_length() has counted, after
\* each argument.
Building(f, argv, n) ==
  /\ f \in [0 .. n -> String] /\ f[0] = <<>>
  /\ \A i \in 1 .. n :
       f[i] = IF argv[i] = <<>> THEN f[i - 1]
              ELSE f[i - 1] \o (IF f[i - 1] = <<>> THEN <<>> ELSE <<" ">>) \o Written(argv[i])

Counting(g, argv, n) ==
  /\ g \in [0 .. n -> Nat] /\ g[0] = 0
  /\ \A i \in 1 .. n :
       g[i] = IF argv[i] = <<>> THEN g[i - 1]
              ELSE IF g[i - 1] = 0 THEN ArgLength(argv[i]) ELSE g[i - 1] + 1 + ArgLength(argv[i])

LEMMA BuildingIs ==
  ASSUME NEW argv \in Seq(String), NEW n \in Nat, n = Len(argv)
  PROVE  \E f : Building(f, argv, n) /\ ArgString(argv) = f[n]
<1> DEFINE
      Then(s, i) == IF argv[i] = <<>> THEN s
                    ELSE s \o (IF s = <<>> THEN <<>> ELSE <<" ">>) \o Written(argv[i])
      D == [i \in 1 .. n |-> [s \in String |-> Then(s, i)]]
      Is(f) == f = [i \in 0 .. n |-> IF i = 0 THEN <<>> ELSE Then(f[i - 1], i)]
<1>1. \A i \in 1 .. n : argv[i] \in String
  BY ElementOfSeq
<1>2. <<>> \in String /\ <<" ">> \in String
  <2>1. " " \in Char
    BY DEF Char
  <2>2. QED
    BY <2>1, EmptySeq, ShortStrings DEF String
<1>3. ASSUME NEW s \in String, NEW i \in 1 .. n
      PROVE  Then(s, i) \in String
  <2>1. Written(argv[i]) \in String
    BY <1>1, WrittenLength
  <2>2. s \o <<>> \in String /\ s \o <<" ">> \in String
    BY <1>2, ConcatProperties DEF String
  <2>3. /\ (s \o <<>>) \o Written(argv[i]) \in String
        /\ (s \o <<" ">>) \o Written(argv[i]) \in String
    BY <2>1, <2>2, ConcatProperties DEF String
  <2>4. QED
    BY <2>3
<1>4. PICK f : f \in [0 .. n -> String] /\ f[0] = <<>> /\ \A i \in 1 .. n : f[i] = D[i][f[i - 1]]
  <2>1. D \in [1 .. n -> [String -> String]]
    <3> HIDE DEF Then
    <3>1. QED
      BY <1>3
  <2> HIDE DEF D
  <2>2. PICK f : Recurs(f, n, String, <<>>, D)
    BY <1>2, <2>1, Recursion
  <2>3. QED
    BY <2>2 DEF Recurs
<1>5. \A i \in 1 .. n : f[i - 1] \in String /\ f[i] = Then(f[i - 1], i)
  <2> HIDE DEF Then
  <2>1. \A i \in 1 .. n : f[i - 1] \in String
    BY <1>4, SMT
  <2>2. QED
    BY <1>4, <2>1
<1>6. Is(f)
  <2> HIDE DEF Then
  <2>1. \A i \in 0 .. n : i # 0 => i \in 1 .. n
    BY SMT
  <2>2. \A i \in 0 .. n : f[i] = IF i = 0 THEN <<>> ELSE Then(f[i - 1], i)
    BY <1>4, <1>5, <2>1
  <2>3. QED
    BY <1>4, <2>2
<1>7. PICK g : Is(g) /\ ArgString(argv) = g[n]
  BY <1>6 DEF ArgString
<1>8. \A i \in 0 .. n : g[i] = f[i]
  <2> DEFINE G == {i \in 0 .. n : g[i] = f[i]}
  <2> HIDE DEF Then
  <2>1. 0 \in G
    <3>1. 0 \in 0 .. n
      BY SMT
    <3>2. QED
      BY <1>4, <1>7, <3>1
  <2>2. ASSUME NEW i \in 1 .. n, i - 1 \in G
        PROVE  i \in G
    <3>1. i \in 0 .. n /\ i # 0
      BY SMT
    <3>2. g[i] = Then(g[i - 1], i)
      BY <1>7, <3>1
    <3>3. QED
      BY <1>5, <2>2, <3>1, <3>2
  <2> HIDE DEF G
  <2>3. \A i \in 0 .. n : i \in G
    BY <2>1, <2>2, Induction
  <2>4. QED
    BY <2>3 DEF G
<1>9. n \in 0 .. n
  BY SMT
<1>10. Building(f, argv, n)
  BY <1>4, <1>5 DEF Building
<1>11. QED
  BY <1>7, <1>8, <1>9, <1>10

LEMMA CountingIs ==
  ASSUME NEW argv \in Seq(String), NEW n \in Nat, n = Len(argv)
  PROVE  \E f : Counting(f, argv, n) /\ LengthOf(argv) = f[n]
<1> DEFINE
      Then(s, i) == IF argv[i] = <<>> THEN s
                    ELSE IF s = 0 THEN ArgLength(argv[i]) ELSE s + 1 + ArgLength(argv[i])
      D == [i \in 1 .. n |-> [s \in Nat |-> Then(s, i)]]
      Is(f) == f = [i \in 0 .. n |->
                      IF i = 0 THEN 0
                      ELSE IF argv[i] = <<>> THEN f[i - 1]
                      ELSE IF f[i - 1] = 0 THEN ArgLength(argv[i])
                      ELSE f[i - 1] + 1 + ArgLength(argv[i])]
<1>1. ASSUME NEW s \in Nat, NEW i \in 1 .. n
      PROVE  Then(s, i) \in Nat
  <2>1. argv[i] \in String
    BY ElementOfSeq
  <2>2. ArgLength(argv[i]) \in Nat
    BY <2>1, WrittenLength
  <2>3. QED
    BY <2>2, SMT
<1>2. PICK f : f \in [0 .. n -> Nat] /\ f[0] = 0 /\ \A i \in 1 .. n : f[i] = D[i][f[i - 1]]
  <2>1. D \in [1 .. n -> [Nat -> Nat]]
    <3> HIDE DEF Then
    <3>1. QED
      BY <1>1
  <2> HIDE DEF D
  <2>2. PICK f : Recurs(f, n, Nat, 0, D)
    BY <2>1, Recursion
  <2>3. QED
    BY <2>2 DEF Recurs
<1>3. \A i \in 1 .. n : f[i - 1] \in Nat /\ f[i] = Then(f[i - 1], i)
  <2> HIDE DEF Then
  <2>1. \A i \in 1 .. n : f[i - 1] \in Nat
    BY <1>2, SMT
  <2>2. QED
    BY <1>2, <2>1
<1>4. Is(f)
  <2>1. \A i \in 0 .. n : i # 0 => i \in 1 .. n
    BY SMT
  <2>2. \A i \in 0 .. n : f[i] = IF i = 0 THEN 0 ELSE Then(f[i - 1], i)
    <3> HIDE DEF Then
    <3>1. QED
      BY <1>2, <1>3, <2>1
  <2>3. QED
    BY <1>2, <2>2
<1>5. PICK g : Is(g) /\ LengthOf(argv) = g[n]
  BY <1>4 DEF LengthOf
<1>6. \A i \in 0 .. n : g[i] = f[i]
  <2> DEFINE G == {i \in 0 .. n : g[i] = f[i]}
  <2>1. 0 \in G
    <3>1. 0 \in 0 .. n
      BY SMT
    <3>2. QED
      BY <1>2, <1>5, <3>1
  <2>2. ASSUME NEW i \in 1 .. n, i - 1 \in G
        PROVE  i \in G
    <3>1. i \in 0 .. n /\ i # 0
      BY SMT
    <3>2. g[i] = Then(g[i - 1], i)
      BY <1>5, <3>1
    <3> HIDE DEF Then
    <3>3. QED
      BY <1>3, <2>2, <3>1, <3>2
  <2> HIDE DEF G
  <2>3. \A i \in 0 .. n : i \in G
    BY <2>1, <2>2, Induction
  <2>4. QED
    BY <2>3 DEF G
<1>7. n \in 0 .. n
  BY SMT
<1>8. Counting(f, argv, n)
  BY <1>2, <1>3 DEF Counting
<1>9. QED
  BY <1>5, <1>6, <1>7, <1>8

\* The first half of LineFits (execve.c:595-685): what is counted is what is written.
LEMMA LengthIsLength ==
  ASSUME NEW argv \in Seq(String)
  PROVE  /\ ArgString(argv) \in String
         /\ Len(ArgString(argv)) = LengthOf(argv)
<1>1. PICK n \in Nat : n = Len(argv)
  BY LenProperties
<1>2. PICK f : Building(f, argv, n) /\ ArgString(argv) = f[n]
  BY <1>1, BuildingIs
<1>3. PICK g : Counting(g, argv, n) /\ LengthOf(argv) = g[n]
  BY <1>1, CountingIs
<1> DEFINE G == {i \in 0 .. n : Len(f[i]) = g[i]}
<1>4. 0 \in G
  <2>1. 0 \in 0 .. n
    BY SMT
  <2>2. QED
    BY <1>2, <1>3, <2>1, EmptySeq DEF Building, Counting
<1>5. ASSUME NEW i \in 1 .. n, i - 1 \in G
      PROVE  i \in G
  <2>1. i \in 0 .. n /\ i - 1 \in 0 .. n
    BY SMT
  <2>2. f[i - 1] \in String /\ Len(f[i - 1]) = g[i - 1] /\ g[i - 1] \in Nat
    BY <1>2, <1>3, <1>5, <2>1 DEF Building, Counting
  <2>3. argv[i] \in String
    BY <1>1, ElementOfSeq
  <2>4. CASE argv[i] = <<>>
    BY <1>2, <1>3, <2>1, <2>2, <2>4 DEF Building, Counting
  <2>5. CASE argv[i] # <<>>
    <3>1. /\ Written(argv[i]) \in String /\ ArgLength(argv[i]) \in Nat
          /\ Len(Written(argv[i])) = ArgLength(argv[i])
      BY <2>3, WrittenLength
    <3>2. CASE f[i - 1] = <<>>
      <4>1. g[i - 1] = 0
        BY <2>2, <3>2, EmptySeq
      <4>2. f[i] = (<<>> \o <<>>) \o Written(argv[i]) /\ g[i] = ArgLength(argv[i])
        BY <1>2, <1>3, <2>5, <3>2, <4>1 DEF Building, Counting
      <4>3. <<>> \o <<>> = <<>> /\ <<>> \o Written(argv[i]) = Written(argv[i])
        BY <2>2, <3>1, <3>2, ConcatEmptySeq DEF String
      <4>4. QED
        BY <2>1, <3>1, <4>2, <4>3
    <3>3. CASE f[i - 1] # <<>>
      <4>1. g[i - 1] # 0
        BY <2>2, <3>3, EmptySeq DEF String
      <4>2. /\ f[i] = (f[i - 1] \o <<" ">>) \o Written(argv[i])
            /\ g[i] = g[i - 1] + 1 + ArgLength(argv[i])
        BY <1>2, <1>3, <2>5, <3>3, <4>1 DEF Building, Counting
      <4>3. <<" ">> \in String /\ Len(<<" ">>) = 1
        <5>1. " " \in Char
          BY DEF Char
        <5>2. QED
          BY <5>1, ShortStrings
      <4>4. /\ f[i - 1] \o <<" ">> \in String
            /\ Len(f[i - 1] \o <<" ">>) = Len(f[i - 1]) + Len(<<" ">>)
        BY <2>2, <4>3, ConcatProperties DEF String
      <4>5. Len(f[i]) = Len(f[i - 1] \o <<" ">>) + Len(Written(argv[i]))
        <5>1. PICK s \in String, w \in String :
                s = f[i - 1] \o <<" ">> /\ w = Written(argv[i])
          BY <3>1, <4>4
        <5>2. Len(s \o w) = Len(s) + Len(w)
          BY ConcatProperties DEF String
        <5>3. QED
          BY <4>2, <5>1, <5>2
      <4>6. Len(f[i]) = g[i]
        BY <2>2, <3>1, <4>2, <4>3, <4>4, <4>5
      <4>7. QED
        BY <2>1, <4>6
    <3>4. QED
      BY <3>2, <3>3
  <2>6. QED
    BY <2>4, <2>5
<1>6. n \in G
  <2> HIDE DEF G
  <2>1. \A i \in 0 .. n : i \in G
    BY <1>4, <1>5, Induction
  <2>2. QED
    BY <2>1, SMT
<1>7. n \in 0 .. n
  BY SMT
<1>8. QED
  BY <1>2, <1>3, <1>6, <1>7 DEF Building

Terminated(s) == IF s = <<>> THEN <<>> ELSE Append(s, " ")

LEMMA PrefixParts ==
  ASSUME NEW s \in String
  PROVE  Terminated(s) \in String
<1>1. " " \in Char
  BY DEF Char
<1>2. QED
  BY <1>1, AppendProperties DEF Terminated, String

\* The first half of LineFits: the memory for the line is just enough.
LEMMA LineFitsMemory ==
  ASSUME NEW script \in String, NEW options \in String, NEW argv \in Seq(String)
  PROVE  /\ Prefix(script, options) \in String
         /\ Line(script, options, argv) \in String
         /\ LineSize(script, options, argv) = Len(Line(script, options, argv)) + 1
<1>1. Prefix(script, options) = Terminated(options) \o Terminated(script)
  BY DEF Prefix, Terminated
<1>2. Prefix(script, options) \in String
  <2>1. Terminated(options) \in String /\ Terminated(script) \in String
    BY PrefixParts
  <2>2. QED
    BY <1>1, <2>1, ConcatProperties DEF String
<1>3. ArgString(argv) \in String /\ Len(ArgString(argv)) = LengthOf(argv)
  BY LengthIsLength
<1>4. PICK s \in String : /\ s = Prefix(script, options) \o ArgString(argv)
                          /\ Len(s) = Len(Prefix(script, options)) + Len(ArgString(argv))
  BY <1>2, <1>3, ConcatProperties DEF String
<1>5. Append(s, "\n") \in String /\ Len(Append(s, "\n")) = Len(s) + 1
  <2>1. "\n" \in Char
    BY DEF Char
  <2>2. QED
    BY <2>1, AppendProperties DEF String
<1>6. Line(script, options, argv) = Append(s, "\n")
  BY <1>4 DEF Line
<1>7. LineSize(script, options, argv) = Len(Prefix(script, options)) + LengthOf(argv) + 1 + 1
  BY DEF LineSize
<1>8. QED
  BY <1>2, <1>3, <1>4, <1>5, <1>6, <1>7

----------------------------------------------------------------------------
\* The words and their buffer.

Sizing(f, words, n) ==
  /\ f \in [0 .. n -> Nat] /\ f[0] = 0
  /\ \A k \in 1 .. n : f[k] = f[k - 1] + Len(words[k]) + 1

LEMMA SizingIs ==
  ASSUME NEW words \in Seq(String), NEW n \in Nat, n = Len(words)
  PROVE  \E f : Sizing(f, words, n) /\ SizeOf(words) = f[n]
<1> DEFINE
      D == [k \in 1 .. n |-> [s \in Nat |-> s + Len(words[k]) + 1]]
      Is(f) == f = [k \in 0 .. n |-> IF k = 0 THEN 0 ELSE f[k - 1] + Len(words[k]) + 1]
<1>1. \A k \in 1 .. n : Len(words[k]) \in Nat
  <2>1. \A k \in 1 .. n : words[k] \in String
    BY ElementOfSeq
  <2>2. QED
    BY <2>1, LenProperties DEF String
<1>2. PICK f : f \in [0 .. n -> Nat] /\ f[0] = 0 /\ \A k \in 1 .. n : f[k] = D[k][f[k - 1]]
  <2>1. D \in [1 .. n -> [Nat -> Nat]]
    BY <1>1, SMT
  <2> HIDE DEF D
  <2>2. PICK f : Recurs(f, n, Nat, 0, D)
    BY <2>1, Recursion
  <2>3. QED
    BY <2>2 DEF Recurs
<1>3. \A k \in 1 .. n : f[k] = f[k - 1] + Len(words[k]) + 1
  <2>1. \A k \in 1 .. n : f[k - 1] \in Nat
    BY <1>2, SMT
  <2>2. QED
    BY <1>2, <2>1
<1>4. Is(f)
  <2>1. \A k \in 0 .. n : k # 0 => k \in 1 .. n
    BY SMT
  <2>2. \A k \in 0 .. n : f[k] = IF k = 0 THEN 0 ELSE f[k - 1] + Len(words[k]) + 1
    BY <1>2, <1>3, <2>1
  <2>3. QED
    BY <1>2, <2>2
<1>5. PICK g : Is(g) /\ SizeOf(words) = g[n]
  BY <1>4 DEF SizeOf
<1>6. \A k \in 0 .. n : g[k] = f[k]
  <2> DEFINE G == {k \in 0 .. n : g[k] = f[k]}
  <2>1. 0 \in G
    <3>1. 0 \in 0 .. n
      BY SMT
    <3>2. QED
      BY <1>2, <1>5, <3>1
  <2>2. ASSUME NEW k \in 1 .. n, k - 1 \in G
        PROVE  k \in G
    <3>1. k \in 0 .. n /\ k # 0
      BY SMT
    <3>2. g[k] = g[k - 1] + Len(words[k]) + 1
      BY <1>5, <3>1
    <3>3. QED
      BY <1>3, <2>2, <3>1, <3>2
  <2> HIDE DEF G
  <2>3. \A k \in 0 .. n : k \in G
    BY <2>1, <2>2, Induction
  <2>4. QED
    BY <2>3 DEF G
<1>7. n \in 0 .. n
  BY SMT
<1>8. Sizing(f, words, n)
  BY <1>2, <1>3 DEF Sizing
<1>9. QED
  BY <1>5, <1>6, <1>7, <1>8

Sums(f, words, m) == f[0] = 0 /\ \A k \in 1 .. m : f[k] = f[k - 1] + Len(words[k]) + 1

LEMMA SizesAgree ==
  ASSUME NEW v, NEW w, NEW m \in Nat, \A k \in 1 .. m : v[k] = w[k],
         NEW f, NEW g, Sums(f, v, m), Sums(g, w, m)
  PROVE  f[m] = g[m]
<1> DEFINE G == {k \in 0 .. m : f[k] = g[k]}
<1>1. 0 \in G
  BY SMT DEF Sums
<1>2. ASSUME NEW k \in 1 .. m, k - 1 \in G
      PROVE  k \in G
  <2>1. k \in 0 .. m
    BY SMT
  <2>2. QED
    BY <1>2, <2>1 DEF Sums
<1> HIDE DEF G
<1>3. \A k \in 0 .. m : k \in G
  BY <1>1, <1>2, Induction
<1>4. m \in 0 .. m
  BY SMT
<1>5. QED
  BY <1>3, <1>4 DEF G

\* A word more.
LEMMA SizeAppend ==
  ASSUME NEW words \in Seq(String), NEW word \in String
  PROVE  /\ SizeOf(words) \in Nat
         /\ Append(words, word) \in Seq(String)
         /\ SizeOf(Append(words, word)) = SizeOf(words) + Len(word) + 1
<1>1. PICK n \in Nat : n = Len(words)
  BY LenProperties
<1>2. PICK more \in Seq(String) :
        /\ more = Append(words, word) /\ Len(more) = n + 1
        /\ \A k \in 1 .. n : more[k] = words[k]
        /\ more[n + 1] = word
  BY <1>1, AppendProperties
<1>3. PICK f : Sizing(f, words, n) /\ SizeOf(words) = f[n]
  BY <1>1, SizingIs
<1>4. PICK g : Sizing(g, more, n + 1) /\ SizeOf(more) = g[n + 1]
  <2>1. PICK m \in Nat : m = n + 1 /\ m = Len(more)
    BY <1>2, SMT
  <2>2. \E g : Sizing(g, more, m) /\ SizeOf(more) = g[m]
    BY <2>1, SizingIs
  <2>3. QED
    BY <2>1, <2>2
<1>5. f[n] = g[n]
  <2>1. \A k \in 1 .. n : k \in 1 .. n + 1
    BY SMT
  <2>2. Sums(f, words, n) /\ Sums(g, more, n)
    BY <1>3, <1>4, <2>1 DEF Sizing, Sums
  <2>3. \A k \in 1 .. n : words[k] = more[k]
    BY <1>2
  <2>4. QED
    BY ONLY n \in Nat, <2>2, <2>3, SizesAgree
<1>6. g[n + 1] = g[n] + Len(word) + 1
  <2>1. n + 1 \in 1 .. n + 1 /\ (n + 1) - 1 = n
    BY SMT
  <2>2. QED
    BY <1>2, <1>4, <2>1 DEF Sizing
<1>7. f[n] \in Nat
  <2>1. n \in 0 .. n
    BY SMT
  <2>2. QED
    BY <1>3, <2>1 DEF Sizing
<1>8. QED
  BY <1>2, <1>3, <1>4, <1>5, <1>6, <1>7

\* A character more in the last word.
Extended(words, c) == [words EXCEPT ![Len(words)] = Append(@, c)]

LEMMA ExtendedAppend ==
  ASSUME NEW old \in Seq(String), NEW word \in String, NEW c \in Char
  PROVE  Extended(Append(old, word), c) = Append(old, Append(word, c))
<1>1. PICK words \in Seq(String) : words = Append(old, word)
  BY AppendProperties
<1>2. Append(word, c) \in String /\ Len(Append(word, c)) = Len(word) + 1 /\ Len(word) \in Nat
  BY AppendProperties, LenProperties DEF String
<1>3. Extended(words, c) = Append(old, Append(word, c))
  <2>1. PICK n \in Nat : n = Len(old)
    BY LenProperties
  <2>2. /\ Len(words) = n + 1 /\ words[n + 1] = word
        /\ \A k \in 1 .. n : words[k] = old[k]
    BY <1>1, <2>1, AppendProperties
  <2>3. PICK long \in Seq(String) :
          /\ long = Append(old, Append(word, c)) /\ Len(long) = n + 1
          /\ long[n + 1] = Append(word, c)
          /\ \A k \in 1 .. n : long[k] = old[k]
    <3>1. PICK w \in String : w = Append(word, c)
      BY <1>2
    <3>2. /\ Append(old, w) \in Seq(String) /\ Len(Append(old, w)) = n + 1
          /\ Append(old, w)[n + 1] = w
          /\ \A k \in 1 .. n : Append(old, w)[k] = old[k]
      BY <2>1, AppendProperties
    <3>3. QED
      BY <3>1, <3>2
  <2>4. n + 1 \in 1 .. n + 1
    BY SMT
  <2>5. /\ Extended(words, c) \in Seq(String) /\ Len(Extended(words, c)) = n + 1
        /\ \A k \in 1 .. n + 1 :
             Extended(words, c)[k] = IF k = n + 1 THEN Append(word, c) ELSE words[k]
    <3>1. Extended(words, c) = [words EXCEPT ![n + 1] = Append(word, c)]
      BY <2>2, <2>4, LenProperties DEF Extended
    <3>2. QED
      BY <1>2, <2>2, <2>4, <3>1, ExceptSeq
  <2>6. \A k \in 1 .. n + 1 : Extended(words, c)[k] = long[k]
    <3>1. \A k \in 1 .. n + 1 : k # n + 1 => k \in 1 .. n
      BY SMT
    <3>2. QED
      BY <2>2, <2>3, <2>5, <3>1
  <2>7. QED
    BY <2>3, <2>5, <2>6, SeqEqual
<1>4. QED
  BY <1>1, <1>3

LEMMA SizeExtended ==
  ASSUME NEW words \in Seq(String), words # <<>>, NEW c \in Char
  PROVE  /\ Extended(words, c) \in Seq(String)
         /\ Extended(words, c) # <<>>
         /\ SizeOf(Extended(words, c)) = SizeOf(words) + 1
<1>1. PICK old \in Seq(String), word \in String : words = Append(old, word)
  BY SequenceEmptyOrAppend
<1>2. Append(word, c) \in String /\ Len(Append(word, c)) = Len(word) + 1 /\ Len(word) \in Nat
  BY AppendProperties, LenProperties DEF String
<1>3. Extended(words, c) = Append(old, Append(word, c))
  BY <1>1, ExtendedAppend
<1>4. /\ Append(old, Append(word, c)) \in Seq(String)
      /\ SizeOf(Append(old, Append(word, c))) = SizeOf(old) + Len(Append(word, c)) + 1
      /\ SizeOf(words) = SizeOf(old) + Len(word) + 1 /\ SizeOf(old) \in Nat
  BY <1>1, <1>2, SizeAppend
<1>5. Append(old, Append(word, c)) # <<>>
  BY <1>2, AppendProperties
<1>6. QED
  BY <1>2, <1>3, <1>4, <1>5

Places == {"between", "word", "quoted", "escaped"}

St(words, at) == [words |-> words, at |-> at]

LEMMA ScanIs ==
  ASSUME NEW words, NEW c
  PROVE  /\ Blank(c) => Scan(St(words, "between"), c) = St(words, "between")
         /\ c = "\"" => Scan(St(words, "between"), c) = St(Append(words, <<>>), "quoted")
         /\ ~Blank(c) /\ c # "\"" =>
              Scan(St(words, "between"), c) = St(Append(words, <<c>>), "word")
         /\ Blank(c) => Scan(St(words, "word"), c) = St(words, "between")
         /\ ~Blank(c) => Scan(St(words, "word"), c) = St(Extended(words, c), "word")
         /\ c = "\"" => Scan(St(words, "quoted"), c) = St(words, "between")
         /\ c = "*" => Scan(St(words, "quoted"), c) = St(words, "escaped")
         /\ c \notin {"\"", "*"} =>
              Scan(St(words, "quoted"), c) = St(Extended(words, c), "quoted")
         /\ Scan(St(words, "escaped"), c) = St(Extended(words, c), "quoted")
<1>1. ASSUME NEW at \in Places
      PROVE  /\ St(words, at).words = words /\ St(words, at).at = at
             /\ \A b : [St(words, at) EXCEPT !.at = b] = St(words, b)
             /\ \A w, b : Begun(St(words, at), w, b) = St(Append(words, w), b)
             /\ \A b : Longer(St(words, at), c, b) = St(Extended(words, c), b)
  <2>1. St(words, at).words = words /\ St(words, at).at = at
    BY DEF St
  <2>2. \A b : [St(words, at) EXCEPT !.at = b] = St(words, b)
    BY DEF St
  <2>3. QED
    BY <2>1, <2>2 DEF Begun, Longer, Extended, St
<1>2. ~Blank("\"")
  BY DEF Blank
<1>3. "between" \in Places /\ "word" \in Places /\ "quoted" \in Places /\ "escaped" \in Places
  BY DEF Places
<1>4. ASSUME NEW st, st.at = "between"
      PROVE  Scan(st, c) = IF Blank(c) THEN st
                           ELSE IF c = "\"" THEN Begun(st, <<>>, "quoted")
                           ELSE Begun(st, <<c>>, "word")
  BY <1>4 DEF Scan
<1>5. ASSUME NEW st, st.at = "word"
      PROVE  Scan(st, c) = IF Blank(c) THEN [st EXCEPT !.at = "between"]
                           ELSE Longer(st, c, "word")
  BY <1>5 DEF Scan
<1>6. ASSUME NEW st, st.at = "quoted"
      PROVE  Scan(st, c) = IF c = "\"" THEN [st EXCEPT !.at = "between"]
                           ELSE IF c = "*" THEN [st EXCEPT !.at = "escaped"]
                           ELSE Longer(st, c, "quoted")
  BY <1>6 DEF Scan
<1>7. ASSUME NEW st, st.at = "escaped"
      PROVE  Scan(st, c) = Longer(st, c, "quoted")
  BY <1>7 DEF Scan
<1>8. c = "*" => c # "\""
  OBVIOUS
<1>9. Scan(St(words, "between"), c)
        = IF Blank(c) THEN St(words, "between")
          ELSE IF c = "\"" THEN St(Append(words, <<>>), "quoted")
          ELSE St(Append(words, <<c>>), "word")
  <2>1. PICK st : st = St(words, "between")
    OBVIOUS
  <2>2. /\ st.at = "between" /\ Begun(st, <<>>, "quoted") = St(Append(words, <<>>), "quoted")
        /\ Begun(st, <<c>>, "word") = St(Append(words, <<c>>), "word")
    BY <1>1, <1>3, <2>1
  <2>3. QED
    BY <1>4, <2>1, <2>2
<1>10. Scan(St(words, "word"), c)
         = IF Blank(c) THEN St(words, "between") ELSE St(Extended(words, c), "word")
  <2>1. PICK st : st = St(words, "word")
    OBVIOUS
  <2>2. /\ st.at = "word" /\ [st EXCEPT !.at = "between"] = St(words, "between")
        /\ Longer(st, c, "word") = St(Extended(words, c), "word")
    BY <1>1, <1>3, <2>1
  <2>3. QED
    BY <1>5, <2>1, <2>2
<1>11. Scan(St(words, "quoted"), c)
         = IF c = "\"" THEN St(words, "between")
           ELSE IF c = "*" THEN St(words, "escaped")
           ELSE St(Extended(words, c), "quoted")
  <2>1. PICK st : st = St(words, "quoted")
    OBVIOUS
  <2>2. /\ st.at = "quoted" /\ [st EXCEPT !.at = "between"] = St(words, "between")
        /\ [st EXCEPT !.at = "escaped"] = St(words, "escaped")
        /\ Longer(st, c, "quoted") = St(Extended(words, c), "quoted")
    BY <1>1, <1>3, <2>1
  <2>3. QED
    BY <1>6, <2>1, <2>2
<1>12. Scan(St(words, "escaped"), c) = St(Extended(words, c), "quoted")
  <2>1. PICK st : st = St(words, "escaped")
    OBVIOUS
  <2>2. st.at = "escaped" /\ Longer(st, c, "quoted") = St(Extended(words, c), "quoted")
    BY <1>1, <1>3, <2>1
  <2>3. QED
    BY <1>7, <2>1, <2>2
<1>13. QED
  BY <1>2, <1>8, <1>9, <1>10, <1>11, <1>12

\* Between characters of a word there is a word.
Started(words, at) == words \in Seq(String) /\ at \in Places /\ (at # "between" => words # <<>>)

\* One of the two bytes of a word of one letter is still to be read.
Ahead(at) == IF at = "word" THEN 1 ELSE 0

LEMMA ScanFits ==
  ASSUME NEW words, NEW at, Started(words, at), NEW c \in Char
  PROVE  \E w, a : /\ Scan(St(words, at), c) = St(w, a) /\ Started(w, a)
                   /\ SizeOf(words) \in Nat /\ SizeOf(w) \in Nat
                   /\ SizeOf(w) - Ahead(a) <= SizeOf(words) - Ahead(at) + 1
<1> DEFINE Fit(w, a) == /\ Started(w, a) /\ SizeOf(w) \in Nat
                        /\ SizeOf(w) - Ahead(a) <= SizeOf(words) - Ahead(at) + 1
<1>1. <<>> \in String /\ Len(<<>>) = 0 /\ <<c>> \in String /\ Len(<<c>>) = 1
  BY ShortStrings, EmptySeq DEF String
<1>2. words \in Seq(String) /\ at \in Places /\ SizeOf(words) \in Nat
  BY <1>1, SizeAppend DEF Started
<1>3. ASSUME NEW b \in String
      PROVE  /\ Append(words, b) \in Seq(String) /\ Append(words, b) # <<>>
             /\ SizeOf(Append(words, b)) = SizeOf(words) + Len(b) + 1
  <2>1. /\ Append(words, b) \in Seq(String)
        /\ SizeOf(Append(words, b)) = SizeOf(words) + Len(b) + 1
    BY <1>2, SizeAppend
  <2>2. Append(words, b) # <<>>
    BY <1>2, AppendProperties
  <2>3. QED
    BY <2>1, <2>2
<1>4. ASSUME at # "between"
      PROVE  /\ Extended(words, c) \in Seq(String) /\ Extended(words, c) # <<>>
             /\ SizeOf(Extended(words, c)) = SizeOf(words) + 1
  BY <1>2, <1>4, SizeExtended DEF Started
<1>5. Fit(words, "between")
  BY <1>2, SMT DEF Started, Ahead, Places
<1>6. at = "between" => Fit(Append(words, <<>>), "quoted") /\ Fit(Append(words, <<c>>), "word")
  <2>1. SizeOf(Append(words, <<>>)) = SizeOf(words) + 1
    BY <1>1, <1>2, <1>3
  <2>2. SizeOf(Append(words, <<c>>)) = SizeOf(words) + 2
    <3>1. PICK b \in String : b = <<c>> /\ Len(b) = 1
      BY <1>1
    <3>2. SizeOf(Append(words, b)) = SizeOf(words) + Len(b) + 1
      BY <1>3
    <3>3. QED
      BY <1>2, <3>1, <3>2
  <2>3. /\ Append(words, <<>>) \in Seq(String) /\ Append(words, <<>>) # <<>>
        /\ Append(words, <<c>>) \in Seq(String) /\ Append(words, <<c>>) # <<>>
    BY <1>1, <1>3
  <2>4. Started(Append(words, <<>>), "quoted") /\ Started(Append(words, <<c>>), "word")
    BY <2>3 DEF Started, Places
  <2>5. QED
    BY <1>2, <2>1, <2>2, <2>4, SMT DEF Ahead
<1>7. at = "word" => Fit(Extended(words, c), "word")
  <2>1. at = "word" => Started(Extended(words, c), "word")
    BY <1>4 DEF Started, Places
  <2>2. QED
    BY <1>2, <1>4, <2>1, SMT DEF Ahead
<1>8. at \in {"quoted", "escaped"} => Fit(Extended(words, c), "quoted") /\ Fit(words, "escaped")
  <2>1. at \in {"quoted", "escaped"} =>
          Started(Extended(words, c), "quoted") /\ Started(words, "escaped")
    BY <1>4 DEF Started, Places
  <2>2. QED
    BY <1>2, <1>4, <2>1, SMT DEF Ahead
<1>9. \E w, a : Scan(St(words, at), c) = St(w, a) /\ Fit(w, a)
  <2> HIDE DEF Fit
  <2>1. CASE at = "between"
    <3>1. CASE Blank(c)
      BY <1>5, <2>1, <3>1, ScanIs
    <3>2. CASE c = "\""
      BY <1>6, <2>1, <3>2, ScanIs
    <3>3. CASE ~Blank(c) /\ c # "\""
      BY <1>6, <2>1, <3>3, ScanIs
    <3>4. QED
      BY <3>1, <3>2, <3>3
  <2>2. CASE at = "word"
    <3>1. CASE Blank(c)
      BY <1>5, <2>2, <3>1, ScanIs
    <3>2. CASE ~Blank(c)
      BY <1>7, <2>2, <3>2, ScanIs
    <3>3. QED
      BY <3>1, <3>2
  <2>3. CASE at = "quoted"
    <3>1. CASE c = "\""
      BY <1>5, <2>3, <3>1, ScanIs
    <3>2. CASE c = "*"
      BY <1>8, <2>3, <3>2, ScanIs
    <3>3. CASE c \notin {"\"", "*"}
      BY <1>8, <2>3, <3>3, ScanIs
    <3>4. QED
      BY <3>1, <3>2, <3>3
  <2>4. CASE at = "escaped"
    BY <1>8, <2>4, ScanIs
  <2>5. QED
    BY <1>2, <2>1, <2>2, <2>3, <2>4 DEF Places
<1>10. QED
  BY <1>2, <1>9

\* The second half of LineFits: the words fit in the buffer, whatever the line.
LEMMA WordsFitBuffer ==
  ASSUME NEW line \in String
  PROVE  WordsSize(line) <= BufferSize(line)
<1>1. PICK n \in Nat : n = Len(line)
  BY LenProperties DEF String
<1>2. \A k \in 1 .. n : line[k] \in Char
  BY <1>1, ElementOfSeq DEF String
<1>3. PICK f : Reading(f, Unread, line, n) /\ Read(Unread, line) = f[n]
  BY <1>1, ReadIs
<1> DEFINE Fit(k, w, a) == /\ f[k] = St(w, a) /\ Started(w, a) /\ SizeOf(w) \in Nat
                           /\ SizeOf(w) - Ahead(a) <= k
           G == {k \in 0 .. n : \E w, a : Fit(k, w, a)}
<1>4. 0 \in G
  <2>1. f[0] = St(<<>>, "between")
    BY <1>3 DEF Reading, Unread, St
  <2>2. Started(<<>>, "between")
    BY EmptySeq DEF Started, Places
  <2>3. SizeOf(<<>>) = 0
    <3>1. PICK w : w = <<>>
      OBVIOUS
    <3>2. w \in Seq(String) /\ Len(w) = 0
      BY <3>1, EmptySeq
    <3>3. PICK m \in Nat : m = 0 /\ m = Len(w)
      BY <3>2
    <3>4. PICK g : Sizing(g, w, m) /\ SizeOf(w) = g[m]
      BY <3>2, <3>3, SizingIs
    <3>5. QED
      BY <3>1, <3>3, <3>4 DEF Sizing
  <2>4. Fit(0, <<>>, "between")
    BY <2>1, <2>2, <2>3, SMT DEF Ahead
  <2>5. 0 \in 0 .. n
    BY SMT
  <2>6. QED
    BY <2>4, <2>5
<1>5. ASSUME NEW k \in 1 .. n, k - 1 \in G
      PROVE  k \in G
  <2>1. PICK words, at : Fit(k - 1, words, at)
    BY <1>5
  <2>2. f[k] = Scan(St(words, at), line[k])
    BY <1>3, <2>1 DEF Reading
  <2>3. PICK w, a : /\ Scan(St(words, at), line[k]) = St(w, a) /\ Started(w, a)
                    /\ SizeOf(words) \in Nat /\ SizeOf(w) \in Nat
                    /\ SizeOf(w) - Ahead(a) <= SizeOf(words) - Ahead(at) + 1
    BY <1>2, <2>1, ScanFits
  <2>4. SizeOf(w) - Ahead(a) <= k
    BY <2>1, <2>3, SMT DEF Ahead
  <2>5. k \in 0 .. n
    BY SMT
  <2>6. QED
    BY <2>2, <2>3, <2>4, <2>5
<1>6. n \in G
  <2> HIDE DEF G
  <2>1. \A k \in 0 .. n : k \in G
    BY <1>4, <1>5, Induction
  <2>2. QED
    BY <2>1, SMT
<1>7. PICK w, a : Fit(n, w, a)
  BY <1>6
<1>8. Words(line) = w
  BY <1>3, <1>7 DEF Words, St
<1>9. SizeOf(w) <= n + 1
  BY <1>7, SMT DEF Ahead
<1>10. QED
  BY <1>1, <1>8, <1>9 DEF WordsSize, BufferSize

----------------------------------------------------------------------------
\* The arguments, from one program to the next.

\* A longer part of a sequence.
LEMMA PartAppend ==
  ASSUME NEW S, NEW w \in Seq(S), NEW v \in Seq(S), NEW n \in Nat, n = Len(v), NEW i \in 1 .. n
  PROVE  /\ SubSeq(v, 1, i - 1) \in Seq(S) /\ SubSeq(v, 1, i) \in Seq(S)
         /\ SubSeq(v, 1, i) = Append(SubSeq(v, 1, i - 1), v[i])
         /\ w \o SubSeq(v, 1, i) = Append(w \o SubSeq(v, 1, i - 1), v[i])
         /\ w \o SubSeq(v, 1, i - 1) \in Seq(S)
<1>1. v[i] \in S
  BY ElementOfSeq
<1>2. SubSeq(v, 1, i - 1) \in Seq(S) /\ SubSeq(v, 1, i) \in Seq(S)
  <2>1. \A k \in 1 .. n : v[k] \in S
    BY ElementOfSeq
  <2>2. /\ 1 \in Int /\ i \in Int /\ i - 1 \in Int
        /\ \A k \in 1 .. i : k \in 1 .. n
        /\ \A k \in 1 .. i - 1 : k \in 1 .. n
    BY SMT
  <2>3. /\ \A k \in 1 .. i : v[k] \in S
        /\ \A k \in 1 .. i - 1 : v[k] \in S
    BY <2>1, <2>2
  <2>4. SubSeq(v, 1, i) \in Seq(S)
    BY <2>2, <2>3, SubSeqProperties
  <2>5. PICK m \in Int : m = i - 1
    BY <2>2
  <2>6. SubSeq(v, 1, m) \in Seq(S)
    BY <2>2, <2>3, <2>5, SubSeqProperties
  <2>7. QED
    BY <2>4, <2>5, <2>6
<1>3. SubSeq(v, 1, i) = SubSeq(v, 1, i - 1) \o <<v[i]>>
  <2>1. 1 \in 1 .. Len(v) /\ i \in 1 .. Len(v)
    BY SMT
  <2>2. QED
    BY <2>1, SubSeqRecursiveSecond
<1>4. PICK s \in Seq(S) : s = SubSeq(v, 1, i - 1)
  BY <1>2
<1>5. PICK e \in S : e = v[i]
  BY <1>1
<1>6. s \o <<e>> = Append(s, e) /\ w \o s \in Seq(S)
  BY AppendIsConcat, ConcatProperties
<1>7. (w \o s) \o <<e>> = Append(w \o s, e)
  BY <1>6, AppendIsConcat
<1>8. PICK t \in Seq(S) : t = <<e>>
  <2>1. <<e>> \in Seq(S)
    OBVIOUS
  <2>2. QED
    BY <2>1
<1>9. (w \o s) \o <<e>> = w \o (s \o <<e>>)
  <2>1. (w \o s) \o t = w \o (s \o t)
    BY ONLY w \in Seq(S), s \in Seq(S), t \in Seq(S), ConcatAssociative
  <2>2. QED
    BY <1>8, <2>1
<1>10. QED
  BY <1>2, <1>3, <1>4, <1>5, <1>6, <1>7, <1>9

LEMMA ReadBare ==
  ASSUME NEW words \in Seq(String), NEW s \in String, Bare(s)
  PROVE  Read(St(words, "between"), s) = St(Append(words, s), "word")
<1>1. PICK n \in Nat : n = Len(s) /\ n # 0 /\ DOMAIN s = 1 .. n
  BY LenProperties, EmptySeq DEF String, Bare
<1>2. PICK f : Reading(f, St(words, "between"), s, n) /\ Read(St(words, "between"), s) = f[n]
  BY <1>1, ReadIs
<1> DEFINE G == {k \in 0 .. n : k = 0 \/ f[k] = St(Append(words, SubSeq(s, 1, k)), "word")}
<1>3. 0 \in G
  BY SMT
<1>4. ASSUME NEW k \in 1 .. n, k - 1 \in G
      PROVE  k \in G
  <2>1. k \in 0 .. n /\ s[k] \in Char /\ ~Blank(s[k])
    <3>1. k \in 0 .. n
      BY SMT
    <3>2. QED
      BY <1>1, <3>1, ElementOfSeq DEF String, Bare
  <2>2. f[k] = Scan(f[k - 1], s[k])
    BY <1>2 DEF Reading
  <2>3. /\ SubSeq(s, 1, k - 1) \in String
        /\ SubSeq(s, 1, k) = Append(SubSeq(s, 1, k - 1), s[k])
    <3>1. s \in Seq(Char)
      BY DEF String
    <3>2. QED
      BY <1>1, <3>1, PartAppend DEF String
  <2>4. CASE k = 1
    <3>1. f[0] = St(words, "between")
      BY <1>2 DEF Reading
    <3>2. k - 1 = 0 /\ ~Blank(s[1]) /\ s[1] # "\""
      <4>1. k - 1 = 0
        BY <2>4, SMT
      <4>2. ~Blank(s[1])
        BY <2>1, <2>4
      <4>3. s[1] # "\""
        BY DEF Bare
      <4>4. QED
        BY <4>1, <4>2, <4>3
    <3>3. f[k] = Scan(St(words, "between"), s[1])
      BY <2>2, <2>4, <3>1, <3>2
    <3>4. Scan(St(words, "between"), s[1]) = St(Append(words, <<s[1]>>), "word")
      BY <3>2, ScanIs
    <3>5. SubSeq(s, 1, 0) = <<>>
      BY SubSeqEmpty
    <3>6. Append(<<>>, s[1]) = <<s[1]>>
      OBVIOUS
    <3>7. SubSeq(s, 1, k) = <<s[1]>>
      BY <2>3, <2>4, <3>2, <3>5, <3>6
    <3>8. QED
      BY <2>1, <3>3, <3>4, <3>7
  <2>5. CASE k # 1
    <3>1. PICK w \in String : w = SubSeq(s, 1, k - 1)
      BY <2>3
    <3>2. k - 1 # 0
      BY <2>5, SMT
    <3>3. f[k - 1] = St(Append(words, w), "word")
      BY <1>4, <3>1, <3>2
    <3>4. Scan(St(Append(words, w), "word"), s[k]) = St(Extended(Append(words, w), s[k]), "word")
      BY <2>1, ScanIs
    <3>5. Extended(Append(words, w), s[k]) = Append(words, Append(w, s[k]))
      BY <2>1, ExtendedAppend
    <3>6. QED
      BY <2>1, <2>2, <2>3, <3>1, <3>3, <3>4, <3>5
  <2>6. QED
    BY <2>4, <2>5
<1>5. n \in G
  <2> HIDE DEF G
  <2>1. \A k \in 0 .. n : k \in G
    BY <1>3, <1>4, Induction
  <2>2. QED
    BY <2>1, SMT
<1>6. SubSeq(s, 1, n) = s
  BY <1>1, SubSeqFull DEF String
<1>7. QED
  BY <1>1, <1>2, <1>5, <1>6

\* One character between quotes, as build_arg_string() writes it.
LEMMA ReadEscaped ==
  ASSUME NEW words \in Seq(String), NEW w \in String, NEW c \in Char, c # "\n"
  PROVE  Read(St(Append(words, w), "quoted"), Escaped(c)) =
           St(Append(words, Append(w, c)), "quoted")
<1>1. Extended(Append(words, w), c) = Append(words, Append(w, c))
  BY ExtendedAppend
<1>2. PICK v : v = Append(words, w)
  OBVIOUS
<1>3. CASE c \in {"\"", "*"}
  <2>1. Escaped(c) = <<"*", c>>
    BY <1>3 DEF Escaped
  <2>2. "*" \in Char
    BY DEF Char
  <2>3. PICK s \in String, t \in String : s = <<"*">> /\ t = <<c>>
    BY <2>2, ShortStrings
  <2>4. <<"*", c>> = s \o t
    BY <2>3
  <2>5. Read(St(v, "quoted"), s \o t) = Read(Read(St(v, "quoted"), s), t)
    BY ReadConcat
  <2>6. Read(St(v, "quoted"), s) = St(v, "escaped")
    <3>1. Read(St(v, "quoted"), <<"*">>) = Scan(St(v, "quoted"), "*")
      BY ReadOne
    <3>2. Scan(St(v, "quoted"), "*") = St(v, "escaped")
      BY ScanIs
    <3>3. QED
      BY <2>3, <3>1, <3>2
  <2>7. Read(St(v, "escaped"), t) = St(Extended(v, c), "quoted")
    <3>1. Read(St(v, "escaped"), <<c>>) = Scan(St(v, "escaped"), c)
      BY ReadOne
    <3>2. QED
      BY <2>3, <3>1, ScanIs
  <2>8. QED
    BY <1>1, <1>2, <2>1, <2>4, <2>5, <2>6, <2>7
<1>4. CASE c \notin {"\"", "*"}
  <2>1. Escaped(c) = <<c>>
    BY <1>4 DEF Escaped
  <2>2. Read(St(v, "quoted"), <<c>>) = Scan(St(v, "quoted"), c)
    BY ReadOne
  <2>3. Scan(St(v, "quoted"), c) = St(Extended(v, c), "quoted")
    BY <1>4, ScanIs
  <2>4. QED
    BY <1>1, <1>2, <2>1, <2>2, <2>3
<1>5. QED
  BY <1>3, <1>4

\* An argument that has to be quoted.
LEMMA ReadQuoted ==
  ASSUME NEW words \in Seq(String), NEW arg \in String, IsQuoted(arg),
         \A k \in DOMAIN arg : arg[k] # "\n"
  PROVE  Read(St(words, "between"), Written(arg)) = St(Append(words, arg), "between")
<1> DEFINE NoFeed == \A k \in DOMAIN arg : arg[k] # "\n"
<1>1. NoFeed
  OBVIOUS
<1> HIDE DEF NoFeed
<1>2. PICK n \in Nat : n = Len(arg) /\ DOMAIN arg = 1 .. n
  BY LenProperties DEF String
<1>3. PICK f : /\ EscapedUpTo(arg, f, n)
               /\ FlattenSeq([i \in DOMAIN arg |-> Escaped(arg[i])]) = f[n]
  BY <1>2, EscapedIs
<1>4. <<>> \in String /\ <<"\"">> \in String
  <2>1. "\"" \in Char
    BY DEF Char
  <2>2. QED
    BY <2>1, ShortStrings, EmptySeq DEF String
<1>5. PICK q \in String : q = <<"\"">>
  BY <1>4
<1>6. n \in 0 .. n /\ f[n] \in String
  <2>1. n \in 0 .. n
    BY SMT
  <2>2. QED
    BY <1>3, <2>1 DEF EscapedUpTo
<1>7. PICK start : start = St(Append(words, <<>>), "quoted")
  OBVIOUS
<1>8. Read(St(words, "between"), q) = start
  <2>1. Read(St(words, "between"), <<"\"">>) = Scan(St(words, "between"), "\"")
    BY ReadOne
  <2>2. Scan(St(words, "between"), "\"") = start
    BY <1>7, ScanIs
  <2>3. QED
    BY <1>5, <2>1, <2>2
<1>9. Read(start, f[n]) = St(Append(words, arg), "quoted")
  <2> DEFINE Part(k) == SubSeq(arg, 1, k)
             G == {k \in 0 .. n : Read(start, f[k]) = St(Append(words, Part(k)), "quoted")}
  <2>1. 0 \in G
    <3>1. 0 \in 0 .. n /\ f[0] = <<>>
      BY <1>3, SMT DEF EscapedUpTo
    <3>2. Part(0) = <<>>
      BY SubSeqEmpty
    <3>3. Read(start, <<>>) = start
      BY ReadEmpty
    <3>4. QED
      BY <1>7, <3>1, <3>2, <3>3
  <2>2. ASSUME NEW k \in 1 .. n, k - 1 \in G
        PROVE  k \in G
    <3>1. k \in 0 .. n /\ k - 1 \in 0 .. n
      BY SMT
    <3>2. arg[k] \in Char /\ arg[k] # "\n"
      BY <1>1, <1>2, ElementOfSeq DEF String, NoFeed
    <3>3. Part(k - 1) \in String /\ Part(k) = Append(Part(k - 1), arg[k])
      <4>1. arg \in Seq(Char)
        BY DEF String
      <4>2. QED
        BY <1>2, <4>1, PartAppend DEF String
    <3>4. PICK w \in String : w = Part(k - 1)
      BY <3>3
    <3>5. PICK s \in String, e \in String : s = f[k - 1] /\ e = Escaped(arg[k]) /\ f[k] = s \o e
      <4>1. f[k] = f[k - 1] \o Escaped(arg[k]) /\ f[k - 1] \in String
        BY <1>3, <3>1 DEF EscapedUpTo
      <4>2. Escaped(arg[k]) \in String
        BY <3>2, EscapedChar
      <4>3. QED
        BY <4>1, <4>2
    <3>6. Read(start, s \o e) = Read(Read(start, s), e)
      BY ReadConcat
    <3>7. Read(start, s) = St(Append(words, w), "quoted")
      BY <2>2, <3>4, <3>5
    <3>8. Read(St(Append(words, w), "quoted"), e) = St(Append(words, Append(w, arg[k])), "quoted")
      BY <3>2, <3>5, ReadEscaped
    <3>9. Read(start, f[k]) = St(Append(words, Part(k)), "quoted")
      BY <3>3, <3>4, <3>5, <3>6, <3>7, <3>8
    <3>10. QED
      BY <3>1, <3>9
  <2>3. n \in G
    <3> HIDE DEF G
    <3>1. \A k \in 0 .. n : k \in G
      BY <2>1, <2>2, Induction
    <3>2. QED
      BY <1>6, <3>1
  <2>4. Part(n) = arg
    BY <1>2, SubSeqFull DEF String
  <2>5. QED
    BY <2>3, <2>4
<1>10. PICK body \in String : body = f[n]
  BY <1>6
<1>11. Written(arg) = (q \o body) \o q
  BY <1>3, <1>5, <1>10 DEF Written
<1>12. q \o body \in String
  BY ConcatProperties DEF String
<1>13. Read(St(words, "between"), q \o body) = St(Append(words, arg), "quoted")
  <2>1. Read(St(words, "between"), q \o body) = Read(Read(St(words, "between"), q), body)
    BY ReadConcat
  <2>2. QED
    BY <1>8, <1>9, <1>10, <2>1
<1>14. Read(St(Append(words, arg), "quoted"), q) = St(Append(words, arg), "between")
  <2>1. PICK v : v = Append(words, arg)
    OBVIOUS
  <2>2. Read(St(v, "quoted"), <<"\"">>) = Scan(St(v, "quoted"), "\"")
    BY ReadOne
  <2>3. Scan(St(v, "quoted"), "\"") = St(v, "between")
    BY ScanIs
  <2>4. QED
    BY <1>5, <2>1, <2>2, <2>3
<1>15. Read(St(words, "between"), (q \o body) \o q) = Read(Read(St(words, "between"), q \o body), q)
  BY <1>12, ReadConcat
<1>16. QED
  BY <1>11, <1>13, <1>14, <1>15

\* An argument that has not: a star in it, or a blank that only AmigaDOS knows, is a character
\* like others.
LEMMA ReadWritten ==
  ASSUME NEW words \in Seq(String), NEW arg \in String, arg # <<>>, arg[1] # "\"",
         \A k \in DOMAIN arg : arg[k] # "\n"
  PROVE  \E at \in {"between", "word"} :
           Read(St(words, "between"), Written(arg)) = St(Append(words, arg), at)
<1>1. CASE IsQuoted(arg)
  BY <1>1, ReadQuoted
<1>2. CASE ~IsQuoted(arg)
  <2>1. ~NeedsQuoting(arg)
    BY <1>2 DEF IsQuoted
  <2>2. Bare(arg)
    BY <2>1 DEF Bare, NeedsQuoting
  <2>3. Written(arg) = arg
    BY <1>2 DEF Written
  <2>4. Read(St(words, "between"), arg) = St(Append(words, arg), "word")
    BY <2>2, ReadBare
  <2>5. QED
    BY <2>3, <2>4
<1>3. QED
  BY <1>1, <1>2

LEMMA ReadBlank ==
  ASSUME NEW words, NEW at \in {"between", "word"}, NEW c, Blank(c)
  PROVE  Read(St(words, at), <<c>>) = St(words, "between")
<1>1. Read(St(words, at), <<c>>) = Scan(St(words, at), c)
  BY ReadOne
<1>2. CASE at = "between"
  BY <1>1, <1>2, ScanIs
<1>3. CASE at = "word"
  BY <1>1, <1>3, ScanIs
<1>4. QED
  BY <1>2, <1>3

LEMMA PlainOne ==
  ASSUME NEW argv, Plain(argv), NEW i \in DOMAIN argv
  PROVE  argv[i] # <<>> /\ argv[i][1] # "\"" /\ \A k \in DOMAIN argv[i] : argv[i][k] # "\n"
BY DEF Plain

LEMMA ReadArguments ==
  ASSUME NEW words \in Seq(String), NEW argv \in Seq(String), Plain(argv)
  PROVE  \E at \in {"between", "word"} :
           Read(St(words, "between"), ArgString(argv)) = St(words \o argv, at)
<1>1. PICK n \in Nat : n = Len(argv) /\ DOMAIN argv = 1 .. n
  BY LenProperties
<1>2. PICK f : Building(f, argv, n) /\ ArgString(argv) = f[n]
  BY <1>1, BuildingIs
<1> DEFINE Upto(i) == words \o SubSeq(argv, 1, i)
           Through(i) == \E at \in {"between", "word"} :
                        Read(St(words, "between"), f[i]) = St(Upto(i), at)
           G == {i \in 0 .. n : Through(i)}
<1>3. 0 \in G
  <2>1. 0 \in 0 .. n /\ f[0] = <<>>
    <3>1. 0 \in 0 .. n
      BY SMT
    <3>2. QED
      BY <1>2, <3>1 DEF Building
  <2>2. SubSeq(argv, 1, 0) = <<>> /\ words \o <<>> = words
    BY SubSeqEmpty, ConcatEmptySeq
  <2>3. Read(St(words, "between"), <<>>) = St(words, "between")
    BY ReadEmpty
  <2>4. QED
    BY <2>1, <2>2, <2>3
<1>4. ASSUME NEW i \in 1 .. n, i - 1 \in G
      PROVE  i \in G
  <2>1. i \in 0 .. n /\ i - 1 \in 0 .. n
    BY SMT
  <2>2. PICK at \in {"between", "word"} :
          Read(St(words, "between"), f[i - 1]) = St(Upto(i - 1), at)
    BY <1>4
  <2>3. PICK arg \in String : arg = argv[i]
    BY <1>1, ElementOfSeq
  <2>4. arg # <<>> /\ arg[1] # "\"" /\ \A k \in DOMAIN arg : arg[k] # "\n"
    BY <1>1, <2>3, PlainOne
  <2>5. PICK s \in String : s = f[i - 1]
    BY <1>2, <2>1 DEF Building
  <2>6. PICK w \in Seq(String) : w = Upto(i - 1)
    BY <1>1, PartAppend
  <2>7. Upto(i) = Append(w, arg)
    <3>1. words \o SubSeq(argv, 1, i) = Append(words \o SubSeq(argv, 1, i - 1), argv[i])
      BY ONLY words \in Seq(String), argv \in Seq(String), n \in Nat, <1>1, i \in 1 .. n,
              PartAppend, SMTT(30)
    <3>2. QED
      BY <2>3, <2>6, <3>1
  <2>8. PICK a \in {"between", "word"} :
          Read(St(w, "between"), Written(arg)) = St(Append(w, arg), a)
    BY <2>4, ReadWritten
  <2>9. PICK e \in String : e = Written(arg)
    BY WrittenLength
  <2>10. f[i] = s \o (IF s = <<>> THEN <<>> ELSE <<" ">>) \o e
    BY <1>2, <2>3, <2>4, <2>5, <2>9 DEF Building
  <2>11. CASE s = <<>>
    <3>1. f[i] = e
      BY <2>10, <2>11, ConcatEmptySeq DEF String
    <3>2. Read(St(words, "between"), s) = St(words, "between")
      BY <2>11, ReadEmpty
    <3>3. St(words, "between") = St(w, at)
      BY <2>2, <2>5, <2>6, <3>2
    <3>4. St(words, "between") = St(w, "between")
      BY <3>3 DEF St
    <3>5. Read(St(words, "between"), f[i]) = St(Upto(i), a)
      BY <2>7, <2>8, <2>9, <3>1, <3>4
    <3>6. QED
      BY <2>1, <3>5
  <2>12. CASE s # <<>>
    <3>1. PICK b \in String : b = <<" ">>
      <4>1. " " \in Char
        BY DEF Char
      <4>2. QED
        BY <4>1, ShortStrings
    <3>2. PICK sb \in String : sb = s \o b
      BY ConcatProperties DEF String
    <3>3. f[i] = sb \o e
      BY <2>10, <2>12, <3>1, <3>2
    <3>4. Read(St(words, "between"), sb) = St(w, "between")
      <4>1. Read(St(words, "between"), s \o b) = Read(Read(St(words, "between"), s), b)
        BY ReadConcat
      <4>2. Read(St(words, "between"), s) = St(w, at)
        BY <2>2, <2>5, <2>6
      <4>3. Read(St(w, at), <<" ">>) = St(w, "between")
        <5>1. Blank(" ")
          BY DEF Blank
        <5>2. QED
          BY <5>1, ReadBlank
      <4>4. QED
        BY <3>1, <3>2, <4>1, <4>2, <4>3
    <3>5. Read(St(words, "between"), sb \o e) = Read(Read(St(words, "between"), sb), e)
      BY ReadConcat
    <3>6. Read(St(words, "between"), f[i]) = St(Upto(i), a)
      BY <2>7, <2>8, <2>9, <3>3, <3>4, <3>5
    <3>7. QED
      BY <2>1, <3>6
  <2>13. QED
    BY <2>11, <2>12
<1>5. Through(n)
  <2> HIDE DEF G
  <2>1. \A i \in 0 .. n : i \in G
    BY <1>3, <1>4, Induction
  <2>2. n \in 0 .. n
    BY SMT
  <2>3. n \in G
    BY <2>1, <2>2
  <2>4. QED
    BY <2>3 DEF G
<1>6. SubSeq(argv, 1, n) = argv
  BY <1>1, SubSeqFull
<1>7. QED
  BY <1>2, <1>5, <1>6

\* The line of a command, or of a script whose name is a word, and of no other arguments of
\* the interpreter.
LEMMA LineArrives ==
  ASSUME NEW script \in String, script = <<>> \/ Bare(script),
         NEW argv \in Seq(String), Plain(argv)
  PROVE  Words(Line(script, <<>>, argv)) = (IF script = <<>> THEN <<>> ELSE <<script>>) \o argv
<1> DEFINE words == IF script = <<>> THEN <<>> ELSE <<script>>
<1>1. PICK w \in Seq(String) : w = words
  <2>1. <<>> \in Seq(String) /\ <<script>> \in Seq(String)
    BY EmptySeq
  <2>2. QED
    BY <2>1
<1>2. Prefix(script, <<>>) = Terminated(script)
  <2>1. Prefix(script, <<>>) = <<>> \o Terminated(script)
    BY DEF Prefix, Terminated
  <2>2. Terminated(script) \in Seq(Char)
    BY PrefixParts DEF String
  <2>3. QED
    BY <2>1, <2>2, ConcatEmptySeq
<1>3. PICK p \in String : p = Prefix(script, <<>>)
  BY <1>2, PrefixParts
<1>4. Unread = St(<<>>, "between")
  BY DEF Unread, St
<1>5. Read(Unread, p) = St(w, "between")
  <2>1. CASE script = <<>>
    <3>1. p = <<>> /\ w = <<>>
      BY <1>1, <1>2, <1>3, <2>1 DEF Terminated
    <3>2. QED
      BY <1>4, <3>1, ReadEmpty
  <2>2. CASE script # <<>>
    <3>1. PICK b \in String : b = <<" ">>
      <4>1. " " \in Char
        BY DEF Char
      <4>2. QED
        BY <4>1, ShortStrings
    <3>2. p = script \o b
      <4>1. Append(script, " ") = script \o <<" ">>
        <5>1. " " \in Char
          BY DEF Char
        <5>2. QED
          BY <5>1, AppendIsConcat DEF String
      <4>2. p = Append(script, " ")
        BY <1>2, <1>3, <2>2 DEF Terminated
      <4>3. QED
        BY <3>1, <4>1, <4>2
    <3>3. PICK none \in Seq(String) : none = <<>>
      BY EmptySeq
    <3>4. Read(St(none, "between"), script) = St(Append(none, script), "word")
      BY <2>2, ReadBare
    <3>5. Append(none, script) = w
      BY <1>1, <2>2, <3>3
    <3>6. Read(Unread, script \o b) = Read(Read(Unread, script), b)
      BY ReadConcat
    <3>7. Read(St(w, "word"), <<" ">>) = St(w, "between")
      <4>1. Blank(" ")
        BY DEF Blank
      <4>2. QED
        BY <4>1, ReadBlank
    <3>8. QED
      BY <1>4, <3>1, <3>2, <3>3, <3>4, <3>5, <3>6, <3>7
  <2>3. QED
    BY <2>1, <2>2
<1>6. PICK s \in String : s = ArgString(argv)
  BY LengthIsLength
<1>7. PICK at \in {"between", "word"} : Read(St(w, "between"), s) = St(w \o argv, at)
  BY <1>6, ReadArguments
<1>8. PICK ps \in String : ps = p \o s
  BY ConcatProperties DEF String
<1>9. Read(Unread, ps) = St(w \o argv, at)
  <2>1. Read(Unread, p \o s) = Read(Read(Unread, p), s)
    BY ReadConcat
  <2>2. QED
    BY <1>5, <1>7, <1>8, <2>1
<1>10. PICK e \in String : e = <<"\n">>
  <2>1. "\n" \in Char
    BY DEF Char
  <2>2. QED
    BY <2>1, ShortStrings
<1>11. Line(script, <<>>, argv) = ps \o e
  <2>1. Append(ps, "\n") = ps \o <<"\n">>
    <3>1. "\n" \in Char
      BY DEF Char
    <3>2. QED
      BY <3>1, AppendIsConcat DEF String
  <2>2. QED
    BY <1>3, <1>6, <1>8, <1>10, <2>1 DEF Line
<1>12. Read(Unread, ps \o e) = Read(Read(Unread, ps), e)
  BY ReadConcat
<1>13. PICK v : v = w \o argv
  OBVIOUS
<1>14. Read(St(v, at), <<"\n">>) = St(v, "between")
  <2>1. Blank("\n")
    BY DEF Blank
  <2>2. QED
    BY <2>1, ReadBlank
<1>15. Read(Unread, Line(script, <<>>, argv)) = St(v, "between")
  BY <1>9, <1>10, <1>11, <1>12, <1>13, <1>14
<1>16. Words(Line(script, <<>>, argv)) = v
  BY <1>15 DEF Words, St
<1>17. QED
  BY <1>1, <1>13, <1>16

----------------------------------------------------------------------------
(* What a program runs.                                                    *)

LEMMA StringsAre ==
  /\ Seq(STRING) \subseteq String
  /\ Seq(Seq(STRING)) \subseteq Seq(String)
<1>1. \A s \in Seq(STRING) : s \in String
  BY SeqMonotonic DEF Char, String
<1>2. Seq(STRING) \subseteq String
  BY <1>1
<1>3. \A v \in Seq(Seq(STRING)) : v \in Seq(String)
  BY <1>2, SeqMonotonic
<1>4. QED
  BY <1>2, <1>3

LEMMA LineParts ==
  ASSUME Inv, NEW p \in Programs
  PROVE  /\ prog[p].line.script \in String
         /\ prog[p].line.options \in String
         /\ prog[p].line.argv \in Seq(String)
<1>1. PICK l \in Lines : l = prog[p].line
  BY DEF Inv, ProgramsOK, Program
<1>2. l.script \in {<<>>, Script} /\ l.options \in Options /\ l.argv \in Vectors
  BY DEF Lines
<1>3. <<>> \in String /\ Script \in String /\ Options \subseteq String /\ Vectors \subseteq Seq(String)
  BY StringsAre, StringAssumption, VectorAssumption, EmptySeq DEF String
<1>4. QED
  BY <1>1, <1>2, <1>3

\* For arguments of any number and length: the memory for the line (execve.c:720-806) is just
\* enough for what is written to it, and the words of any line fit in the buffer of the
\* program that reads them (__nocommandline.c:62-105).
THEOREM LineAlwaysFits == Spec => []LineFits
<1>1. ASSUME Inv, NEW p \in Programs
      PROVE  LET l == prog[p].line  line == Line(l.script, l.options, l.argv)
             IN /\ LineSize(l.script, l.options, l.argv) = Len(line) + 1
                /\ WordsSize(line) <= BufferSize(line)
  <2> DEFINE l == prog[p].line
  <2>1. l.script \in String /\ l.options \in String /\ l.argv \in Seq(String)
    BY <1>1, LineParts
  <2>2. PICK line \in String : line = Line(l.script, l.options, l.argv)
    BY <2>1, LineFitsMemory
  <2>3. LineSize(l.script, l.options, l.argv) = Len(line) + 1
    BY <2>1, <2>2, LineFitsMemory
  <2>4. WordsSize(line) <= BufferSize(line)
    BY WordsFitBuffer
  <2>5. QED
    BY <2>2, <2>3, <2>4
<1>2. Inv => LineFits
  BY <1>1 DEF LineFits
<1>3. QED
  BY <1>2, Invariant, PTL

\* For arguments of any number and length: those that build_arg_string() can write
\* (execve.c:633-685) are those of the program that is started (__nocommandline.c:65-114).
THEOREM ArgumentsDoArrive == Spec => []ArgumentsArrive
<1>1. ASSUME Inv, NEW p \in Programs, Plain(prog[p].line.argv), prog[p].line.options = <<>>,
             prog[p].line.script = <<>> \/ Bare(prog[p].line.script)
      PROVE  LET l == prog[p].line
             IN Words(Line(l.script, l.options, l.argv)) =
                  (IF l.script = <<>> THEN <<>> ELSE <<l.script>>) \o l.argv
  <2>1. PICK script \in String, argv \in Seq(String) :
          script = prog[p].line.script /\ argv = prog[p].line.argv
    BY <1>1, LineParts
  <2>2. Words(Line(script, <<>>, argv)) = (IF script = <<>> THEN <<>> ELSE <<script>>) \o argv
    BY <1>1, <2>1, LineArrives
  <2>3. QED
    BY <1>1, <2>1, <2>2
<1>2. Inv => ArgumentsArrive
  BY <1>1 DEF ArgumentsArrive
<1>3. QED
  BY <1>2, Invariant, PTL
=============================================================================
