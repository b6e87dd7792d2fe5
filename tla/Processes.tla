----------------------------- MODULE Processes -----------------------------
(***************************************************************************)
(* execve() (libgloss/execve.c) and the calls that end in it: execvp(),    *)
(* execl(), execlp(), execle().  Programs that do so share the list of     *)
(* resident commands with each other, with programs of which only that is  *)
(* modelled, and with the user, who adds and removes commands.  What       *)
(* execve() finds under a name, and which allocation fails, is any of what *)
(* can be.  dos.library is external.                                       *)
(***************************************************************************)
EXTENDS CommandLine, FiniteSets

CONSTANTS
  Programs,
  MaxOthers,       \* bound: users of the resident command in other programs
  MaxPrefixes,     \* bound: directories in the path
  MaxDirs,         \* bound: directories of an assign
  Script,          \* the name of a script, as it is passed on to its interpreter
  Options,         \* what can follow the name of the interpreter in a script, and <<>>
  Vectors          \* the arguments a program can be given, without the first

ASSUME BoundAssumption == MaxOthers \in Nat /\ MaxPrefixes \in Nat \ {0} /\ MaxDirs \in Nat \ {0}
ASSUME StringAssumption ==
  Script \in Seq(STRING) /\ Options \in SUBSET Seq(STRING) /\ <<>> \in Options
ASSUME VectorAssumption == Vectors \in SUBSET Seq(Seq(STRING)) /\ <<>> \in Vectors

VARIABLES
  prog,      \* each program
  listed,    \* the resident command is in the list
  uses,      \* its seg_UC
  others     \* how many other programs have it in a program_info

vars == <<prog, listed, uses, others>>

\* A name without a separator, with "/" only, with ":".
Kinds == {"name", "path", "volume"}

NoLine == [script |-> <<>>, options |-> <<>>, argv |-> <<>>]

Idle ==
  [pc      |-> "idle",
   search  |-> FALSE,              \* the call is execvp() or execlp()
   kind    |-> "name",             \* the name find_command() looks for
   level   |-> 1,                  \* 1 for the command, 2 for its interpreter
   info    |-> [l \in {1, 2} |-> {}],  \* what the program_infos refer to, of "block", "resident",
                                   \* "builtin" (of the shell, not counted), "segments",
                                   \* "home", "name", "interpreter" and "args"
   changed |-> {},                 \* what the process has other than at the call
   dvp     |-> "none",             \* the DevProc: none, of a volume, of an assign
   dirs    |-> 0,                  \* directories of the assign tried
   error   |-> FALSE,              \* the variable error is not 0
   scratch |-> {},                 \* memory of the calls themselves
   left    |-> 0,                  \* directories of the path not yet tried
   line    |-> NoLine]

Init ==
  /\ prog = [p \in Programs |-> Idle]
  /\ listed \in BOOLEAN
  /\ uses = 0 /\ others = 0

----------------------------------------------------------------------------
\* Steps of a program.

Becomes(p, state) == prog' = [prog EXCEPT ![p] = state]

At(p, pc) == prog[p].pc = pc

Info(p) == prog[p].info[prog[p].level]

\* The present program_info with more parts.
With(p, parts, pc) ==
  [prog[p] EXCEPT !.info[prog[p].level] = @ \cup parts, !.pc = pc]

\* A mutation of Freed: the command keeps its user.
FreedKeepsUser(p, levels) == uses' = uses

\* free_program_info(): a resident command has one user less.
Freed(p, levels) ==
  uses' = IF uses > 0 /\ \E l \in levels : "resident" \in prog[p].info[l] THEN uses - 1 ELSE uses

Without(state, levels) ==
  [state EXCEPT !.info = [l \in {1, 2} |-> IF l \in levels THEN {} ELSE state.info[l]]]

Shared == <<listed, uses, others>>

\* execve() and execvp() with a name of some kind.
Execv(p) ==
  /\ At(p, "idle")
  /\ \E search \in BOOLEAN, kind \in Kinds :
       Becomes(p, [Idle EXCEPT !.pc = "start", !.search = search, !.kind = kind])
  /\ UNCHANGED Shared

\* The arguments are given one by one; there is memory for argv, or there is not.
WithList(p, search) ==
  /\ At(p, "idle")
  /\ \/ \E kind \in Kinds :
          Becomes(p, [Idle EXCEPT !.pc = "start", !.search = search, !.kind = kind,
                                  !.scratch = {"argv"}])
     \/ Becomes(p, [Idle EXCEPT !.pc = "back"])
  /\ UNCHANGED Shared

\* execl() and execle()
Execl(p) == WithList(p, FALSE)

Execlp(p) == WithList(p, TRUE)

\* execvp() copies the path unless the name has a separator.  That a shorter path ends
\* earlier is one of the choices of NextPrefix.
Start(p) ==
  /\ At(p, "start")
  /\ IF prog[p].search /\ prog[p].kind = "name"
     THEN \/ Becomes(p, [prog[p] EXCEPT !.pc = "prefix", !.left = MaxPrefixes, !.search = FALSE,
                                        !.scratch = @ \cup {"path"}])
          \/ Becomes(p, [prog[p] EXCEPT !.pc = "back"])      \* no command, or no memory
     ELSE Becomes(p, [prog[p] EXCEPT !.pc = "find", !.search = FALSE])
  /\ UNCHANGED Shared

\* A mutation of Prefixed: the same directory again.
PrefixStays(p) ==
  \E kind \in {"path", "volume"} :
    Becomes(p, [prog[p] EXCEPT !.pc = "find", !.kind = kind, !.scratch = @ \cup {"buffer"}])

\* The next directory of the path, which may begin with a volume.
Prefixed(p) ==
  \E kind \in {"path", "volume"} :
    Becomes(p, [prog[p] EXCEPT !.pc = "find", !.kind = kind, !.left = @ - 1,
                               !.scratch = @ \cup {"buffer"}])

NextPrefix(p) ==
  /\ At(p, "prefix")
  /\ \/ prog[p].left > 0 /\ Prefixed(p)
     \/ Becomes(p, [prog[p] EXCEPT !.pc = "back"])      \* the last one, or no memory
  /\ UNCHANGED Shared

\* execve() has returned -1; the error tells whether execvp() goes on.
Retry(p) ==
  /\ At(p, "returned")
  /\ \E pc \in (IF "path" \in prog[p].scratch THEN {"prefix", "back"} ELSE {"back"}) :
       Becomes(p, [prog[p] EXCEPT !.pc = pc])
  /\ UNCHANGED Shared

\* The call returns and frees its memory.
Back(p) ==
  /\ At(p, "back")
  /\ Becomes(p, [prog[p] EXCEPT !.pc = "idle", !.left = 0, !.search = FALSE,
                                !.kind = "name", !.scratch = @ \ {"argv", "path", "buffer"}])
  /\ UNCHANGED Shared

----------------------------------------------------------------------------
\* find_command().  Its variable error has no initial value.

Find(p) ==
  /\ At(p, "find")
  /\ \E garbage \in BOOLEAN :
       LET begun == [prog[p] EXCEPT !.changed = @ \cup {"window"}, !.error = garbage, !.dirs = 0]
       IN \/ Becomes(p, [begun EXCEPT !.info[prog[p].level] = {"block"},
                                      !.pc = IF prog[p].kind = "name" THEN "resident" ELSE "device"])
          \/ Becomes(p, [begun EXCEPT !.pc = "notfound"])
  /\ UNCHANGED Shared

\* find_resident_command(), under Forbid(), and the copy of the name.
Resident(p) ==
  /\ At(p, "resident")
  /\ \/ /\ listed
        /\ uses' = uses + 1
        /\ \/ Becomes(p, With(p, {"resident", "name"}, "found"))
           \/ Becomes(p, With(p, {"resident"}, "notfound"))
     \/ /\ UNCHANGED uses
        /\ \/ Becomes(p, With(p, {"builtin", "name"}, "found"))
           \/ Becomes(p, With(p, {"builtin"}, "notfound"))
           \/ Becomes(p, [prog[p] EXCEPT !.pc = "device"])
  /\ UNCHANGED <<listed, others>>

\* GetDeviceProc() for a name with a volume, once for each directory of an assign.
Device(p) ==
  /\ At(p, "device")
  /\ IF prog[p].kind # "volume" THEN Becomes(p, [prog[p] EXCEPT !.pc = "load"])
     ELSE \/ Becomes(p, [prog[p] EXCEPT !.pc = "load", !.dvp = "none"])
          \/ /\ prog[p].dirs < MaxDirs
             /\ \E dvp \in {"volume", "assign"} :
                  Becomes(p, [prog[p] EXCEPT !.pc = "load", !.dvp = dvp, !.dirs = @ + 1,
                                             !.changed = @ \cup {"task", "dir"}])
  /\ UNCHANGED Shared

\* A part is allocated, or error is set.
Keeps(p, parts, pc) ==
  \/ Becomes(p, With(p, parts, pc))
  \/ Becomes(p, [prog[p] EXCEPT !.error = TRUE, !.pc = "tried"])

\* LoadSeg(), and the reason when it fails.
Load(p) ==
  /\ At(p, "load")
  /\ \/ Becomes(p, With(p, {"segments", "name"}, "home"))
     \/ Becomes(p, [With(p, {"segments"}, "tried") EXCEPT !.error = TRUE])
     \/ \E pc \in (IF prog[p].error THEN {"tried"} ELSE {"script", "bits"}) :
          Becomes(p, [prog[p] EXCEPT !.pc = pc])
  /\ UNCHANGED Shared

\* get_first_script_line(): ARexx, an interpreter with or without arguments, or neither.
\* Nothing is allocated for an empty file, and the NUL goes to address 0: nobody looks, or
\* anything happens (execve.c:213).
FirstLine(p) ==
  /\ At(p, "script")
  /\ \/ Keeps(p, {"interpreter"}, "home")
     \/ Keeps(p, {"args"}, "interpreter")
     \/ \E pc \in {"bits", "wild"} : Becomes(p, [prog[p] EXCEPT !.pc = pc])
  /\ UNCHANGED Shared

\* The arguments of the interpreter have been copied before its name.
Interpreter(p) ==
  /\ At(p, "interpreter")
  /\ Keeps(p, {"interpreter"}, "home")
  /\ UNCHANGED Shared

\* The script bit of the file.
ScriptBit(p) ==
  /\ At(p, "bits")
  /\ \/ Keeps(p, {"interpreter"}, "home")
     \/ Becomes(p, [prog[p] EXCEPT !.pc = "tried"])
  /\ UNCHANGED Shared

\* The directory of the file, for PROGDIR.
Home(p) ==
  /\ At(p, "home")
  /\ Keeps(p, {"home"}, "tried")
  /\ UNCHANGED Shared

\* find_command() returns: the window is set again, its variables are gone.
Leaves(state, pc) ==
  [state EXCEPT !.pc = pc, !.changed = @ \ {"window"}, !.kind = "name", !.dirs = 0, !.error = FALSE]

Done(p) == {"name", "interpreter"} \cap Info(p) # {}

Again(p) == ~Done(p) /\ ~prog[p].error /\ prog[p].dvp = "assign"

\* A mutation of Tried: the directory stays that of the command.
TriedStays(p) ==
  /\ At(p, "tried")
  /\ LET back == prog[p]
     IN IF Again(p) THEN Becomes(p, [back EXCEPT !.pc = "device"])
        ELSE Becomes(p, [back EXCEPT !.dvp = "none", !.changed = @ \ {"task"},
               !.pc = IF Done(p) /\ ~prog[p].error THEN "found" ELSE "notfound"])
  /\ UNCHANGED Shared

\* The end of the loop over the directories: CurrentDir(), then SetFileSysTask() and
\* FreeDeviceProc().
Tried(p) ==
  /\ At(p, "tried")
  /\ LET back == [prog[p] EXCEPT !.changed = IF prog[p].dvp = "none" THEN @ ELSE @ \ {"dir"}]
     IN IF Again(p) THEN Becomes(p, [back EXCEPT !.pc = "device"])
        ELSE Becomes(p, [back EXCEPT !.dvp = "none", !.changed = @ \ {"task"},
               !.pc = IF Done(p) /\ ~prog[p].error THEN "found" ELSE "notfound"])
  /\ UNCHANGED Shared

\* find_command() fails, and execve(), which frees the info of the script too.
NotFound(p) ==
  /\ At(p, "notfound")
  /\ Freed(p, {1, 2})
  /\ Becomes(p, [Leaves(Without(prog[p], {1, 2}), "returned") EXCEPT !.level = 1])
  /\ UNCHANGED <<listed, others>>

----------------------------------------------------------------------------
\* execve()

NeedsInterpreter(p) == "interpreter" \in Info(p)

\* A command that can be run.
FoundCommand(p) ==
  /\ At(p, "found") /\ prog[p].level = 1 /\ ~NeedsInterpreter(p)
  /\ Becomes(p, Leaves(prog[p], "memory"))
  /\ UNCHANGED Shared

\* A script: its interpreter has to be found.
FoundScript(p) ==
  /\ At(p, "found") /\ prog[p].level = 1 /\ NeedsInterpreter(p)
  /\ \E kind \in Kinds :
       Becomes(p, [Leaves(prog[p], "find") EXCEPT !.level = 2, !.kind = kind])
  /\ UNCHANGED Shared

\* A mutation of FoundInterpreter: it may be a script.
FoundAnyInterpreter(p) ==
  /\ At(p, "found") /\ prog[p].level = 2
  /\ Freed(p, {1})
  /\ Becomes(p, [Leaves(Without(prog[p], {1}), "memory") EXCEPT
                   !.info[2] = @ \cup ({"args"} \cap prog[p].info[1])])
  /\ UNCHANGED <<listed, others>>

\* The interpreter takes the place of the script, but for the arguments.
FoundInterpreter(p) ==
  /\ At(p, "found") /\ prog[p].level = 2 /\ ~NeedsInterpreter(p)
  /\ Freed(p, {1})
  /\ Becomes(p, [Leaves(Without(prog[p], {1}), "memory") EXCEPT
                   !.info[2] = @ \cup ({"args"} \cap prog[p].info[1])])
  /\ UNCHANGED <<listed, others>>

\* The interpreter of a script is not a script.
FoundTwoScripts(p) ==
  /\ At(p, "found") /\ prog[p].level = 2 /\ NeedsInterpreter(p)
  /\ Freed(p, {1, 2})
  /\ Becomes(p, [Leaves(Without(prog[p], {1, 2}), "returned") EXCEPT !.level = 1])
  /\ UNCHANGED <<listed, others>>

\* arg_string
Memory(p) ==
  /\ At(p, "memory")
  /\ \/ Becomes(p, [prog[p] EXCEPT !.pc = "run", !.scratch = @ \cup {"string"}])
     \/ Becomes(p, [prog[p] EXCEPT !.pc = "out"])
  /\ UNCHANGED Shared

\* The line for RunCommand(), and the name and the home of the program are set.
RunCommand(p) ==
  /\ At(p, "run")
  /\ \E argv \in Vectors, options \in Options :
       /\ options # <<>> <=> "args" \in Info(p)
       /\ Becomes(p, [prog[p] EXCEPT
            !.pc = "running", !.changed = @ \cup {"name", "home"},
            !.line = [script |-> IF prog[p].level = 2 THEN Script ELSE <<>>,
                      options |-> options, argv |-> argv]])
  /\ UNCHANGED Shared

\* RunCommand() has not run it, or it has returned -1, or something else.
CommandReturns(p) ==
  /\ At(p, "running")
  /\ \E pc \in {"out", "success"} :
       Becomes(p, [prog[p] EXCEPT !.pc = pc, !.changed = @ \ {"name", "home"}, !.line = NoLine])
  /\ UNCHANGED Shared

\* After a command that has run execve() does not return.
Out(p) ==
  /\ prog[p].pc \in {"out", "success"}
  /\ Freed(p, {1, 2})
  /\ Becomes(p, [Without(prog[p], {1, 2}) EXCEPT !.scratch = @ \ {"string"}, !.level = 1,
                   !.pc = IF At(p, "success") THEN "exited" ELSE "returned"])
  /\ UNCHANGED <<listed, others>>

----------------------------------------------------------------------------
\* The command "resident": an unused command is removed, or one is added.
UserResident ==
  /\ listed => uses = 0
  /\ listed' = ~listed
  /\ uses' = 0
  /\ UNCHANGED <<prog, others>>

\* Another program finds the command, and frees its program_info.
OtherFinds ==
  /\ listed /\ others < MaxOthers
  /\ uses' = uses + 1 /\ others' = others + 1
  /\ UNCHANGED <<prog, listed>>

OtherFrees ==
  /\ others > 0
  /\ uses' = (IF uses > 0 THEN uses - 1 ELSE uses) /\ others' = others - 1
  /\ UNCHANGED <<prog, listed>>

Calls(p) == Execv(p) \/ Execl(p) \/ Execlp(p)

Step(p) ==
  \/ Start(p) \/ NextPrefix(p) \/ Retry(p) \/ Back(p)
  \/ Find(p) \/ Resident(p) \/ Device(p) \/ Load(p) \/ FirstLine(p) \/ Interpreter(p)
  \/ ScriptBit(p) \/ Home(p) \/ Tried(p) \/ NotFound(p)
  \/ FoundCommand(p) \/ FoundScript(p) \/ FoundInterpreter(p) \/ FoundTwoScripts(p)
  \/ Memory(p) \/ RunCommand(p) \/ Out(p)

Next ==
  \/ UserResident \/ OtherFinds \/ OtherFrees
  \/ \E p \in Programs : Calls(p) \/ Step(p) \/ CommandReturns(p)

\* The calls go on; no command need ever return, and nobody need call.
Spec == Init /\ [][Next]_vars /\ \A p \in Programs : WF_vars(Step(p))
----------------------------------------------------------------------------
\* Whatever fails in execve() (execve.c:273-543, 701-851), the process is as it was when
\* the call returns or the program exits: window, file system, directory, name and home;
\* the program_infos are freed with all they refer to, and a call that returned has freed
\* its own memory.
AllRestored ==
  \A p \in Programs :
    /\ prog[p].pc \in {"idle", "prefix", "returned", "exited"} =>
         /\ prog[p].changed = {} /\ prog[p].dvp = "none"
         /\ prog[p].info = Idle.info /\ "string" \notin prog[p].scratch
    /\ At(p, "idle") => prog[p] = Idle

\* seg_UC is the number of program_infos with the resident command (execve.c:109-137,
\* 237-247), so the user can not remove it while somebody is about to run it.
UsersCounted ==
  /\ uses = others
       + Cardinality({u \in Programs \X {1, 2} : "resident" \in prog[u[1]].info[u[2]]})
  /\ uses > 0 => listed

\* What RunCommand() is given (execve.c:819) is loaded, and no script; the file system,
\* the directory and the window are those of the program again.
RunsLoaded ==
  \A p \in Programs :
    At(p, "running") =>
      /\ {"resident", "builtin", "segments"} \cap Info(p) # {}
      /\ "interpreter" \notin Info(p)
      /\ prog[p].changed = {"name", "home"}

\* The memory for the line (execve.c:720-806) is just enough for what build_arg_string()
\* writes and the NUL, whatever has to be quoted; in the other program the words and their
\* NULs fit in the buffer (__nocommandline.c:62-105), also those of a line with an open
\* quote or a star at its end.
LineFits ==
  \A p \in Programs :
    LET l == prog[p].line  line == Line(l.script, l.options, l.argv)
    IN At(p, "running") =>
         /\ LineSize(l.script, l.options, l.argv) = Len(line) + 1
         /\ WordsSize(line) <= BufferSize(line)

\* Arguments that build_arg_string() can write: not empty, no quote at the head, no line
\* feed (the reader takes its "*N" for "N").
Plain(argv) ==
  \A i \in DOMAIN argv :
    argv[i] # <<>> /\ argv[i][1] # "\"" /\ \A k \in DOMAIN argv[i] : argv[i][k] # "\n"

\* A name that is a word: execve() passes that of a script on as it is.
Bare(name) == name # <<>> /\ name[1] # "\"" /\ \A k \in DOMAIN name : ~Blank(name[k])

\* A program started by execve() has the arguments that were given (execve.c:633-685,
\* __nocommandline.c:65-114): quotes, blanks and stars in them come through.
ArgumentsArrive ==
  \A p \in Programs :
    LET l == prog[p].line
        simple == l.options = <<>> /\ (l.script = <<>> \/ Bare(l.script))
    IN At(p, "running") /\ Plain(l.argv) /\ simple =>
         Words(Line(l.script, l.options, l.argv)) =
           (IF l.script = <<>> THEN <<>> ELSE <<l.script>>) \o l.argv

\* A call comes to its end, or to a command, whatever the others do: the loops over the
\* path (execvp.c:179-230) and over the directories of an assign (execve.c:349-508) end, if
\* no empty file among the commands makes it run wild (execve.c:213).
CallsEnd ==
  \A p \in Programs : prog[p].pc # "idle" ~> prog[p].pc \in {"idle", "running", "exited", "wild"}
=============================================================================
