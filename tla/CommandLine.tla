---------------------------- MODULE CommandLine ----------------------------
(***************************************************************************)
(* The command line, from one program to the next: execve()                *)
(* (libgloss/execve.c) makes it of arguments, __initcommandline()          *)
(* (libgloss/__nocommandline.c) makes arguments of it.  A string is the    *)
(* sequence of its characters, without the NUL.  "nbsp" is 0xA0, which     *)
(* AmigaDOS takes for a blank and __initcommandline() does not.            *)
(***************************************************************************)
EXTENDS Integers, FiniteSets, SequencesExt

Blank(c) == c \in {" ", "\t", "\n"}

----------------------------------------------------------------------------
\* execve.c: arguments to line.

\* string_needs_quoting(); the quote is needed for what ends a word, and for itself.
NeedsQuoting(arg) == \E i \in DOMAIN arg : Blank(arg[i]) \/ arg[i] \in {"\"", "nbsp"}

IsQuoted(arg) == arg[1] # "\"" /\ NeedsQuoting(arg)

\* A mutation of Extra: a star is not counted.
ExtraForgetsStar(arg) == Cardinality({i \in DOMAIN arg : arg[i] \in {"\"", "\n"}})

\* count_extra_escape_chars()
Extra(arg) == Cardinality({i \in DOMAIN arg : arg[i] \in {"\"", "*", "\n"}})

ArgLength(arg) == IF IsQuoted(arg) THEN Len(arg) + 1 + Extra(arg) + 1 ELSE Len(arg)

\* get_arg_string_length(), after each argument: an empty one does not count, a blank
\* stands between others.
LengthOf(argv) ==
  LET result[i \in 0 .. Len(argv)] ==
        IF i = 0 THEN 0
        ELSE IF argv[i] = <<>> THEN result[i - 1]
        ELSE IF result[i - 1] = 0 THEN ArgLength(argv[i])
        ELSE result[i - 1] + 1 + ArgLength(argv[i])
  IN result[Len(argv)]

\* A mutation of Escaped: a star stays alone.
EscapedQuotes(c) ==
  IF c = "\"" THEN <<"*", c>> ELSE IF c = "\n" THEN <<"*", "N">> ELSE <<c>>

Escaped(c) ==
  IF c \in {"\"", "*"} THEN <<"*", c>> ELSE IF c = "\n" THEN <<"*", "N">> ELSE <<c>>

Written(arg) ==
  IF IsQuoted(arg)
  THEN <<"\"">> \o FlattenSeq([i \in DOMAIN arg |-> Escaped(arg[i])]) \o <<"\"">>
  ELSE arg

\* build_arg_string(), after each argument; the first that is written has no blank before it.
ArgString(argv) ==
  LET string[i \in 0 .. Len(argv)] ==
        IF i = 0 THEN <<>>
        ELSE IF argv[i] = <<>> THEN string[i - 1]
        ELSE string[i - 1] \o (IF string[i - 1] = <<>> THEN <<>> ELSE <<" ">>) \o Written(argv[i])
  IN string[Len(argv)]

\* What precedes the arguments: those of the interpreter and the name of the script, each
\* with a blank after it; nothing when the command needs no interpreter.
Prefix(script, interpreterArgs) ==
  (IF interpreterArgs = <<>> THEN <<>> ELSE Append(interpreterArgs, " "))
    \o (IF script = <<>> THEN <<>> ELSE Append(script, " "))

\* The line RunCommand() is given, and the memory there is for it and its NUL.
Line(script, interpreterArgs, argv) ==
  Append(Prefix(script, interpreterArgs) \o ArgString(argv), "\n")

LineSize(script, interpreterArgs, argv) ==
  Len(Prefix(script, interpreterArgs)) + LengthOf(argv) + 1 + 1

----------------------------------------------------------------------------
\* __nocommandline.c: line to arguments.

\* Before the first character.
Unread == [words |-> <<>>, at |-> "between"]

Begun(st, word, at) == [words |-> Append(st.words, word), at |-> at]

Longer(st, c, at) ==
  [words |-> [st.words EXCEPT ![Len(st.words)] = Append(@, c)], at |-> at]

\* One character of the line.
Scan(st, c) ==
  CASE st.at = "between" -> IF Blank(c) THEN st
                            ELSE IF c = "\"" THEN Begun(st, <<>>, "quoted")
                            ELSE Begun(st, <<c>>, "word")
    [] st.at = "word"    -> IF Blank(c) THEN [st EXCEPT !.at = "between"] ELSE Longer(st, c, "word")
    [] st.at = "quoted"  -> IF c = "\"" THEN [st EXCEPT !.at = "between"]
                            ELSE IF c = "*" THEN [st EXCEPT !.at = "escaped"]
                            ELSE Longer(st, c, "quoted")
    [] st.at = "escaped" -> Longer(st, c, "quoted")

\* The characters of a string, from some state.
Read(st, string) ==
  LET read[k \in 0 .. Len(string)] == IF k = 0 THEN st ELSE Scan(read[k - 1], string[k])
  IN read[Len(string)]

\* argv of the program, without the name at its head.
Words(line) == Read(Unread, line).words

\* What words take in the buffer, each with its NUL.
SizeOf(words) ==
  LET size[n \in 0 .. Len(words)] == IF n = 0 THEN 0 ELSE size[n - 1] + Len(words[n]) + 1
  IN size[Len(words)]

WordsSize(line) == SizeOf(Words(line))

\* The buffer has one byte more than the line.
BufferSize(line) == Len(line) + 1
=============================================================================
