----------------------------- MODULE Pathnames -----------------------------
(***************************************************************************)
(* __amigapath() (libgloss/__stdiowin.c): what it makes of a Unix name,    *)
(* and what the two kinds of name mean.  A name is the sequence of what    *)
(* stands between its slashes: "/a" is <<"", "a">>, "a/" is <<"a", "">>;   *)
(* what is before a colon is the volume.                                   *)
(***************************************************************************)
EXTENDS Integers, SequencesExt

CONSTANTS
  NoVolume,    \* the volume of a name without a colon
  Cwd          \* the current directory: its volume, and the directories down to it

ASSUME VolumeAssumption == NoVolume \notin STRING \cup {"SYS"} /\ Cwd \in Seq(STRING) \ {<<>>}

\* The name "SYS:", which stands for the root directory.
System == [volume |-> "SYS", parts |-> <<"">>]

Name(parts) == [volume |-> NoVolume, parts |-> parts]

----------------------------------------------------------------------------
(* The four passes.                                                        *)

\* Of several slashes one is left: a part is empty only at either end.
OneSlash(parts) ==
  LET kept[i \in 0 .. Len(parts)] ==
        IF i = 0 THEN <<>>
        ELSE IF i \in {1, Len(parts)} \/ parts[i] # "" THEN Append(kept[i - 1], parts[i])
        ELSE kept[i - 1]
  IN kept[Len(parts)]

Undotted(parts) ==
  LET others[i \in 0 .. Len(parts)] ==
        IF i = 0 THEN <<>>
        ELSE IF parts[i] # "." THEN Append(others[i - 1], parts[i])
        ELSE others[i - 1]
  IN others[Len(parts)]

\* "." goes with the slash that follows it, and leaves the one before it.
WithoutDots(parts) ==
  IF Last(parts) = "." THEN Append(Undotted(parts), "") ELSE Undotted(parts)

\* A mutation of UpAsEmpty: ".." at the end takes one slash, as in the middle.
UpAtEnd(parts) == [i \in 1 .. Len(parts) |-> IF parts[i] = ".." THEN "" ELSE parts[i]]

\* ".." becomes an empty part, which goes up on AmigaOS; at the end it takes two slashes.
UpAsEmpty(parts) ==
  [i \in 1 .. Len(parts) |-> IF parts[i] = ".." THEN "" ELSE parts[i]]
    \o (IF Last(parts) = ".." THEN <<"">> ELSE <<>>)

\* A slash at the beginning makes a volume of the first part; with nothing behind it,
\* it is the root directory.
Rooted(parts) ==
  IF Len(parts) = 1 \/ parts[1] # "" THEN Name(parts)
  ELSE IF parts[2] = "" THEN System
  ELSE [volume |-> parts[2],
        parts  |-> IF Len(parts) = 2 THEN <<"">> ELSE SubSeq(parts, 3, Len(parts))]

\* __amigapath().  A volume keeps the first part from being any of these.
Amigapath(name) ==
  LET passed == UpAsEmpty(WithoutDots(OneSlash(name.parts)))
  IN IF name.volume = NoVolume THEN Rooted(passed) ELSE [name EXCEPT !.parts = passed]

----------------------------------------------------------------------------
(* Meanings: the way down from the root, whose entries are the volumes.    *)

UnixStep(dir, part) ==
  IF part \in {"", "."} THEN dir
  ELSE IF part # ".." THEN Append(dir, part)
  ELSE IF dir = <<>> THEN dir ELSE Front(dir)

Absolute(parts) == Len(parts) > 1 /\ parts[1] = ""

\* Where each part leads.
UnixWalk(parts) ==
  LET dir[k \in 0 .. Len(parts)] ==
        IF k = 0 THEN IF Absolute(parts) THEN <<>> ELSE Cwd ELSE UnixStep(dir[k - 1], parts[k])
  IN dir

\* What a Unix program means.
UnixMeaning(parts) == UnixWalk(parts)[Len(parts)]

AmigaStep(dir, part) ==
  IF part # "" THEN Append(dir, part) ELSE IF Len(dir) > 1 THEN Front(dir) ELSE dir

AmigaWalk(from, parts) ==
  LET dir[k \in 0 .. Len(parts)] == IF k = 0 THEN from ELSE AmigaStep(dir[k - 1], parts[k])
  IN dir[Len(parts)]

\* What dos.library finds: the last part, if it is empty, does nothing.
AmigaMeaning(name) ==
  IF name = System THEN <<>>
  ELSE AmigaWalk(IF name.volume = NoVolume THEN Cwd ELSE <<name.volume>>,
                 IF Last(name.parts) = "" THEN Front(name.parts) ELSE name.parts)

\* A relative name that begins by going up.
StartsUp(parts) ==
  /\ ~Absolute(parts)
  /\ \E k \in 1 .. Len(parts) : parts[k] = ".." /\ \A i \in 1 .. k - 1 : parts[i] \in {"", "."}

\* A name that goes up from a volume, which AmigaOS can not.
LeavesVolume(parts) ==
  \E k \in 1 .. Len(parts) : parts[k] = ".." /\ Len(UnixWalk(parts)[k - 1]) <= 1
=============================================================================
