---------------------------- MODULE MCProcesses ----------------------------
(***************************************************************************)
(* Values of the constants of Processes for TLC.                           *)
(***************************************************************************)
EXTENDS Processes, TLC

\* What an argument can be made of, and a name with nothing special in it.
Chars == {"a", " ", "\"", "*", "\n", "nbsp"}
Name == <<"s">>

\* One argument of up to three characters; two, of which one is empty, needs a quote, or
\* neither.
ManyVectors ==
  {<<>>} \cup {<<a>> : a \in SeqOf(Chars, 3)}
    \cup {<<a, b>> : a \in {<<>>, <<"a">>, <<"a", " ">>}, b \in SeqOf(Chars, 1)}

\* None, one, and ones with a quote that is not closed.
SomeOptions == {<<>>, <<"a">>, <<"\"", "a">>, <<"a", " ", "\"", "*">>}
=============================================================================
