------------------------------ MODULE MCNames ------------------------------
(***************************************************************************)
(* Values of the constants of Names for TLC.                               *)
(***************************************************************************)
EXTENDS Names

\* Deep enough to go up twice.
Deep == <<"v", "d", "e">>

\* Every name of up to four parts.
Parts == {"", ".", "..", "a"}
ShortNames == SeqOf(Parts, 4) \ {<<>>}

\* All calls are made with all of these, and their sequences with one that is converted and
\* one that is not, from the time utimes() was given or, for one step, from the present.
Followed == IF pathconv THEN <<"a", "..">> ELSE <<"", "a", "">>
Focus    == did.call = "none" \/ (path = Followed /\ file.date \notin Dates)

\* A DIR, and one thing of each kind that is lost.
OneLost == [k \in Kinds |-> IF k = "lock" THEN 3 ELSE IF k = "memory" THEN 2
                            ELSE 1]

Plain == <<"b">>

SomeModes == {{"u:r", "u:x", "g:r"}}

\* A second that has all its parts.
SomeTimes == {[sec |-> Epoch + 93784, usec |-> 999999]}

\* A little before midnight.
SomeDates == {[days |-> 1, minute |-> 1439, tick |-> 2999]}
=============================================================================
