----------------------------- MODULE Attributes -----------------------------
(***************************************************************************)
(* The protection bits and the date of a file: what chmod() and utime()    *)
(* make of a mode and a time (libgloss/prot.c, utime.c), and what stat()   *)
(* makes of them again (__mystat() in __stdiowin.c).  Modes and protection *)
(* bits are sets of permissions.                                           *)
(***************************************************************************)
EXTENDS Integers

Own   == {"u:r", "u:w", "u:x"}
Rest  == {"g:r", "g:w", "g:x", "o:r", "o:w", "o:x"}
Bits  == Own \cup Rest

\* A mutation of Mode2Prot: every bit forbids.
Mode2ProtForbids(mode) == Bits \ mode

\* __mode2prot(): a bit that is set forbids the owner and allows the others.
Mode2Prot(mode) == (Own \ mode) \cup (Rest \cap mode)

\* __prot2mode(), and once more in __mystat().
Prot2Mode(prot) == (Own \ prot) \cup (Rest \cap prot)

----------------------------------------------------------------------------
SecsPerDay == 24 * 60 * 60

\* Seconds from 1970, where Unix begins, to 1978, where AmigaOS does.
Epoch == 2922 * SecsPerDay

TicksPerSecond == 50

\* Division in C: towards 0.
Quot(a, b) == IF a >= 0 THEN a \div b ELSE -((-a) \div b)
Remd(a, b) == a - b * Quot(a, b)

Timeval == [sec : Int, usec : Nat]

\* Microseconds of more than a second are carried.
Carried(t) ==
  IF t.usec > 1000000 THEN [sec |-> t.sec + t.usec \div 1000000, usec |-> t.usec % 1000000] ELSE t

\* A mutation of Datestamp: the days are those of Unix.
DatestampOfUnix(t) ==
  [days   |-> Quot(Carried(t).sec, SecsPerDay),
   minute |-> Quot(Remd(Carried(t).sec, SecsPerDay), 60),
   tick   |-> Remd(Remd(Carried(t).sec, SecsPerDay), 60) * TicksPerSecond
                + Carried(t).usec \div 20000]

\* The date utimes() sets.
Datestamp(t) ==
  LET c == Carried(t)
      s == c.sec - Epoch
  IN [days   |-> Quot(s, SecsPerDay),
      minute |-> Quot(Remd(s, SecsPerDay), 60),
      tick   |-> Remd(Remd(s, SecsPerDay), 60) * TicksPerSecond + c.usec \div 20000]

\* The time stat() and gettimeofday() make of a date.
UnixTime(d) == ((d.days + 2922) * 1440 + d.minute) * 60 + Quot(d.tick, TicksPerSecond)

\* A date that AmigaOS knows.
IsDate(d) == d.days >= 0 /\ d.minute \in 0 .. 1439 /\ d.tick \in 0 .. 60 * TicksPerSecond - 1
=============================================================================
