------------------------------- MODULE Calendar -------------------------------
(***************************************************************************)
(* The dates the program writes, reads and compares: an instant is a       *)
(* number of seconds, a time is an instant seen in a zone, and what a      *)
(* search or a ledger is given of it is the calendar day there.  The       *)
(* stored date has minutes and no seconds.  Its two digits of a year are   *)
(* taken to mean the right century, as they do until 2068.                 *)
(***************************************************************************)
EXTENDS Integers

Minute == 60
Hour   == 3600
DayLen == 86400

Zone == (-50400)..50400   \* offset from UTC, in use whole minutes
Time == [at : Int, zone : Zone]

(* t.Format("2006-01-02") *)
DateOf(t) == (t.at + t.zone) \div DayLen

(* t.In(loc) *)
In(t, loc) == [at |-> t.at, zone |-> loc]

(* t.Format(time.RFC822Z), parsed again by the next run *)
Stored(t) == [at |-> Minute * (t.at \div Minute), zone |-> t.zone]

(* Mutant: no day of grace. *)
NoGrace == 0
OneDayBefore == DayLen

Since(stored) == [at |-> stored.at - OneDayBefore, zone |-> stored.zone]

(* SEARCH SINCE: the server compares the day on which it received a mail,  *)
(* in its own zone, with the day it is given; neither has a zone.          *)
Matches(since, received) == DateOf(received) >= DateOf(since)
=============================================================================
