---------------------------- MODULE MC_UserReports ----------------------------
(***************************************************************************)
(* Two users on two pages and four transactions: two mails that go to     *)
(* both and are the second one's, one that goes to each alone.  The        *)
(* description of the first user's own is not UTF-8, the others are plain  *)
(* and long; amounts have nine digits.                                     *)
(***************************************************************************)
EXTENDS UserReports

CONSTANTS ana, bob

MCEmail == {ana, bob}
MCRegistered == {ana, bob}
MCPages == <<{ana}, {bob}>>
MCCandidates == <<<<ana, bob>>, <<ana, bob>>, <<ana>>, <<bob>>>>
MCDeadlines == {TRUE}
MCFaults == Kinds
PlainText == [runes |-> 30, width |-> 1, digits |-> 9]
RawText   == [runes |-> 30, width |-> 4, digits |-> 9]
MCTextOf  == <<PlainText, PlainText, RawText, PlainText>>
=============================================================================
