---------------------------- MODULE MC_MailRepeats ----------------------------
(***************************************************************************)
(* The instance of MailRepeats that TLC checks: every fault but another    *)
(* client's deletion during a run; a mail that parses between two that do  *)
(* not, so that the first move renumbers it, and a malformed one.          *)
(***************************************************************************)
EXTENDS MailRepeats

SecondMail == {2}
OuterMails == {1, 3}
FourthMail == {4}
DryOnly == {FALSE}
ParseFaults == FaultKinds \ {"expunge"}
=============================================================================
