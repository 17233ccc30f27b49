----------------------------- MODULE MC_MailSync -----------------------------
(***************************************************************************)
(* The instances of MailSync that TLC checks: what may go wrong, and which *)
(* of the mails parse.                                                     *)
(***************************************************************************)
EXTENDS MailSync

OneParsable == {1}
TwoParsable == {1, 2}
NoMail == {}
SecondMail == {2}
FirstMail == {1}

(* The schedule's runs are real; whoever uses the command line may add dry ones. *)
DryOnly == {FALSE}
NoCommandLine == {}

(* Everything except what is known to lose a mail. *)
SafeFaults == {"moveFail", "saveFail", "readFail", "registerFail", "lostAck",
               "deadline", "setupError", "crash"}
(* Nothing that leaves an entered mail in the INBOX. *)
OnceFaults == {"saveFail", "readFail", "registerFail", "fetchLoss", "deadline",
               "setupError", "notifyFail"}
LiveFaults == {"registerFail", "saveFail", "notifyFail", "expungeIdle"}
FetchLossOnly == {"fetchLoss"}
ExpungeOnly == {"expunge"}
NoFaults == {}
=============================================================================
