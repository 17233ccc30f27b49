----------------------------- MODULE MailRepeats -----------------------------
(***************************************************************************)
(* What a mishap between an entry and its archiving costs.  The next run   *)
(* finds the mail again and enters it again, and nothing in Run prevents   *)
(* that.  This module adds to MailSync a history variable, which no guard  *)
(* reads: how often a run was interrupted between the two.                 *)
(***************************************************************************)
EXTENDS MailSync

VARIABLE mishaps

repeatVars == <<vars, mishaps>>

RepeatInit == Init /\ mishaps = 0

(* The process dies with entries made and not archived. *)
DiesBetween == ~dryRun /\ pc \in {"register", "moveSuccess"} /\ ok # {}

(* The first move has taken mails out of the INBOX, and the numbers by which *)
(* the second names its mails are those of others, or of none.              *)
Renumbered == ~dryRun /\ \E h \in ok : h.id # SeqNum(h.msg)

(* The second move fails or misses, an answer is lost, or the process dies. *)
Mishap ==
  \/ ArchiveErrs
  \/ \E t \in trxs : RegisterLostAck(t)
  \/ Renumbered /\ ArchiveAll
  \/ DiesBetween /\ Crash

Smooth ==
  \/ Arrive \/ Tick \/ ForeignExpunge \/ Deadline \/ (~DiesBetween /\ Crash)
  \/ RunStarts
  \/ Configure \/ GetLastProcessedDate \/ MailSanityCheck \/ SetupError \/ Search
  \/ \E i \in pending : FetchOne(i) \/ FetchPanics(i) \/ FetchFail(i)
  \/ FetchDone \/ MoveParseFailed
  \/ \E t \in trxs : RegisterOk(t) \/ RegisterFail(t) \/ Abandon(t)
  \/ RegisterDone \/ (~Renumbered /\ ArchiveAll) \/ Save \/ Notify

RepeatNext ==
  \/ Mishap /\ mishaps' = mishaps + 1
  \/ Smooth /\ UNCHANGED mishaps

RepeatSpec == RepeatInit /\ [][RepeatNext]_repeatVars

-----------------------------------------------------------------------------
(* Properties. *)

(* A mail is entered once, and once more for each mishap at the most: one   *)
(* move that fails, whatever part of its mails it copied or removed, or     *)
(* that names others, one lost answer, one death of the process.  A run     *)
(* that ends in any other way leaves nothing in the INBOX that has an entry. *)
RepeatsHaveCause == \A m \in Msg : entries[m] <= 1 + mishaps
=============================================================================
