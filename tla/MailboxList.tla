----------------------------- MODULE MailboxList -----------------------------
(***************************************************************************)
(* mailSanityCheck (internal/sync/sync.go) and the GetAvailableMailboxes   *)
(* it calls (internal/services/mailserv/service.go): a goroutine runs IMAP *)
(* List, which sends the mailboxes one by one, closes that channel when it *)
(* ends and only then reports its error on a second channel.  The loop     *)
(* selects between the two channels and the context, so it may see the     *)
(* closed list before the error, drop the error, and leave the goroutine   *)
(* waiting for a receiver.                                                 *)
(***************************************************************************)
EXTENDS Integers, Sequences

CONSTANT ListMayFail

(* In the order of the check; the last two names come from the config. *)
Required == <<"INBOX", "ParseErrorMailbox", "SuccessMailbox">>
Name     == {Required[i] : i \in DOMAIN Required}

VARIABLES
  exists,     \* the mailboxes the server has
  lister,     \* the goroutine: "list", "report", "gone", or "left" behind
  unlisted,   \* what List has yet to send
  listErr,    \* List failed
  mailboxes,  \* what the loop has gathered
  ctxDone,
  verdict     \* of the check: a name is that of a missing mailbox

goroutine == <<lister, unlisted, listErr>>
vars == <<exists, goroutine, mailboxes, ctxDone, verdict>>

Init ==
  /\ exists \in SUBSET Name /\ unlisted = exists
  /\ lister = "list" /\ listErr = FALSE
  /\ mailboxes = {} /\ ctxDone = FALSE /\ verdict = "looking"

-----------------------------------------------------------------------------
Expire ==
  /\ ~ctxDone /\ ctxDone' = TRUE
  /\ UNCHANGED <<exists, goroutine, mailboxes, verdict>>

(* GetAvailableMailboxes returns; what the goroutine still has to say is    *)
(* heard by nobody.                                                         *)
Return(v) ==
  /\ verdict' = v
  /\ lister' = "left" /\ unlisted' = {} /\ mailboxes' = {}
  /\ listErr' = (listErr /\ v # "passed")
  /\ UNCHANGED <<exists, ctxDone>>

Missing == {i \in DOMAIN Required : Required[i] \notin mailboxes}

Check ==
  IF Missing = {} THEN "passed"
  ELSE Required[CHOOSE i \in Missing : \A j \in Missing : i <= j]

ListSends ==
  /\ lister = "list" /\ verdict = "looking"
  /\ \E n \in unlisted : unlisted' = unlisted \ {n} /\ mailboxes' = mailboxes \cup {n}
  /\ UNCHANGED <<exists, lister, listErr, ctxDone, verdict>>

ListEnds ==
  /\ lister = "list"
  /\ \/ unlisted = {} /\ UNCHANGED listErr
     \/ ListMayFail /\ listErr' = TRUE
  /\ lister' = "report"
  /\ UNCHANGED <<exists, unlisted, mailboxes, ctxDone, verdict>>

(* From here on the closed errCh gives nil as often as it is asked. *)
NoErrorSeen ==
  /\ lister = "report" /\ ~listErr /\ verdict = "looking"
  /\ lister' = "gone"
  /\ UNCHANGED <<exists, unlisted, listErr, mailboxes, ctxDone, verdict>>

ErrorSeen ==
  /\ lister = "report" /\ listErr /\ verdict = "looking"
  /\ Return("listError")

ClosedSeen ==
  /\ lister \in {"report", "gone"} /\ verdict = "looking"
  /\ Return(Check)

(* Mutant: the deadline ends the loop, and what is listed is the list. *)
ShortList == Check
ContextError == "cancelled"

DoneSeen ==
  /\ ctxDone /\ verdict = "looking"
  /\ Return(ContextError)

-----------------------------------------------------------------------------
Server == ListSends \/ ListEnds
Loop   == NoErrorSeen \/ ErrorSeen \/ ClosedSeen \/ DoneSeen
Next   == Server \/ Loop \/ Expire

Spec == Init /\ [][Next]_vars

(* The check says what is so: it passes only with all three mailboxes, and *)
(* "there is no ... mailbox" comes up only if that mailbox is missing or   *)
(* List failed, never because the loop was ended early.                    *)
VerdictIsTrue ==
  /\ verdict = "passed" => Name \subseteq exists
  /\ verdict \in Name => verdict \notin exists \/ listErr
=============================================================================
