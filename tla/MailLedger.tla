----------------------------- MODULE MailLedger -----------------------------
(***************************************************************************)
(* What the mail sync promises when nothing fails after the ledger has an  *)
(* entry: a bank mail that reaches the INBOX gets one entry, once, and only *)
(* mails with an entry are archived.  No run, no date, no sequence number. *)
(***************************************************************************)
EXTENDS Naturals

CONSTANT Mail

VARIABLES waiting, entered, archived

vars == <<waiting, entered, archived>>

Init == waiting = {} /\ entered = {} /\ archived = {}

Receive(m) ==
  /\ m \notin waiting \cup entered
  /\ waiting' = waiting \cup {m}
  /\ UNCHANGED <<entered, archived>>

Enter(m) ==
  /\ m \in waiting
  /\ waiting' = waiting \ {m}
  /\ entered' = entered \cup {m}
  /\ UNCHANGED archived

Archive(S) ==
  /\ S \subseteq entered
  /\ archived' = archived \cup S
  /\ UNCHANGED <<waiting, entered>>

Next ==
  \/ \E m \in Mail : Receive(m) \/ Enter(m)
  \/ \E S \in SUBSET Mail : Archive(S)

Spec == Init /\ [][Next]_vars

(* Every mail received is entered in the end. *)
Served == \A m \in Mail : (m \in waiting) ~> (m \in entered)
=============================================================================
