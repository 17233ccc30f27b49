----------------------------- MODULE UserReports -----------------------------
(***************************************************************************)
(* From the configuration of a user to the SMS in the user's hands: what   *)
(* Run collects of a real run's transactions (internal/sync/sync.go),      *)
(* notifyUsers and notifyUserWithSMS (internal/sync/notification.go), and  *)
(* the limit of SendMessage (internal/external/twilio).  The results come  *)
(* in the order in which the workers finish; of that order only the one    *)
(* among the results of one user shows, so they are kept user by user from *)
(* the start.  The users are told in the order in which Go ranges over a   *)
(* map.                                                                    *)
(*                                                                         *)
(* Of a text only its size in bytes matters: a description is a number of  *)
(* runes and the width of one when it is printed with %q (1 if plain, more *)
(* for other letters, 4 for a byte that is not UTF-8).                     *)
(***************************************************************************)
EXTENDS UserConfigCache, FiniteSets

CONSTANTS
  TextOf,     \* per transaction: [runes, width, digits of the amount]
  Limit       \* TwilioSMSRecommendedLimit

ASSUME ReportAssumption ==
  /\ TextOf \in [Worker -> [runes : Nat, width : Nat, digits : Nat]] /\ Limit \in Nat
  /\ Len(Candidates) < 1000  \* as far as Digits counts

VARIABLES
  settled,    \* workers whose result has reached Run
  registries, \* per user, the successful results as they came
  reports     \* per user told: the number, the transactions, what came of it

results   == <<settled, registries, reports>>
allVars   == <<vars, results>>

Plain(text) == text.width = 1

ReportInit == Init /\ settled = {} /\ registries = [e \in Email |-> <<>>] /\ reports = {}

-----------------------------------------------------------------------------
(* The transaction is registered, or refused for one of many reasons. *)

(* Mutant: results are grouped by the mail's first recipient. *)
FirstRecipient(r) == Candidates[r.trx][1]
Owner(r) == r.cfg.email

Succeed(w) ==
  /\ pc[w] = "found" /\ w \notin settled
  /\ settled' = settled \cup {w}
  /\ LET r == [trx |-> w, cfg |-> userCfg[w]]
     IN  registries' = [registries EXCEPT ![Owner(r)] = Append(@, r)]
  /\ UNCHANGED <<vars, reports>>

Fail(w) ==
  /\ pc[w] \in {"found", "notFound", "error"} /\ w \notin settled
  /\ settled' = settled \cup {w}
  /\ UNCHANGED <<vars, registries, reports>>

-----------------------------------------------------------------------------
(* The text of a report. *)

Least(a, b) == IF a <= b THEN a ELSE b

Digits(n) == IF n < 10 THEN 1 ELSE IF n < 100 THEN 2 ELSE 3

(* "%s Se registraron %d transacciones", the version cut to three bytes *)
HeaderSize(n) == 33 + Digits(n)

(* "%s %.20q %s$%.0f" on a line of its own, with a sign *)
EntrySize(text) ==
  1 + 10 + 1 + (2 + text.width * Least(20, text.runes)) + 1 + 2 + text.digits

(* "... y otras %d" *)
RestSize(n) == 1 + 12 + Digits(n)

(* Mutant: three transactions are spelled out. *)
FirstThree(n) == Least(3, n)
Shown(n) == Least(2, n)

Size(rs) ==
  LET n    == Len(rs)
      k    == Shown(n)
      upTo[i \in 0..k] == IF i = 0 THEN HeaderSize(n) ELSE upTo[i - 1] + EntrySize(TextOf[rs[i].trx])
  IN  upTo[k] + (IF n > k THEN RestSize(n - k) ELSE 0)

-----------------------------------------------------------------------------
(* Telling the users. *)

Owners == {e \in Email : registries[e] # <<>>}
Told   == {r.user : r \in reports}

(* Mutant: the first error ends the loop. *)
NoErrorYet == \A r \in reports : r.outcome = "sent"
KeepGoing == TRUE

(* SendMessage refuses a text that is too long before it asks Twilio. *)
Outcomes(rs) ==
  IF Size(rs) > Limit THEN {"tooLong"}
  ELSE {"sent"} \cup (IF Fault("twilio") THEN {"failed"} ELSE {})

Report(e) ==
  /\ settled = Worker /\ e \in Owners \ Told /\ KeepGoing
  /\ LET rs == registries[e]
     IN  \E outcome \in Outcomes(rs) :
           reports' = reports \cup
             {[user |-> e, to |-> rs[1].cfg, trxs |-> {rs[i].trx : i \in DOMAIN rs},
               shown |-> {rs[i].trx : i \in 1..Shown(Len(rs))}, outcome |-> outcome]}
  /\ UNCHANGED <<vars, settled, registries>>

-----------------------------------------------------------------------------
Over == settled = Worker /\ UNCHANGED allVars

ReportNext ==
  \/ (SaveElsewhere \/ Deadline \/ Preload) /\ UNCHANGED results
  \/ \E w \in Worker : (Lookup(w) /\ UNCHANGED results) \/ Succeed(w) \/ Fail(w)
  \/ \E e \in Email : Report(e)
  \/ Over

ReportSpec == ReportInit /\ [][ReportNext]_allVars

(* Go runs every worker that can run, a Scan and an entry get an answer,   *)
(* and the loop over the users goes on.                                    *)
FairReportSpec ==
  /\ ReportSpec
  /\ WF_allVars(Preload /\ UNCHANGED results)
  /\ \A w \in Worker : /\ WF_allVars(Lookup(w) /\ UNCHANGED results)
                       /\ WF_allVars(Succeed(w) \/ Fail(w))
  /\ WF_allVars(\E e \in Email : Report(e))

-----------------------------------------------------------------------------
(* Properties. *)

Registries == UNION {{registries[e][i] : i \in DOMAIN registries[e]} : e \in Email}

(* A report goes to the number in the configuration that each of its       *)
(* transactions was registered under, and tells of all the transactions of *)
(* that user: the number is taken from the first of them, whichever worker *)
(* finished first.                                                         *)
ReportIsTheOwners ==
  \A r \in reports : r.trxs = {x.trx : x \in {y \in Registries : y.cfg = r.to}}

(* As long as the descriptions it shows are plain, no report is refused    *)
(* for its size, however many transactions there are.                      *)
PlainReportFits ==
  \A r \in reports : r.outcome = "tooLong" => \E t \in r.shown : ~Plain(TextOf[t])

(* Every user with a registered transaction is told, or the sending of     *)
(* that user's own report failed: no worker waits at the Once for ever,    *)
(* and one user's failure does not cost the others their report.           *)
EveryUserIsTold == <>(settled = Worker /\ Owners \subseteq Told)
=============================================================================
