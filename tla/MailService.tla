----------------------------- MODULE MailService -----------------------------
(***************************************************************************)
(* All that Sync.Run does with the mail service before it has the mails:   *)
(* the check of the mailboxes (MailboxList), then Select and Search on a   *)
(* connection of their own, then the fetch pool (MailFetch).  The run's    *)
(* context ends the first, the mail time slot the last; a run that has     *)
(* expired leaves an expired slot.                                         *)
(***************************************************************************)
EXTENDS MailFetch

VARIABLES
  stage,  \* "list", "search", "fetch", or how GetMessagesFromMailbox ended
  exists, lister, unlisted, listErr, mailboxes, ctxDone, verdict

List == INSTANCE MailboxList WITH ListMayFail <- Fault("list")

fetchVars   == vars
listVars    == <<exists, lister, unlisted, listErr, mailboxes, ctxDone, verdict>>
serviceVars == <<fetchVars, listVars, stage>>

Ended == {"refused", "empty"}

ServiceInit == Init /\ List!Init /\ stage = "list"

-----------------------------------------------------------------------------
ListLoop ==
  /\ stage = "list" /\ List!Loop
  /\ stage' = CASE verdict' = "looking" -> "list"
                [] verdict' = "passed"  -> "search"
                [] OTHER                -> "refused"
  /\ UNCHANGED fetchVars

ListServer == stage = "list" /\ List!Server /\ UNCHANGED <<fetchVars, stage>>

(* The context of the run ends, and every context made from it. *)
RunExpires ==
  /\ stage \in {"list", "search"} /\ Fault("slot") /\ List!Expire
  /\ slotDone' = TRUE
  /\ UNCHANGED <<source, watcher, middle, poolDone, bucketDone, chan, stage>>

(* GetMessagesFromMailbox up to the workers: an error ends the run, for no *)
(* mail there is a channel that is closed already.                         *)
Search ==
  /\ stage = "search"
  /\ stage' \in {"fetch", "empty"} \cup (IF Fault("select") THEN {"refused"} ELSE {})
  /\ UNCHANGED <<fetchVars, listVars>>

Fetch == stage = "fetch" /\ Next /\ UNCHANGED <<listVars, stage>>

Stopped == stage \in Ended /\ UNCHANGED serviceVars

ServiceNext == ListLoop \/ ListServer \/ RunExpires \/ Search \/ Fetch \/ Stopped

ServiceSpec == ServiceInit /\ [][ServiceNext]_serviceVars

-----------------------------------------------------------------------------
InFetch(A) == stage = "fetch" /\ A /\ UNCHANGED <<listVars, stage>>

(* Go runs every goroutine that can run. *)
Scheduler ==
  /\ WF_serviceVars(ListLoop)
  /\ \A w \in Worker : /\ WF_serviceVars(InFetch(WatchStep(w)))
                       /\ WF_serviceVars(InFetch(ReaderEnds(w)))
                       /\ WF_serviceVars(InFetch(WorkerStep(w)))
  /\ WF_serviceVars(InFetch(Close)) /\ WF_serviceVars(InFetch(CancelPool))
  /\ WF_serviceVars(InFetch(Receive))

(* Time passes: while the server has not finished a List or a Fetch, the   *)
(* deadline comes nearer.                                                  *)
TimePasses ==
  /\ WF_serviceVars(RunExpires /\ lister = "list")
  /\ WF_serviceVars(InFetch(SlotExpires /\ \E w \in Worker : pc[w] = "open" \/ fetcher[w] = "fetch"))

(* Select and Search, which no context can end, are answered. *)
ServerAnswers ==
  WF_serviceVars(Search) /\ \A w \in Worker : WF_serviceVars(InFetch(Open(w)))

FairService == ServiceSpec /\ Scheduler /\ TimePasses /\ ServerAnswers

(* A server that may stop answering at any time. *)
SilentService == ServiceSpec /\ Scheduler /\ TimePasses

-----------------------------------------------------------------------------
(* The check of the mailboxes says what is so, see MailboxList. *)
VerdictIsTrue == List!VerdictIsTrue

(* Run gets to the end of the mails, cancelled or not, also when a List or  *)
(* a Fetch is never answered: the time slot bounds the fetching, "we should *)
(* go with what we have".                                                   *)
RunContinues == <>(stage \in Ended \/ (stage = "fetch" /\ Ranged))
=============================================================================
