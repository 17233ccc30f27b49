------------------------------ MODULE MailSync ------------------------------
(***************************************************************************)
(* One mailbox, one accounting ledger, one stored date, and the runs of    *)
(* Sync.Run (internal/sync/sync.go) that move bank mails from the INBOX    *)
(* into the ledger, one run after the other.  A run is split at the points *)
(* where it talks to the outside world: between any two of them mail may   *)
(* arrive, midnight may pass, the context may be cancelled, the process    *)
(* may die.                                                                *)
(*                                                                         *)
(* A message is its UID; the INBOX is the set of UIDs in it.  The program  *)
(* never sees a UID: it names a message by its IMAP sequence number, the   *)
(* position of the message in the INBOX at that moment (SeqNum).           *)
(*                                                                         *)
(* Time is counted in days because SEARCH SINCE disregards the time of     *)
(* day; day 0 stands for any day before the first mail, which is also what *)
(* the zero time read from an empty table means.                           *)
(***************************************************************************)
EXTENDS Integers, FiniteSets

CONSTANTS
  LastUID,      \* bound: how many mails ever arrive
  Parsable,     \* bank mails that ExtractTransactionInfoFromMessage parses
  Unparsable,   \* bank mails that the filter accepts and that do not parse
  Malformed,    \* mails of any kind with a part that NextPart cannot read
  LastDay,      \* bound: the last day of the model's calendar
  GraceDays,    \* oneDayBefore: how far behind the stored date a search starts
  Skew,         \* how far ahead of the mailbox a sender's Date: may run
  Delay,        \* how long a mail may be under way, in days
  RunSpan,      \* how many midnights one run may see
  FallbackDays, \* age of sinceFallbackDate
  MaxEntries,   \* bound: no run starts once a mail has this many entries
  Executes,     \* the values the flag -execute may have on the command line
  Faults        \* what may go wrong, see FaultKinds

Msg == 1..LastUID

FaultKinds ==
  { "fetchLoss",    \* a bucket, a body, or the mail time slot is lost
    "moveFail",     \* MoveMessagesToMailbox returns an error
    "saveFail",     \* SaveProcessedDate returns an error
    "readFail",     \* getDateFromStorage returns an error
    "override",     \* the environment variable overrides the date
    "registerFail", \* an accounting step fails before an entry is created
    "lostAck",      \* the entry is created, the answer is an error
    "deadline",     \* the context of the run is cancelled
    "notifyFail",   \* some user's report is not sent
    "setupError",   \* configure, the sanity check, Select or Search fails
    "crash",        \* the process dies or panics
    "expunge",      \* another client removes a mail during a run ...
    "expungeIdle" } \* ... or between two

ASSUME ParameterAssumption ==
  /\ LastUID \in Nat /\ LastDay \in Nat /\ MaxEntries \in Nat
  /\ GraceDays \in Nat /\ Skew \in Nat /\ Delay \in Nat
  /\ RunSpan \in Nat /\ FallbackDays \in Nat
  /\ Parsable \subseteq Msg /\ Unparsable \subseteq Msg
  /\ Parsable \cap Unparsable = {}
  /\ Malformed \subseteq Msg \ (Parsable \cup Unparsable)
  /\ Executes \subseteq BOOLEAN
  /\ Faults \subseteq FaultKinds

VARIABLES
  \* the outside world
  today, arrived, received, sent, inbox, successBox, errorBox,
  watermark,   \* the date kept by dateprocessingserv
  entries,     \* how many ledger entries each mail has
  reported,    \* mails some SMS report counted
  \* the run in progress
  pc, dryRun, ctxDone,
  startDay,    \* the day the run started
  since,       \* lastProcessedDate
  pending,     \* sequence numbers the search found, not fetched yet
  trxs, parseFailed, ok, failed

mail  == <<today, arrived, received, sent>>
boxes == <<inbox, successBox, errorBox>>
books == <<watermark, entries, reported>>
head  == <<dryRun, ctxDone, startDay>>
work  == <<pending, trxs, parseFailed, ok, failed>>
vars  == <<mail, boxes, books, pc, head, since, work>>

Phases == {"idle", "configure", "lastDate", "sanity", "search", "fetch", "moveFailed",
           "register", "moveSuccess", "save", "notify"}

(* What the run keeps of a mail: the sequence number it was fetched under *)
(* (Message.ID) and the mail itself.                                      *)
Handle == [id : Nat, msg : Msg]

SeqNum(m) == Cardinality({n \in inbox : n <= m})

(* The mails a list of sequence numbers names when it is used. *)
Named(ids) == {m \in inbox : SeqNum(m) \in ids}

(* Mutant: positions counted from zero. *)
IdsFromZero(handles) == {h.id + 1 : h \in handles}
Ids(handles) == {h.id : h \in handles}

Msgs(handles) == {h.msg : h \in handles}

Fault(f) == f \in Faults

-----------------------------------------------------------------------------
Init ==
  /\ today = 0 /\ arrived = 0
  /\ received = [m \in Msg |-> 0] /\ sent = [m \in Msg |-> 0]
  /\ inbox = {} /\ successBox = {} /\ errorBox = {}
  /\ watermark = 0 /\ entries = [m \in Msg |-> 0] /\ reported = {}
  /\ pc = "idle" /\ dryRun = FALSE /\ ctxDone = FALSE
  /\ startDay = 0 /\ since = 0
  /\ pending = {} /\ trxs = {} /\ parseFailed = {} /\ ok = {} /\ failed = {}

(* Run returns: nothing of it survives but what it wrote outside. *)
EndRun ==
  /\ pc' = "idle" /\ dryRun' = FALSE /\ ctxDone' = FALSE
  /\ startDay' = 0 /\ since' = 0
  /\ pending' = {} /\ trxs' = {} /\ parseFailed' = {} /\ ok' = {} /\ failed' = {}

-----------------------------------------------------------------------------
(* The outside world. *)

Arrive ==
  /\ arrived < LastUID
  /\ arrived' = arrived + 1
  /\ inbox' = inbox \cup {arrived + 1}
  /\ received' = [received EXCEPT ![arrived + 1] = today]
  /\ \E d \in (today - Delay)..(today + Skew) :
        sent' = [sent EXCEPT ![arrived + 1] = d]
  /\ UNCHANGED <<today, successBox, errorBox, books, pc, head, since, work>>

Tick ==
  /\ today < LastDay
  /\ pc # "idle" => today < startDay + RunSpan
  /\ today' = today + 1
  /\ UNCHANGED <<arrived, received, sent, boxes, books, pc, head, since, work>>

ForeignExpunge ==
  /\ IF pc = "idle" THEN Fault("expungeIdle") ELSE Fault("expunge")
  /\ \E m \in inbox : inbox' = inbox \ {m}
  /\ UNCHANGED <<mail, successBox, errorBox, books, pc, head, since, work>>

(* The timeout of the Lambda request or of the command line. *)
Deadline ==
  /\ Fault("deadline") /\ pc # "idle" /\ ~ctxDone
  /\ ctxDone' = TRUE
  /\ UNCHANGED <<mail, boxes, books, pc, dryRun, startDay, since, work>>

Crash ==
  /\ Fault("crash") /\ pc # "idle"
  /\ EndRun
  /\ UNCHANGED <<mail, boxes, books>>

-----------------------------------------------------------------------------
(* Up to the search. *)

Start(d) ==
  /\ pc = "idle"
  /\ d \/ \A m \in inbox : entries[m] < MaxEntries
  /\ pc' = "configure" /\ dryRun' = d /\ ctxDone' = FALSE /\ startDay' = today
  /\ UNCHANGED <<mail, boxes, books, since, work>>

(* The Lambda request is never dry, the command line is unless told. *)
HandleRequest == Start(FALSE)
Main(execute) == Start(~execute)
RunStarts == HandleRequest \/ (\E execute \in Executes : Main(execute))

(* The clients are built; mail and ledger are not spoken to yet. *)
Configure ==
  /\ pc = "configure"
  /\ pc' = "lastDate"
  /\ UNCHANGED <<mail, boxes, books, head, since, work>>

(* Mutant: the search starts at the stored date. *)
SinceWithoutGrace == {watermark}

(* Mutant: the fallback is the start of the process, without its thirty days. *)
StartUpDates == 0..startDay

(* sinceFallbackDate is fixed when the process comes up, which for a warm   *)
(* Lambda may be days before the run.                                       *)
FallbackDates == {up - FallbackDays : up \in 0..startDay}

(* A storage error is swallowed: the run goes on with the fallback. *)
SinceDates ==
  (IF Fault("override") THEN 0..LastDay ELSE {})
  \cup (IF ctxDone \/ Fault("readFail") THEN FallbackDates ELSE {})
  \cup (IF ~ctxDone THEN {watermark - GraceDays} ELSE {})

GetLastProcessedDate ==
  /\ pc = "lastDate"
  /\ since' \in SinceDates
  /\ pc' = "sanity"
  /\ UNCHANGED <<mail, boxes, books, head, work>>

MailSanityCheck ==
  /\ pc = "sanity"
  /\ pc' = "search"
  /\ UNCHANGED <<mail, boxes, books, head, since, work>>

(* The AWS setup and the listing of mailboxes look at the context, Select  *)
(* and Search do not; the date never ends a run, its client being set.      *)
SetupError ==
  /\ pc \in {"configure", "sanity", "search"}
  /\ Fault("setupError") \/ (ctxDone /\ pc # "search")
  /\ EndRun
  /\ UNCHANGED <<mail, boxes, books>>

Search ==
  /\ pc = "search"
  /\ pending' = {SeqNum(m) : m \in {n \in inbox : received[n] >= since}}
  /\ pc' = "fetch"
  /\ UNCHANGED <<mail, boxes, books, head, since, trxs, parseFailed, ok, failed>>

-----------------------------------------------------------------------------
(* Fetching, and sorting what was fetched. *)

FetchOne(i) ==
  /\ pc = "fetch" /\ i \in pending /\ Named({i}) \cap Malformed = {}
  /\ pending' = pending \ {i}
  /\ LET hit == Named({i})
     IN  /\ trxs' = trxs \cup {[id |-> i, msg |-> m] : m \in hit \cap Parsable}
         /\ parseFailed' = parseFailed
                      \cup {[id |-> i, msg |-> m] : m \in hit \cap Unparsable}
  /\ UNCHANGED <<mail, boxes, books, pc, head, since, ok, failed>>

(* getCompleteMessage looks at the error of NextPart for io.EOF only, and  *)
(* uses the part: the process panics.                                      *)
FetchPanics(i) ==
  /\ pc = "fetch" /\ i \in pending /\ Named({i}) \cap Malformed # {}
  /\ EndRun
  /\ UNCHANGED <<mail, boxes, books>>

(* The error of a bucket is logged, that of a body is counted; the run     *)
(* goes on as if the mail were not there.                                  *)
FetchFail(i) ==
  /\ pc = "fetch" /\ i \in pending
  /\ Fault("fetchLoss") \/ ctxDone
  /\ pending' = pending \ {i}
  /\ UNCHANGED <<mail, boxes, books, pc, head, since, trxs, parseFailed, ok, failed>>

FetchDone ==
  /\ pc = "fetch" /\ pending = {}
  /\ pc' = "moveFailed"
  /\ UNCHANGED <<mail, boxes, books, head, since, work>>

-----------------------------------------------------------------------------
(* Archiving.  A move names mails by the sequence numbers of the fetch and *)
(* the server resolves them anew.  A failing move may have copied some of  *)
(* them and removed some of those.                                         *)

(* Mutant: a copy where a move is meant. *)
StillWith(handles) == inbox
Without(handles) == inbox \ Named(Ids(handles))

MoveParseFailed ==
  /\ pc = "moveFailed"
  /\ \/ /\ dryRun \/ parseFailed = {}
        /\ pc' = "register"
        /\ UNCHANGED <<boxes, head, since, work>>
     \/ /\ ~dryRun /\ parseFailed # {}
        /\ inbox' = Without(parseFailed)
        /\ errorBox' = errorBox \cup Named(Ids(parseFailed))
        /\ pc' = "register"
        /\ UNCHANGED <<successBox, head, since, work>>
     \/ /\ ~dryRun /\ parseFailed # {} /\ Fault("moveFail")
        /\ \E copied \in SUBSET Named(Ids(parseFailed)) :
             \E gone \in SUBSET copied :
                /\ errorBox' = errorBox \cup copied
                /\ inbox' = inbox \ gone
        /\ EndRun
        /\ UNCHANGED successBox
  /\ UNCHANGED <<mail, books>>

(* Mutant: the other list of results is archived. *)
ArchiveFailed == failed
Archivable == ok

ArchiveAll ==
  /\ pc = "moveSuccess"
  /\ \/ /\ dryRun \/ Archivable = {}
        /\ UNCHANGED boxes
     \/ /\ ~dryRun /\ Archivable # {}
        /\ inbox' = Without(Archivable)
        /\ successBox' = successBox \cup Named(Ids(Archivable))
        /\ UNCHANGED errorBox
  /\ pc' = "save"
  /\ UNCHANGED <<mail, books, head, since, work>>

(* The error is logged and the run goes on. *)
ArchiveErrs ==
  /\ pc = "moveSuccess" /\ Fault("moveFail")
  /\ ~dryRun /\ Archivable # {}
  /\ \E copied \in SUBSET Named(Ids(Archivable)) :
       \E gone \in SUBSET copied :
          /\ successBox' = successBox \cup copied
          /\ inbox' = inbox \ gone
  /\ pc' = "save"
  /\ UNCHANGED <<mail, errorBox, books, head, since, work>>

MoveSuccessful == ArchiveAll \/ ArchiveErrs

-----------------------------------------------------------------------------
(* Registering, one transaction at a time as seen from the ledger. *)

RegisterOk(t) ==
  /\ pc = "register" /\ t \in trxs
  /\ trxs' = trxs \ {t}
  /\ ok' = ok \cup {t}
  /\ entries' = IF dryRun THEN entries ELSE [entries EXCEPT ![t.msg] = @ + 1]
  /\ UNCHANGED <<mail, boxes, watermark, reported, pc, head, since, pending, parseFailed, failed>>

(* Mutants: the error is not looked at; an entry that was never made is     *)
(* taken back.                                                              *)
IgnoreError(t) == ok' = ok \cup {t} /\ UNCHANGED <<failed, entries>>
TakeBack(t) ==
  failed' = failed \cup {t} /\ entries' = [entries EXCEPT ![t.msg] = @ - 1] /\ UNCHANGED ok
NoteFailed(t) == failed' = failed \cup {t} /\ UNCHANGED <<ok, entries>>

RegisterFail(t) ==
  /\ pc = "register" /\ t \in trxs
  /\ Fault("registerFail") \/ ctxDone
  /\ trxs' = trxs \ {t}
  /\ NoteFailed(t)
  /\ UNCHANGED <<mail, boxes, watermark, reported, pc, head, since, pending, parseFailed>>

RegisterLostAck(t) ==
  /\ pc = "register" /\ t \in trxs
  /\ Fault("lostAck") /\ ~dryRun
  /\ trxs' = trxs \ {t}
  /\ failed' = failed \cup {t}
  /\ entries' = [entries EXCEPT ![t.msg] = @ + 1]
  /\ UNCHANGED <<mail, boxes, watermark, reported, pc, head, since, pending, parseFailed, ok>>

(* A worker that finds the context done leaves its transactions without a *)
(* result: neither successful nor failed.                                 *)
Abandon(t) ==
  /\ pc = "register" /\ t \in trxs /\ ctxDone
  /\ trxs' = trxs \ {t}
  /\ UNCHANGED <<mail, boxes, books, pc, head, since, pending, parseFailed, ok, failed>>

RegisterDone ==
  /\ pc = "register" /\ trxs = {}
  /\ pc' = "moveSuccess"
  /\ UNCHANGED <<mail, boxes, books, head, since, work>>

-----------------------------------------------------------------------------
(* Closing the run. *)

(* Mutants: failed mails are forgotten; a failed mail counts as undated. *)
EarliestIsNow == {today}
EarliestIsZero == {IF failed = {} THEN today ELSE 0}

(* The least of the candidates, as a set with one element. *)
EarliestUnfinished ==
  LET dates == {today} \cup {sent[m] : m \in Msgs(failed)}
  IN  {d \in dates : \A e \in dates : d <= e}

(* Mutant: the guard on DryRun is lost. *)
MaySaveDry == ~ctxDone
MaySave == ~dryRun /\ ~ctxDone

Save ==
  /\ pc = "save"
  /\ \/ (dryRun \/ ctxDone \/ Fault("saveFail")) /\ UNCHANGED watermark
     \/ MaySave /\ watermark' \in EarliestUnfinished
  /\ pc' = "notify"
  /\ UNCHANGED <<mail, boxes, entries, reported, head, since, work>>

(* Mutant: the report counts every transaction that was tried. *)
Tried == ok \cup failed
Registries == ok

(* The report is best effort: an error is logged, the run ends anyway. *)
Notify ==
  /\ pc = "notify"
  /\ \/ dryRun /\ UNCHANGED reported
     \/ ~dryRun /\ reported' = reported \cup Msgs(Registries)
     \/ /\ ~dryRun /\ Fault("notifyFail")
        /\ \E told \in SUBSET Msgs(Registries) : reported' = reported \cup told
  /\ EndRun
  /\ UNCHANGED <<mail, boxes, watermark, entries>>

-----------------------------------------------------------------------------
Environment == Arrive \/ Tick \/ ForeignExpunge \/ Deadline \/ Crash

RunStep ==
  \/ Configure \/ GetLastProcessedDate \/ MailSanityCheck \/ SetupError \/ Search
  \/ \E i \in pending : FetchOne(i) \/ FetchPanics(i) \/ FetchFail(i)
  \/ FetchDone \/ MoveParseFailed
  \/ \E t \in trxs : RegisterOk(t) \/ RegisterFail(t) \/ RegisterLostAck(t) \/ Abandon(t)
  \/ RegisterDone \/ MoveSuccessful \/ Save \/ Notify

Next == Environment \/ RunStarts \/ RunStep

Spec == Init /\ [][Next]_vars

(* A schedule starts real runs again and again, whoever else starts dry     *)
(* ones in between; a started run keeps going, and a mail that can be       *)
(* registered is not refused by the ledger every time.                      *)
FairSpec ==
  /\ Spec
  /\ SF_vars(HandleRequest)
  /\ WF_vars(RunStep)
  /\ \A m \in Parsable : SF_vars(\E t \in trxs : t.msg = m /\ ~dryRun /\ RegisterOk(t))

-----------------------------------------------------------------------------
(* Properties. *)

MailTypeOK ==
  /\ today \in 0..LastDay /\ arrived \in 0..LastUID
  /\ received \in [Msg -> 0..LastDay] /\ sent \in [Msg -> Int]

BoxTypeOK ==
  /\ inbox \subseteq 1..arrived
  /\ successBox \subseteq 1..arrived /\ errorBox \subseteq 1..arrived

BookTypeOK ==
  watermark \in Int /\ entries \in [Msg -> Nat] /\ reported \subseteq Msg

HeadTypeOK ==
  /\ pc \in Phases /\ dryRun \in BOOLEAN /\ ctxDone \in BOOLEAN
  /\ startDay \in 0..LastDay /\ since \in Int

WorkTypeOK ==
  /\ pending \subseteq Nat
  /\ trxs \subseteq Handle /\ parseFailed \subseteq Handle
  /\ ok \subseteq Handle /\ failed \subseteq Handle

(* Every variable stays within its type. *)
TypeOK == MailTypeOK /\ BoxTypeOK /\ BookTypeOK /\ HeadTypeOK /\ WorkTypeOK

Waiting(m) == m \in Parsable /\ m <= arrived /\ entries[m] = 0

(* A mail that has waited for longer than the fallback reaches back, where  *)
(* the stored date cannot always be read.                                   *)
BeyondFallback(m) == Fault("readFail") /\ received[m] < today - FallbackDays

(* No transaction is lost: a bank mail without a ledger entry is still in   *)
(* the INBOX, and the date stored by saveLastExecutionDate lies no further  *)
(* ahead than the next run's search reaches back, whatever failed between.  *)
(* Only when the stored date cannot be read may a search begin later, and   *)
(* then it still misses no mail younger than the thirty days of             *)
(* sinceFallbackDate.                                                       *)
NoMessageLost ==
  \A m \in Msg : Waiting(m) =>
    /\ m \in inbox
    /\ received[m] >= watermark - GraceDays \/ BeyondFallback(m)

(* No transaction is entered twice: archiving it before the next search is  *)
(* the only thing that keeps registerSingleTrxIntoAccounting from a repeat. *)
AtMostOnce == \A m \in Msg : entries[m] <= 1

(* When Run goes on to saveLastExecutionDate, no mail registered by this    *)
(* run is left in the INBOX: each has been archived, as sync.go:225 says,   *)
(* or is gone by another hand.  One left there is registered again.         *)
RegisteredIsArchived == pc = "save" /\ ~dryRun => Msgs(ok) \cap inbox = {}

(* The parse error mailbox holds nothing but mails that did not parse: the  *)
(* first move of a run still names the mails it fetched, whatever arrives,  *)
(* fails or dies around it.                                                 *)
ErrorBoxIsUnparsable == errorBox \subseteq Unparsable

(* A report counts only mails the ledger has an entry for. *)
ReportedIsEntered == \A m \in reported : entries[m] >= 1

(* A dry run leaves no trace, through all six places that test DryRun: the  *)
(* mailboxes keep what they had (mail that other actors add or delete is    *)
(* theirs), and date, ledger and reports do not change.                     *)
DryRunLeavesNoTrace ==
  [][pc # "idle" /\ dryRun => UNCHANGED <<successBox, errorBox, books>>]_vars

(* The stored date can go back, because a failing mail pins it to the date  *)
(* its sender wrote; it never goes back by more than one grace period and   *)
(* one mail delay in a run, so a run searches a bounded stretch of mail.    *)
BoundedRewind == [][watermark' >= watermark - (GraceDays + Delay)]_vars

(* Every bank mail that reaches the INBOX is entered in the end, also when  *)
(* accounting refuses it for many runs, unless its owner deletes it: a mail *)
(* that a run has put into another mailbox is not deleted.                  *)
Deleted(m) == m \notin inbox \cup successBox \cup errorBox
EventuallyEntered == \A m \in Parsable : (m \in inbox) ~> (entries[m] >= 1 \/ Deleted(m))

(* Run implements the abstract ledger: every step of it is a step of        *)
(* MailLedger or none, a lost or doubled entry is neither.                  *)
Ledger == INSTANCE MailLedger WITH
  Mail     <- Parsable,
  waiting  <- {m \in inbox \cap Parsable : entries[m] = 0},
  entered  <- {m \in Parsable : entries[m] >= 1},
  archived <- successBox
LedgerSpec == Ledger!Spec

-----------------------------------------------------------------------------
(* The inductive invariant behind NoMessageLost. *)

Clock ==
  /\ watermark <= today
  /\ \A m \in Msg : received[m] <= today /\ sent[m] <= received[m] + Skew
  /\ pc # "idle" => startDay <= today /\ today <= startDay + RunSpan

Handles == trxs \cup ok \cup failed

(* What the run knows a mail by is still its sequence number. *)
HandlesFresh ==
  /\ parseFailed = {}
  /\ pc \notin {"save", "notify"} =>
        \A h \in Handles : h.msg \in inbox /\ h.id = SeqNum(h.msg)

OkIsEntered == dryRun \/ \A h \in ok : entries[h.msg] >= 1

(* The run has every waiting mail in hand, unless its date cannot move past *)
(* the mail anyway, or the mail is too old for the fallback.                *)
InHand(m) ==
  \/ dryRun \/ ctxDone
  \/ BeyondFallback(m)
  \/ received[m] >= startDay
  \/ pc \in {"sanity", "search"} /\ received[m] >= since
  \/ pc = "fetch" /\ SeqNum(m) \in pending
  \/ \E h \in trxs \cup failed : h.msg = m

(* Phases in which a set is empty. *)
Stages ==
  /\ pc \notin {"fetch"} => pending = {}
  /\ pc \notin {"fetch", "moveFailed", "register"} => trxs = {}
  /\ pc \in {"idle", "configure", "lastDate", "sanity", "search", "fetch", "moveFailed"}
        => ok = {} /\ failed = {}

WaitingInHand ==
  pc \notin {"idle", "configure", "lastDate"} => \A m \in Msg : Waiting(m) => InHand(m)

(* Why NoMessageLost holds from one run to the next: at every moment of a   *)
(* run each waiting mail is in its hands, or the date will not move past it. *)
IInv ==
  /\ TypeOK /\ Clock /\ Stages /\ HandlesFresh /\ OkIsEntered
  /\ NoMessageLost /\ WaitingInHand

(* The instances that lose no mail: the faults left out each lose one, and  *)
(* so does a clock further off than the grace period.                       *)
SafeInstance ==
  /\ ~Fault("fetchLoss") /\ ~Fault("expunge") /\ ~Fault("expungeIdle") /\ ~Fault("override")
  /\ Unparsable = {}
  /\ Skew <= GraceDays /\ RunSpan <= GraceDays
=============================================================================
