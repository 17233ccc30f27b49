# A verification of toshl-email-autosync

The program reads bank mails from an IMAP mailbox, enters each transaction it
finds into a Toshl ledger, archives the mail, remembers a date to start from
next time and sends an SMS report. It runs as an AWS Lambda on a schedule or
from the command line. What makes it interesting is that its memory is spread
over four systems that share no transaction (a mailbox, a ledger, a table with
one date, a phone) and that it names mails by sequence numbers, which change
under its hands.

This directory holds TLA+ models of it, TLC runs that check them on small
instances, and TLAPS proofs. Everything is translated from the Go source; line
numbers below are relative to `src/`, the entry for every definition is in
`PROJECT.json` under "map".

## 1. Inventory

| Part | Source | State | Operations | Hard because |
|---|---|---|---|---|
| Sync run | `internal/sync/sync.go`, `date.go` | mails parsed, results, `DryRun` | `Run`: configure, date, sanity check, fetch, move, register, move, save, notify | nine steps, each may fail, each failure is treated differently; the next run must pick up what is left |
| Mail service, list of mailboxes | `internal/services/mailserv`, `sync.go:82-104` | a goroutine, two channels | `GetAvailableMailboxes`, `mailSanityCheck` | the list and its error come on different channels, and either may be seen first |
| Mail service, search and move | `internal/services/mailserv` | a pool of connections that are taken and never put back | `GetMessagesFromMailbox`, `MoveMessagesToMailbox` | sequence numbers are resolved anew on another connection; `getClient` panics |
| Mail service, fetch pool | same | per bucket: a fetcher, a watcher, a reader, a worker, three channels | `getMessagesFromMailbox`, `getCompleteMessages` | four goroutines per bucket, three contexts, unbuffered channels |
| Accounting pool | `internal/sync/accounting.go` | result channel | `registerTrxsIntoAccounting`, `registerSingleTrxIntoAccounting`, `createCategoryIfAbsent` | workers share clients and caches; lost answers; workers that leave early |
| Account mapping | `internal/sync/accounting.go:169-199` | none | `getAccountsMapping` | a map that is read and written while Go ranges over another in random order |
| Accounting service, proxy | `internal/services/accountingserv`, `proxy` | client per token, cached categories and accounts | `getClient`, `GetCategories`, `CreateCategory`, `CreateEntry`, `doCancelableOperation` | get, fetch and set of the cache are separate; operations outlive their context |
| User configurations | `internal/services/userconfigserv` | cache filled once per run | `PreloadAllConfigs`, `GetUserConfigFromEmail` | everybody waits at a `sync.Once`; the preload may fail half-way and is not repeated |
| SMS reports | `internal/sync/notification.go`, `notificationserv`, `external/twilio` | none | `notifyUsers`, `notifyUserWithSMS`, `SendMessage` | results of several users arrive mixed; one failure must not stop the rest; 153 bytes |
| Date service | `internal/services/dateprocessingserv` | one date in DynamoDB | `GetLastProcessedDate`, `SaveProcessedDate` | a day of grace, a fallback fixed at start-up, an override; minutes and zones are stored, days are searched |
| Bancolombia parser | `internal/bank/bancolombia` | none | `ComesFrom`, `FilterMessage`, `ExtractTransactionInfoFromMessage` | "100,000" and "100,00" |
| Work splitting | `internal/util/utilslices` | none | `Split` | indexed by the number of workers |
| Wiring, entry points | `internal/sync/config.go`, `cmd/aws-lambda`, `cmd/cli` | a fresh `Sync` per run | `configure`, `HandleRequest`, `main` | who sets a deadline, who runs dry |
| The rest | `cmd/archive`, `cmd/dynamodb`, `cmd/mail` (unimplemented), `cmd/toshl`, `cmd/twilio`, logging, types | | | |

How they interact: `Run` builds its clients, calls the date service, then the
mail service, and ranges over the channel that the fetch pool fills; it moves
what did not parse, hands the transactions to the accounting pool and ranges
over *its* channel; the pool's workers call the user configurations and the
accounting service; `Run` then moves, saves the date and notifies. Only the
channels, the caches and the contexts are shared between goroutines. Between
two runs only the mailbox, the ledger and the date survive.

What makes it correct, in a sentence per part: no bank mail is lost and none is
entered twice (run); a result says what happened to its transaction, and the
channel it comes through is closed when all is settled (both pools); a missing
mailbox is reported if and only if one is missing (list); caches may be stale
but not for good (proxy) and not different for two workers (user
configurations); a report goes to the user it is about, and to every such user
(reports); an entry has the amount that was written and the account that was
configured (parser, mapping); a failed mail is found again whatever zone and
clock its date came from (dates); every position is in one bucket (splitting).
The hazards, each at its line, are in `PROJECT.json`.

## 2. Modules

```
MailLedger   <--implements-- MailSync <--same actions--> Registration
                             MailSync <--EXTENDS-- MailRepeats
Registration <--implements-- AccountingPool
ResultStream <--implements-- AccountingPool
             <--implements-- MailFetch <--EXTENDS-- MailService --INSTANCE--> MailboxList
Buckets <--EXTENDS-- AccountingPool, MailFetch
UserConfigCache <--EXTENDS-- UserReports
Amount, Calendar <--EXTENDS-- Entry

MailSync       <--EXTENDS-- MC_MailSync,       MailSync_proofs <--EXTENDS-- MailLedger_proofs
MailRepeats    <--EXTENDS-- MC_MailRepeats,    MailLedger_proofs
AccountingPool <--EXTENDS-- MC_AccountingPool, AccountingPool_proofs --EXTENDS--> Buckets_proofs
MailService    <--EXTENDS-- MC_MailService,    MailService_proofs    --EXTENDS--> Buckets_proofs
UserReports    <--EXTENDS-- MC_UserReports,    UserReports_proofs
Entry          <--EXTENDS-- MC_Entry,          Entry_proofs          --EXTENDS--> Amount_proofs
```

**MailSync** is the core: the mailbox, the ledger, the date and one run after
the other. `pc` is the step of `Run` that comes next.

| Action | Code |
|---|---|
| `HandleRequest`, `Main` | the Lambda request (never dry) or the command line (dry unless told `-execute`) calls `Run` with a new `Sync` |
| `Configure` | `config.go:26-98`: the clients are built, nothing is asked of mail or ledger |
| `GetLastProcessedDate` | `sync.go:132`, with the override, the fallback and the day of grace of `dateprocessingserv` in `SinceDates` |
| `MailSanityCheck`, `SetupError` | the early returns of `configure`, the check and the search |
| `Search` | `mailserv/service.go:99-116`: sequence numbers of the mails SINCE a day |
| `FetchOne`, `FetchFail`, `FetchDone` | what reaches the loop `sync.go:183-202` |
| `FetchPanics` | `mailserv/service.go:305-320`: a part that cannot be read |
| `MoveParseFailed` | `sync.go:215`, `263-293`: an error ends the run |
| `RegisterOk`, `RegisterFail`, `RegisterLostAck`, `Abandon` | one transaction as the ledger and the loop `sync.go:231-239` see it |
| `MoveSuccessful` | `sync.go:240`, `295-325`: `ArchiveAll`, or `ArchiveErrs`, and then the error is logged |
| `Save` | `date.go` |
| `Notify` | `notification.go:13-43`, then `Run` returns |
| `Arrive`, `Tick`, `ForeignExpunge`, `Deadline`, `Crash` | the mail server, the calendar, another mail client (during a run or between two), the context, the process |

A mail is its UID. The program never sees it: a `Handle` is the sequence number
a mail was fetched under together with the mail, and both moves resolve the
number again (`Named`). A failing move may have copied any part of its mails and
removed any part of those. A day is the unit of time, because SEARCH SINCE knows
no other; `received` is the server's date, by which mails are searched, `sent`
the sender's, by which the stored date is held back. A mail that is neither
`Parsable` nor `Unparsable` is not from the bank; a `Malformed` one is read all
the same, since the search takes every mail of the INBOX. For the one bank there
is, the filter and the parser use the same expressions, so that a mail is
unparsable only through an amount that no float64 holds; the code has a path for
it, and so has the model.

**MailLedger** is the promise in five lines per action: a mail is received,
entered once, archived only when entered.

**MailRepeats** has the actions of MailSync and a history variable that none of
them reads, `mishaps`: how often a second move failed or had stale numbers
(`Renumbered`), the answer to an entry was lost, or the process died with entries
made and not archived.

**MailboxList** is `GetAvailableMailboxes` and the check of the three names. The
goroutine closes the list before it reports its error, and the loop selects
between the two channels and the context: `ClosedSeen` may come before
`ErrorSeen`, and then the goroutine waits for a receiver for ever (`"left"`).

**MailFetch** goes inside `GetMessagesFromMailbox`. An unbuffered channel is one
step of sender and receiver; the buffered one is a sequence. A watcher leaves
when its context ends, and then the fetcher stays blocked on its report: that
goroutine leak is in the model.

**MailService** puts the two together as `Run` does: the check, then Select and
Search, then the pool, under one run context and one time slot. `stage` says
which of them is at work; the actions of the components are used as they are.

**AccountingPool** goes inside `registerTrxsIntoAccounting`, one action per call
that another goroutine can come between: load and store of the client, get,
fetch and set of the cached list, creation and invalidation, the entry, the
send. `op[w]` is the goroutine that `doCancelableOperation` starts; it is a
process of its own because it lives on when the context wins. The ledger is
external: a call succeeds, is rejected, or is carried out without an answer. A
client is identified by the worker that had it built and its token, since a
worker that has built one for a token finds one stored from then on; each client
has a cache of its own, so two clients of one user would show.

**Registration** is the registering of a run as MailSync has it, one step for
each transaction: `RegisterOk`, `RegisterFail`, `RegisterLostAck`, or left undone
with others (`Abandon`) when the context has ended. It is where the two models
meet: AccountingPool implements it, and its actions are those of MailSync
(`RegisteringIsRegistration`). A transaction is decided when its worker comes to
the send (`Decided`), not when its result is received, since the entry is made
before and nothing between the two can undo it. A pool in which any call may fail
corresponds to `registerFail` in MailSync, one that may lose answers to
`registerFail` and `lostAck`, since a category's lost answer fails the
transaction before its entry.

**ResultStream** says what both pools promise to the loop that ranges over their
channel; both are shown to implement it. It speaks of sets of jobs and would not see a result that
is sent twice; `OneResultEach` and `DeliveredOnce` say that none is.

**Buckets** is `Split` in closed form. Its order of buckets is arbitrary in the
code (it ranges over a map) and fixed here, the workers being alike.

**UserConfigCache** has the preload as one process, the workers waiting at the
`Once`, and a table that others write; a page of a Scan is a set of users, and
what it yields is gathered as a set, the order of the items being of no account.
**UserReports** goes on from there: each
worker's transaction succeeds with the configuration found or fails, results
arrive in any order and are kept per user in the order they came
(`notifPerUser`), and the users are told one by one in any order. Of a text
only its size in bytes counts; a description is a number of runes and the width
that `%q` gives one.

**Entry** follows the data of one mail: the amount (`Parse`), the map of
accounts in the ledger's order (`MapNumbers`) and the user's own mapping in the
order of a Go map (`MapName`), then the entry, or a failure and the date it
leaves behind (`Save`), and the next run's `Search`. It uses **Amount**, which
has two sides that share nothing: the bank's writes a number as a text of digits,
commas and dots (`AmountText`, by groups of three), the code's reads one
(`Value`: is there a separator before the last two digits, what do all the digits
make). What `ParseFloat` rounds is left out: an amount is exact. And **Calendar**, which has instants in seconds, zones, the stored form
(minutes, with its zone) and calendar days.

Operators marked "Mutant:" are faulty variants of the definitions that follow
them; no specification uses them. Each property is known to fail under one.

## 3. Runs

| Run | Checks | Instance |
|---|---|---|
| `sync_safe` | `TypeOK`, `NoMessageLost`, `IInv` | 2 mails, 4 days, a fallback of 2, all faults of `SafeFaults`, 3.9 M states |
| `sync_once` | `AtMostOnce`, `RegisteredIsArchived`, `ReportedIsEntered`, `LedgerSpec` | 2 mails, 3 days, `OnceFaults` |
| `sync_parse` | `ErrorBoxIsUnparsable`, `DryRunLeavesNoTrace`, `RepeatsHaveCause` | 4 mails: one parses, two do not, one is malformed; every fault but a deletion during a run, 4.1 M states |
| `sync_live` | `EventuallyEntered`, `BoundedRewind` | 2 mails, 4 days, mails under way for a day, fair, dry runs and deletions in between, 212 k states |
| `accounting_pool` | `OneClientPerToken`, `FiledUnderOwnName`, `ResultTellsEntry`, `OneResultEach`, `NobodyStuck`, `StepsRunOut`, `CategorySettles`, `DryRunKeepsLedger`, `StreamSpec`, `RegistrationSpec`, `RunContinues` | 2 workers, 3 transactions of one user, one new category wanted twice, every fault, 248 k states |
| `mail_service` | `VerdictIsTrue`, `LossStaysInBucket`, `DeliveredOnce`, `NobodyStuck`, `StreamSpec`, `StepsRunOut`, `RunContinues` | any of 3 mailboxes missing, 2 workers, 3 mails, every fault, 196 k states |
| `users` | `LookupsAgree`, `RegisteredIsFound`, `ReportIsTheOwners`, `PlainReportFits`, `EveryUserIsTold` | 4 workers, 2 users on 2 pages, every fault, 235 k states |
| `entry` | `AmountIsRead`, `AccountIsConfigured`, `FailedIsFoundAgain` | three families of mails, see Bounds |
| `archive_finding` | violates `RegisteredIsArchived` | one foreign deletion |
| `fetch_loss_finding` | violates `NoMessageLost` | one lost fetch |
| `malformed_finding` | violates `EventuallyEntered` | one mail with an unreadable part |
| `slot_finding` | violates `RunContinues` | one Select without an answer |

What they show:

- **No mail is lost** by failing moves, saves, reads, registrations and
  reports, lost answers, cancellation, panics and crashes, at any point and
  repeatedly. What does lose a mail is left out of `sync_safe` by name, in
  `SafeInstance`: a failed fetch (a finding, below), another client's deletion (a
  mail that is deleted is gone, and it renumbers the rest), an operator's
  override of the date, and clocks further apart than the day of grace.
  `Unparsable` is empty there because the first move renumbers the INBOX before
  the second.
- An unreadable date is replaced by the thirty days of `sinceFallbackDate`. A mail
  that has been refused for longer is skipped by that search, and the save at the
  end of the run moves past it: it is lost for the program. `NoMessageLost` has
  this as an exception of its own (`BeyondFallback`). In `sync_safe` the fallback
  is shorter than the days there are, so that such a mail occurs (without the
  exception TLC finds it), and no younger mail is lost, however long the process
  has been up.
- **No mail is entered twice** as long as nothing fails between the entry and
  the archiving (`OnceFaults`). The program has nothing else against doubles:
  a failed second move, a crash or a lost answer in between makes one, and TLC
  shows it as soon as such a fault is added; so does a second move whose numbers
  the first has made stale. `RepeatsHaveCause` says what one costs: a mail has at
  most one entry more than there were such mishaps. A run that ends in any other
  way, cancelled, refused or unsaved, adds none.
- `EventuallyEntered`: a mail that waits is entered in the end, unless its owner
  deletes it; one that a run has put into another mailbox does not count as deleted.
- `BoundedRewind`: the date may go back, by the sender's date of a failing
  mail, but by no more than the day of grace and the longest delay of a mail.
- The accounting pool **does** create a category twice when two workers miss it
  at the same time. `CategorySettles` is what is left: once a name is in every
  list in memory, it stays there and is not created again.
- `RegistrationSpec`: none of the dozen calls, the caches, the channel or the
  cancellation shows in what MailSync has of the registering. An entry without a
  decision, a result that differs from what happened, or a transaction left out
  by anything but the context would.
- `VerdictIsTrue`: an error of List that is dropped yields at most a report of a
  missing mailbox that exists, which ends the run as the error would have;
  never a pass with a mailbox missing.
- `ReportIsTheOwners`: the number of a report is taken from whichever of its
  transactions came first, and that is safe because all of them carry one
  view of the user (`LookupsAgree`). A mail with several recipients is the last
  registered one's.
- `PlainReportFits` is about descriptions that print as they are. One that `%q`
  escapes takes four bytes for each of its runes, and two of those are refused
  by `SendMessage`: the entries are made, the user is not told.
- `AccountIsConfigured`: when a name is mapped to a name that is mapped itself, the
  account depends on the order in which Go ranges over the mapping, but it is
  always one that the mapping leads to from the mail's name (`Led`). Without such
  chains (`Unchained`) it is the configured one. `FailedIsFoundAgain` needs
  `InReach`: a sender's clock and zone together may not be more than a day ahead
  of the server's. Without either premise TLC finds a counterexample in the same
  instance.
- A cancelled run gets to its end: no worker, reader or closer waits for ever,
  although fetchers, listers and operations of cancelled calls do. `NobodyStuck`
  and `StepsRunOut` are the two halves of the reason: until Run has everything
  somebody has a step to take (Run itself, the closer, or a worker or bucket,
  `CanGo`), and each step of a worker or of a bucket's goroutines brings it nearer
  to its end by a measure (`StepsLeft`) that no step of another takes back.
  `NobodyStuck` is more than the absence of deadlock: the end of the slot, an
  expiring cache or a server's answer does not count as a way on, except where a
  bucket waits for the server and nothing else (`AwaitsServer`).

The four findings are recorded in `PROJECT.json` with the comments they
contradict. *archive_finding*: a mail deleted by its owner while a run is
registering shifts the sequence numbers, the second move names another mail or
none, and the registered mail is entered again by the next run.
*fetch_loss_finding*: a mail whose bucket failed or that missed the time slot is
not a "failed" mail for `saveLastExecutionDate`, so the date moves past it; two
days later no search finds it. *malformed_finding*: `getCompleteMessage` tests
the error of `NextPart` for `io.EOF` only and then uses the part, which is nil;
any mail in the INBOX that is cut off kills every run before it enters anything.
*slot_finding*: a worker's Select takes no context, so a server that does not
answer it keeps `Run` waiting past the time slot that is to bound the fetching.

### Bounds

`LastUID`, `LastDay` and `MaxEntries` bound the mails, the calendar and the
doubles (2 in `sync_once` and `sync_parse`, so that a second entry can be made);
nothing in the program depends on them. Two mails are enough for one
to shift the other's sequence number and for one to hold the date back for the
other; three days are one more than the search reaches back, so that a mail can
fall behind it; four in `sync_safe`, for a mail that is older than the fallback,
and in `sync_live`, for one that is late. In `sync_parse` the
mail that parses stands between two that do not, so that a move of the latter
renumbers it, and a malformed fourth ends runs in the middle of their fetch. No
real run starts when a mail has `MaxEntries` entries, which ends a behaviour that
enters one mail for ever; the run in which the double is made is still explored.

Two workers and three jobs give a bucket with a second job while the other
worker ends, which is where the early return, the full buffer (its capacity is
the number of workers) and the stale list all occur. The three mailboxes are all
the check knows. Four workers at the `Once` are two with the same recipients and
one for each user alone, so that one user has three transactions, one more than a
report spells out; descriptions are longer than the 20 runes that are kept,
amounts have nine digits, `MaxVersion` lets a user be changed once before and
during the scan. The mails of `entry` are: 16 whole amounts around each change
of grouping, 5 kinds of cents, 6 mixes of separators, both signs; 3 names, every
mapping between them and 3 lists of accounts with shared numbers; instants around
midnight, clocks from a day behind to 20 hours ahead, zones from -8 to +14 hours
for sender and server and two for the host. No symmetry is used: mails and
workers are ordered, and the runs finish without.

Deadlock is checked where a process should go on for ever or end in a step that
says so (`Finished`, `Stopped`, `Over`). `entry` ends with the mail, so it is not
checked there; neither is it in `slot_finding`, where standing still is the point.

### Fairness

`sync_live` assumes that a started run keeps going (weak fairness), that real
runs are started again and again by the schedule (strong, because runs from the
command line come in between and make the start impossible for a while), and,
strongly, that a mail which can be registered is not refused every time by a real
run; it leaves out crashes and cancellation, which may strike every run.
`malformed_finding` is found under the same assumptions.

The pools assume weak fairness of each goroutine, which Go's scheduler gives
(`Scheduler`). `TimePasses` says that the deadline or the time slot comes when a
List or a Fetch is not answered, which is what a timer is for. `ServerAnswers`
says that Select and Search are answered; that is an assumption about the
server, since neither looks at a context, and `slot_finding` shows that it is
needed. `users` assumes that a Scan and an entry get an answer and that the loop
over the users goes on.

## 4. Proofs

Every safety invariant and every action property that a passing run checks, and
the four refinements, hold for all values of the constants that the modules'
assumptions allow. TLC shows them on a small instance, these theorems for any
number of mails, users, workers and faults.

| Module | Obligations | Theorem | States | For |
|---|---|---|---|---|
| `MailSync_proofs` | 900 | `TypeCorrect` | `TypeOK` | all faults |
| | | `InductiveInvariant`, `NothingLost` | `IInv`, `NoMessageLost` | `SafeInstance` |
| `MailLedger_proofs` | 1321 | `DryRunIsTraceless`, `ReportsAreTrue` | `DryRunLeavesNoTrace`, `ReportedIsEntered` | all faults |
| | | `EnteredAtMostOnce`, `RegisteredIsAlwaysArchived` | `AtMostOnce`, `RegisteredIsArchived` | `OnceInstance` |
| | | `RunsImplementLedger` | `LedgerSpec` | `LedgerInstance` |
| | | `ErrorBoxIsAlwaysUnparsable`, `RepeatsAlwaysHaveCause` | `ErrorBoxIsUnparsable`, `RepeatsHaveCause` | no deletion during a run |
| | | `RewindIsBounded` | `BoundedRewind` | `RewindInstance` |
| | | `RegisteringIsRegistration` | MailSync registers by the actions of Registration | all faults |
| `AccountingPool_proofs` | 2435 | `OneClientForEachToken`, `EntriesAreFiledRight`, `ResultsAreTrue`, `EachHasOneResult`, `DryRunIsHarmless`, `CategoriesSettle`, `PoolImplementsStream`, `PoolImplementsRegistration`, `PoolNeverStuck`, `PoolStepsRunOut` | `OneClientPerToken`, `FiledUnderOwnName`, `ResultTellsEntry`, `OneResultEach`, `DryRunKeepsLedger`, `CategorySettles`, `StreamSpec`, `RegistrationSpec`, `NobodyStuck`, `StepsRunOut` | all faults |
| `MailService_proofs` | 1376 | `CheckTellsTheTruth`, `MailsDeliveredOnce`, `LossesStayInBucket`, `FetchImplementsStream`, `FetchNeverStuck`, `FetchStepsRunOut` | `VerdictIsTrue`, `DeliveredOnce`, `LossStaysInBucket`, `StreamSpec`, `NobodyStuck`, `StepsRunOut` | all faults |
| `UserReports_proofs` | 663 | `OneViewOfTheUsers`, `RegisteredIsAlwaysFound`, `ReportsGoToOwners` | `LookupsAgree`, `RegisteredIsFound`, `ReportIsTheOwners` | all faults |
| | | `PlainReportsFit` | `PlainReportFits` | `FitsInstance` |
| `Entry_proofs` | 365 | `AmountIsAlwaysRead`, `AccountIsAlwaysConfigured`, `FailedIsAlwaysFoundAgain` | `AmountIsRead`, `AccountIsConfigured`, `FailedIsFoundAgain` | all mails |
| `Amount_proofs` | 628 | `ValueIsWritten` | what the code reads is what the bank wrote | any amount |
| `Buckets_proofs` | 216 | `SplitPartitions` | what `Split` returns | any length |

### The runs

`NoMessageLost` is not inductive. It says that the stored date lies in reach of
every waiting mail, and `Save` sets the date to today unless a failed mail is
older; so one must know that at `Save` every waiting mail is among the failed
ones or arrived since the run began. `WaitingInHand` says so for each step of a run:
from the search on, a waiting mail is found by it, or pending, or in the list
being registered, or failed, or the run cannot save at all (dry or cancelled).
To carry a mail from the search to the fetch one needs that its sequence number
still names it (`HandlesFresh`), and to move only entered mails out of the INBOX
one needs the same and `OkIsEntered`. `Clock` bounds how far dates may run
ahead: the day of grace covers a midnight within a run (`RunSpan <= GraceDays`)
and a sender's clock (`Skew <= GraceDays`). `SafeInstance` lists the assumptions;
each was found by a counterexample. A fallback of any length is allowed, as a mail
that is `BeyondFallback` stays so. Malformed mails are allowed: a panic loses
time, not mail. The lemmas about sequence numbers (`SeqNum` is a natural number,
is injective on the INBOX, and does not change for old mails when one arrives)
rest on the library's theorems about cardinality.

`AtMostOnce` needs `EnteredIsGone`: a mail with an entry has left the INBOX, or
the run that entered it has it in `ok` and is about to move it. That the move
removes it takes `HandlesFresh` once more. So a search never finds an entered
mail, and `NoneTwice` keeps one run from registering a mail twice. `OnceInstance`
excludes what breaks exactly this: a move that fails, a lost answer, a crash
between entry and move, a deletion during the run, and mails that do not parse,
whose move renumbers the INBOX before the second move. Each of the five, added to
`sync_once`, makes TLC find a mail that is entered twice. Deadlines, lost fetches, refusals, an override and a deletion
between two runs are allowed. The runs `sync_once` and `sync_live` are members.

`RunsImplementLedger` maps each step to Receive, Enter, Archive or a stutter; an
entry is a step of MailLedger only because of `AtMostOnce'`. `LedgerInstance`
excludes the deletion between two runs too, since a mail that somebody deletes
is never entered, which MailLedger does not provide for.

`ErrorBoxIsAlwaysUnparsable` needs that what did not parse still stands in the
INBOX under its number until it is moved (`UnparsedFresh`); that is why the first
move is right and the second may not be.

`RepeatsAlwaysHaveCause` drops all but one of the five: moves may fail half-way or
be misdirected by an earlier move, answers may be lost and the process may die, any
number of times. `LeftHasCause` is what is left of `EnteredIsGone`: a mail that is
still in the INBOX has no more entries than there were mishaps, unless the run that
has just made one is about to move it. So a run adds one to a count that was
covered, the move takes the mail out, and whatever keeps it in is itself a mishap.
`TrxsSound` stands for `HandlesFresh`: the numbers are good until the first move,
which takes out none of the transactions' mails (`FirstMoveNames`), so that they
stay different mails of the INBOX. A deletion during a run breaks that: one mail
may then be fetched under two numbers.

`RewindIsBounded` needs that the mails a run has in hand are no older than the
day it searched from, and that their senders' dates are at most `Delay` older.
The first is about sequence numbers: `FoundInRange` says that a number the search
found and all above it name mails of the days searched, which a deletion leaves
true, as it moves later mails to lower numbers. `RewindInstance` excludes the
override and the fallback date, which may lie as far back as anyone likes: a mail
that had fallen behind the stored date is found by them again, fails, and takes the
date back with it. The run `sync_live` is a member.

### The pools

Both pools rest on `Buckets_proofs`: every position is in exactly one place of one
bucket, no bucket is empty, and so the buckets of a list without repeats hold
each element once and nothing else (`DealtExactly`).

*Accounting pool.* `ResultsAreTrue` follows a transaction along the place it has
in its bucket: a place ahead of the worker has no entry, a result lies only
behind it, and at `send` the error tells what happened (`TurnTaken`).
`EachHasOneResult` adds that no open transaction has a result (`Apart`), that each
is open or answered unless the context ended (`Complete`), and counts.
`OneClientForEachToken` needs that a stored client is never replaced (`ClientsFit`)
and that a worker holds what is stored. `EntriesAreFiledRight`: nothing takes a
category out of a ledger, so lists and caches may be short but are always subsets
of what the ledger has (`Listed`, `CachesFit`), and what is chosen or created is
there (`Sorted`). `CategoriesSettle` shows that each of the steps that write a
list or a cache, those of operations left behind included, writes one that has
the name.

`PoolImplementsRegistration` looks at three kinds of steps (`OwnDecisions`): a
worker comes to its send and so decides (`Decides`), or ends before its bucket
does, which only the context makes it do (`Leaves`), or leaves the three sets as
they are (`Keeps`); to send and to receive a result moves it on within one of them
(`SendingShows`). That the ledger changes together with the decision is in the
same case split. A failed decision must have a reason: an error exists only where
a call failed or the context ended (`Reasons`). Since each place of a bucket has a
transaction of its own, a decision takes exactly one from the undecided
(`DecisionShows`).

*Mail service.* `AllPlaced` says where each mail of a bucket is: the Fetch still
has the end of it, at most one is on offer by the reader, the others have gone to
the worker, and the one in its hand has not been sent; `DeliveredOnce` is a count
over that. `LossesStayInBucket` needs the converse while neither an error of the
bucket nor the slot intervenes (`Kept`): what has been handed over is sent or in
hand, the reader leaves with nothing to come, and the pool's own context ends
after the channel is closed (`PoolEnds`). `CheckTellsTheTruth`: what the loop has
gathered and what List has yet to send are all the mailboxes there are, as long
as no verdict is out. These theorems are about `ServiceSpec`, the pool behind the
check and the search; `FetchImplementsStream` is therefore about every run
that gets that far.

*Nobody stuck.* The invariants above say what a worker has done; these say that it
can go on. In the accounting pool a worker that waits for its call has one, unless
the context has ended and it need not wait (`Waits`). In the fetch pool a worker
that takes mails has a reader, and the reader a Fetch, unless they have ended
(`Wired`); a reader that is ended says so by closing its channel, a Fetch by
closing another, and the chain unwinds from its beginning. A full buffer is no
obstacle: there are as many places as workers and at least one worker, so that
when Run has nothing to receive there is room (`SomeRoom`).

*Steps run out.* `StepsLeft` weighs what is still to do: 16 for each transaction
that a worker has before it, the rank of its step, and three for a call that was
started, which it keeps when the worker leaves it behind; 3 for each mail of a
bucket that the Fetch has, and the ranks of the four goroutines. That each step lowers it is
a proof by cases, one for each action; that no other step touches it is `Own` and
`OwnBucket`. The two theorems together leave to TLC only the last step of
`RunContinues`, that a step which stays possible is taken.

### The users

`LookupsInv` says that the cache does not change after the Once, and that a lookup
keeps the last of the recipients it has asked for that has a configuration
(`Kept`). Two lookups that end with the same recipients have gone through the same
list over the same cache. `ScanInv` carries a registered user from a page to the
items to the cache. `ReportsGoToOwners` needs that all results kept for a user
carry the cache's configuration of that user (`GroupedRight`).

`PlainReportsFit` is arithmetic: a line is at most 50 bytes if its description
prints as it is and its amount has at most 13 digits, so that a report has at most
152. `FitsInstance` says just that and that the limit is 153 or more, as
`twilio.go` has it. Amounts in the run have 9 digits.

### The data of a mail

- `AmountIsAlwaysRead` rests on `ValueIsWritten`. Both sides of `Amount` are
  recursive functions, one over the places of a text and one over a number that
  loses three digits at a time, so the proof is by induction. The library's
  induction theorems take an operator, which these provers cannot instantiate;
  `SetInduction` says the same of a set (the numbers that have the property) and
  follows from the well-foundedness of < on the naturals. `Reads` and `Prints` say that
  each function exists and what its equations are. `Spells`: a whole number's text has
  its digits and no others, and the third character from its end, if there are four or
  more, is a digit, which is the crux: `HasDecimals` never takes a last group of
  thousands for cents.
  The `NumberOf` lemmas put the number read from a text together from those read
  from its parts.
- `AccountIsAlwaysConfigured`: `AccountsSoFar` says that after k accounts each name
  has the last of them with its number. While the mapping is gone through,
  `NamesSoFar` splits the names: those still to come have the account of their own
  number, the others the configured one. For a name to be looked at, the target
  must be untouched, which is where `Unchained` comes in: the target is no key,
  so it is never written, in any order. With chains `NamesLed` remains: each name
  always has an account it leads to, since a name takes over what its target has
  at that moment, and where the target leads the name leads too.
- `FailedIsAlwaysFoundAgain`: `StoredForMail` says the stored date is, to the minute,
  no later than the mail's and in one of two zones; the lemma `SearchReaches` is
  the arithmetic: cutting the seconds lowers an instant, a day is taken off, and
  division by the length of a day is monotonic.

`EntryInv` is the conjunction and is inductive. It is not among the invariants of
`entry`, because `StoredForMail` quantifies over all times.

### Only model-checked

- Liveness: `EventuallyEntered`, `RunContinues` of both pools, `EveryUserIsTold`.
  TLAPS has no proof rule here for fairness, which needs ENABLED. For the pools the
  theorems above come as near as that allows. That `CanGo` of the accounting pool is
  exactly that a step of the worker is enabled was also checked with TLC alone.
- The four findings, which are counterexamples.

## 5. Not modelled

- Which of the ten expressions matches a mail, and the fields they extract. That
  the filter and the parser share them means that a mail with a new wording is
  silently no bank mail; what the bank will write is outside the program.
- Amounts with one decimal ("1,000.5"), which the code reads ten times too large:
  the bank is not known to write them. That an amount is a float64 in the program:
  one of 16 digits or more may be off by a cent or more.
- The MIME walk of `getCompleteMessage`, but for its outcomes: a mail, an error, a
  panic.
- The proxy's cache of accounts: accounts do not change during a run.
- The zone a report's date is shown in.
- The exhaustion of connections: they are taken from a pool, never put back nor
  logged out. When the server refuses one more, `getClient` panics, and that is
  a `Crash` at any step.
- Two runs at once: nothing prevents them (a Lambda retry beside a command line
  would do). Every mail both of them fetch is entered twice, and each other's
  moves renumber the INBOX as the deletion of `archive_finding` does.
- `SaveUserConfig` (no caller), `SendMail`, the maintenance commands, the logger,
  flags and files.

## 6. Plan

*Done*: every component that holds state or decides something is modelled, as
listed above; every safety property, every action property and every refinement is
proved.

What is left:

1. Weaker instances: whether `AtMostOnce` and `SafeInstance` can admit mails that
   do not parse as long as none of them stands before one that does.
2. The invariants of the proofs of the pools as invariants of runs, which would
   show a reader small states in which each conjunct matters.
