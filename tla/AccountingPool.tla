--------------------------- MODULE AccountingPool ---------------------------
(***************************************************************************)
(* registerTrxsIntoAccounting (internal/sync/accounting.go) over           *)
(* ToshlService (services/accountingserv) and its caching proxy: a worker  *)
(* per bucket of transactions registers them one by one through clients    *)
(* shared by token, each with its cache of categories, and sends one       *)
(* result per transaction to a buffered channel that Sync.Run drains.      *)
(*                                                                         *)
(* A list of categories is a set of [id, name]; the ledger gives out ids.  *)
(* Accounts do not change while a run lasts, so their cache is left out.   *)
(***************************************************************************)
EXTENDS Buckets, FiniteSets

CONSTANTS
  Trxs,            \* the transactions of the run, in the order of the fetch
  Token, Name,
  TokenOf, NameOf, \* per transaction: whose ledger, which category
  Cpus,            \* runtime.NumCPU()
  Known,           \* names every ledger has a category for at the start
  DryRuns,         \* the values Sync.DryRun may have
  Faults

Kinds == {"refused",   \* config, accounts, categories or mapping fail
          "rejected",  \* CreateCategory or CreateEntry is rejected
          "lostAck",   \* it is carried out and the answer is an error
          "cancel",    \* the context is cancelled
          "expiry"}    \* a cached list reaches its five minutes

Trx    == {Trxs[i] : i \in DOMAIN Trxs}
Worker == 1..Routines(Cpus, Trxs)
Bucket == Split(Routines(Cpus, Trxs), Trxs)

ASSUME PoolAssumption ==
  /\ Trxs \in Seq(Trx)
  /\ \A i, j \in DOMAIN Trxs : Trxs[i] = Trxs[j] => i = j
  /\ TokenOf \in [Trx -> Token] /\ NameOf \in [Trx -> Name]
  /\ Cpus \in Nat \ {0}
  /\ Known \subseteq Name /\ IsFiniteSet(Known)
  /\ DryRuns \subseteq BOOLEAN /\ Faults \subseteq Kinds

VARIABLES
  \* per worker: where it is, which of its transactions, what it holds
  pc, at, list, catID, err,
  op,        \* per worker: its goroutine of doCancelableOperation
  clients,   \* ToshlService.clients: the client of a token, if it has one
  holds,     \* per worker: the client its calls go to
  cache,     \* per client: {} or {the cached list}
  ledgerCats, nextID, entries, filedIn,
  out, closed, got,
  ctxDone, dryRun

worker == <<pc, at, list, catID, err>>
shared == <<clients, holds, cache>>
ledger == <<ledgerCats, nextID, entries, filedIn>>
chan   == <<out, closed, got>>
run    == <<ctxDone, dryRun>>
vars   == <<worker, op, shared, ledger, chan, run>>

NoCat == 0

Cur(w) == Bucket[w][at[w]]
Tok(w) == TokenOf[Cur(w)]
Client(w) == clients[Tok(w)]
(* A client is known by the worker that had it built and by its token: a    *)
(* worker that has built one for a token finds one there from then on.      *)
NewClient(w) == <<w, Tok(w)>>
NoClient == <<>>
Names(cats) == {c.name : c \in cats}
Fault(k) == k \in Faults

Init ==
  /\ pc = [w \in Worker |-> "next"] /\ at = [w \in Worker |-> 0]
  /\ list = [w \in Worker |-> {}] /\ catID = [w \in Worker |-> NoCat]
  /\ err = [w \in Worker |-> FALSE] /\ op = [w \in Worker |-> "none"]
  /\ clients = [k \in Token |-> NoClient] /\ holds = [w \in Worker |-> NoClient]
  /\ cache = [c \in Worker \X Token |-> {}]
  /\ nextID = 1 + Cardinality(Known)
  /\ \E ids \in [Known -> 1..Cardinality(Known)] :
        /\ \A m, n \in Known : ids[m] = ids[n] => m = n
        /\ ledgerCats = [k \in Token |-> {[id |-> ids[n], name |-> n] : n \in Known}]
  /\ entries = [t \in Trx |-> 0] /\ filedIn = [t \in Trx |-> NoCat]
  /\ out = <<>> /\ closed = FALSE /\ got = <<>> /\ ctxDone = FALSE
  /\ dryRun \in DryRuns

Goto(w, l) == pc' = [pc EXCEPT ![w] = l]

(* registerSingleTrxIntoAccounting returns, with an error or without. *)
Return(w, e) == Goto(w, "send") /\ err' = [err EXCEPT ![w] = e]

-----------------------------------------------------------------------------
(* The loop of a worker, up to its client. *)

NextTrx(w) ==
  /\ pc[w] = "next"
  /\ IF at[w] = Len(Bucket[w]) \/ ctxDone
     THEN Goto(w, "done") /\ UNCHANGED at
     ELSE Goto(w, "config") /\ at' = [at EXCEPT ![w] = @ + 1]
  /\ UNCHANGED <<list, catID, err, op, shared, ledger, chan, run>>

GetUserConfig(w) ==
  /\ pc[w] = "config"
  /\ \/ Goto(w, "load") /\ UNCHANGED err
     \/ (Fault("refused") \/ ctxDone) /\ Return(w, TRUE)
  /\ UNCHANGED <<at, list, catID, op, shared, ledger, chan, run>>

LoadClient(w) ==
  /\ pc[w] = "load"
  /\ IF Client(w) # NoClient
     THEN Goto(w, "accounts") /\ holds' = [holds EXCEPT ![w] = Client(w)]
     ELSE Goto(w, "build") /\ UNCHANGED holds
  /\ UNCHANGED <<at, list, catID, err, op, clients, cache, ledger, chan, run>>

(* Mutant: Store where LoadOrStore is meant. *)
LastBuilt(w) == NewClient(w)
FirstStored(w) == IF Client(w) = NoClient THEN NewClient(w) ELSE Client(w)

LoadOrStoreClient(w) ==
  /\ pc[w] = "build"
  /\ clients' = [clients EXCEPT ![Tok(w)] = FirstStored(w)]
  /\ holds' = [holds EXCEPT ![w] = FirstStored(w)]
  /\ Goto(w, "accounts")
  /\ UNCHANGED <<at, list, catID, err, op, cache, ledger, chan, run>>

GetAccounts(w) ==
  /\ pc[w] = "accounts"
  /\ \/ Goto(w, "categories") /\ UNCHANGED err
     \/ (Fault("refused") \/ ctxDone) /\ Return(w, TRUE)
  /\ UNCHANGED <<at, list, catID, op, shared, ledger, chan, run>>

-----------------------------------------------------------------------------
(* GetCategories: doCancelableOperation runs the proxy's Categories in a   *)
(* goroutine of its own and waits for its answer or for the context.  When *)
(* the context wins, the goroutine carries on: it may still fill the cache *)
(* and then blocks on an answer nobody takes.                              *)

StartCategories(w) ==
  /\ pc[w] = "categories"
  /\ holds' = [holds EXCEPT ![w] = Client(w)]
  /\ op' = [op EXCEPT ![w] = "get"]
  /\ Goto(w, "wait")
  /\ UNCHANGED <<at, list, catID, err, clients, cache, ledger, chan, run>>

CacheGet(w) ==
  /\ op[w] = "get"
  /\ \/ /\ cache[holds[w]] = {}
        /\ op' = [op EXCEPT ![w] = "fetch"]
        /\ UNCHANGED list
     \/ \E cats \in cache[holds[w]] :
          /\ op' = [op EXCEPT ![w] = "answer"]
          /\ list' = [list EXCEPT ![w] = cats]
  /\ UNCHANGED <<pc, at, catID, err, shared, ledger, chan, run>>

FetchCategories(w) ==
  /\ op[w] = "fetch"
  /\ \/ /\ list' = [list EXCEPT ![w] = ledgerCats[Tok(w)]]
        /\ op' = [op EXCEPT ![w] = "set"]
     \/ /\ Fault("refused")
        /\ op' = [op EXCEPT ![w] = "fail"]
        /\ UNCHANGED list
  /\ UNCHANGED <<pc, at, catID, err, shared, ledger, chan, run>>

CacheSet(w) ==
  /\ op[w] = "set"
  /\ cache' = [cache EXCEPT ![holds[w]] = {list[w]}]
  /\ op' = [op EXCEPT ![w] = "answer"]
  /\ UNCHANGED <<worker, clients, holds, ledger, chan, run>>

TakeAnswer(w) ==
  /\ pc[w] = "wait"
  /\ \/ op[w] = "answer" /\ Goto(w, "decide") /\ op' = [op EXCEPT ![w] = "none"] /\ UNCHANGED err
     \/ op[w] = "fail" /\ Return(w, TRUE) /\ op' = [op EXCEPT ![w] = "none"]
     \/ ctxDone /\ Return(w, TRUE) /\ UNCHANGED op
  /\ UNCHANGED <<at, list, catID, shared, ledger, chan, run>>

-----------------------------------------------------------------------------
(* createCategoryIfAbsent, once it has its list. *)

(* Mutant: the dry run is noticed too late. *)
CreateAnyway == "create"
IfAbsent == IF dryRun THEN "account" ELSE "create"

Decide(w) ==
  /\ pc[w] = "decide"
  /\ \/ \E c \in list[w] :
          /\ c.name = NameOf[Cur(w)]
          /\ catID' = [catID EXCEPT ![w] = c.id]
          /\ Goto(w, "account")
     \/ /\ NameOf[Cur(w)] \notin Names(list[w])
        /\ catID' = [catID EXCEPT ![w] = NoCat]
        /\ Goto(w, IfAbsent)
  /\ UNCHANGED <<at, list, err, op, shared, ledger, chan, run>>

AddCategory(w) ==
  /\ ledgerCats' = [ledgerCats EXCEPT
        ![Tok(w)] = @ \cup {[id |-> nextID, name |-> NameOf[Cur(w)]]}]
  /\ nextID' = nextID + 1
  /\ UNCHANGED <<entries, filedIn>>

CreateCategory(w) ==
  /\ pc[w] = "create"
  /\ holds' = [holds EXCEPT ![w] = Client(w)]
  /\ \/ /\ AddCategory(w)
        /\ catID' = [catID EXCEPT ![w] = nextID]
        /\ UNCHANGED err
     \/ /\ \/ Fault("rejected") /\ UNCHANGED ledger
           \/ Fault("lostAck") /\ AddCategory(w)
        /\ err' = [err EXCEPT ![w] = TRUE]
        /\ UNCHANGED catID
  /\ Goto(w, "invalidate")
  /\ UNCHANGED <<at, list, op, clients, cache, chan, run>>

(* Mutants: the error is dropped; the new category takes the list's place. *)
AccountAnyway(w) == "account"
OnlyTheNew(w) == IF err[w] THEN {} ELSE {{[id |-> catID[w], name |-> NameOf[Cur(w)]]}}
AfterCreate(w) == IF err[w] THEN "send" ELSE "account"
Invalidated(w) == {}

(* The deferred Delete runs whether the category was created or not. *)
CacheDelete(w) ==
  /\ pc[w] = "invalidate"
  /\ cache' = [cache EXCEPT ![holds[w]] = Invalidated(w)]
  /\ Goto(w, AfterCreate(w))
  /\ UNCHANGED <<at, list, catID, err, op, clients, holds, ledger, chan, run>>

-----------------------------------------------------------------------------
(* The entry and the result. *)

MapAccount(w) ==
  /\ pc[w] = "account"
  /\ \/ Fault("refused") /\ Return(w, TRUE)
     \/ dryRun /\ Return(w, FALSE)
     \/ ~dryRun /\ Goto(w, "entry") /\ UNCHANGED err
  /\ UNCHANGED <<at, list, catID, op, shared, ledger, chan, run>>

AddEntry(w) ==
  /\ entries' = [entries EXCEPT ![Cur(w)] = @ + 1]
  /\ filedIn' = [filedIn EXCEPT ![Cur(w)] = catID[w]]
  /\ UNCHANGED <<ledgerCats, nextID>>

(* Mutant: an error is answered by trying once more. *)
TryAgain(w) == Goto(w, "entry") /\ UNCHANGED err
GiveUp(w) == Return(w, TRUE)

CreateEntry(w) ==
  /\ pc[w] = "entry"
  /\ \/ AddEntry(w) /\ Return(w, FALSE)
     \/ Fault("rejected") /\ GiveUp(w) /\ UNCHANGED ledger
     \/ Fault("lostAck") /\ AddEntry(w) /\ GiveUp(w)
  /\ UNCHANGED <<at, list, catID, op, shared, chan, run>>

ResultOf(w) == [trx |-> Cur(w), failed |-> err[w]]

(* Mutant: an error is reported at once, and again with the result. *)
WithErrorTwice(w) ==
  IF err[w] THEN out \o <<ResultOf(w), ResultOf(w)>> ELSE Append(out, ResultOf(w))
WithResult(w) == Append(out, ResultOf(w))
Room == Len(out) < Cardinality(Worker)

Send(w) ==
  /\ pc[w] = "send" /\ Room
  /\ out' = WithResult(w)
  /\ Goto(w, "next")
  /\ list' = [list EXCEPT ![w] = IF op[w] = "none" THEN {} ELSE @]
  /\ catID' = [catID EXCEPT ![w] = NoCat] /\ err' = [err EXCEPT ![w] = FALSE]
  /\ UNCHANGED <<at, op, shared, ledger, closed, got, run>>

(* Mutant: the closer waits for one worker only. *)
OneDone == \E w \in Worker : pc[w] = "done"
AllDone == \A w \in Worker : pc[w] = "done"

Close ==
  /\ ~closed /\ AllDone
  /\ closed' = TRUE
  /\ UNCHANGED <<worker, op, shared, ledger, out, got, run>>

(* Mutant: Run stops at the first failed result. *)
UntilFailure == out # <<>> /\ \A i \in DOMAIN got : ~got[i].failed
ToTheEnd == out # <<>>

(* The loop of Run over the results. *)
Receive ==
  /\ ToTheEnd
  /\ got' = Append(got, Head(out)) /\ out' = Tail(out)
  /\ UNCHANGED <<worker, op, shared, ledger, closed, run>>

Cancel ==
  /\ Fault("cancel") /\ ~ctxDone
  /\ ctxDone' = TRUE
  /\ UNCHANGED <<worker, op, shared, ledger, chan, dryRun>>

Expire ==
  /\ Fault("expiry")
  /\ \E c \in DOMAIN cache : cache[c] # {} /\ cache' = [cache EXCEPT ![c] = {}]
  /\ UNCHANGED <<worker, op, clients, holds, ledger, chan, run>>

-----------------------------------------------------------------------------
Ranged == closed /\ out = <<>>

(* The run is over; TLC need not call that a deadlock. *)
Finished == Ranged /\ UNCHANGED vars

WorkerStep(w) ==
  \/ NextTrx(w) \/ GetUserConfig(w) \/ LoadClient(w) \/ LoadOrStoreClient(w)
  \/ GetAccounts(w) \/ StartCategories(w) \/ TakeAnswer(w) \/ Decide(w)
  \/ CreateCategory(w) \/ CacheDelete(w) \/ MapAccount(w) \/ CreateEntry(w) \/ Send(w)

OpStep(w) == CacheGet(w) \/ FetchCategories(w) \/ CacheSet(w)

Next ==
  \/ \E w \in Worker : WorkerStep(w) \/ OpStep(w)
  \/ Close \/ Receive \/ Cancel \/ Expire \/ Finished

Spec == Init /\ [][Next]_vars

(* Go runs every goroutine that can run, and every call returns. *)
FairSpec ==
  /\ Spec
  /\ \A w \in Worker : WF_vars(WorkerStep(w)) /\ WF_vars(OpStep(w))
  /\ WF_vars(Close) /\ WF_vars(Receive)

-----------------------------------------------------------------------------
(* Properties. *)

Results == {out[i] : i \in DOMAIN out} \cup {got[i] : i \in DOMAIN got}
Answered == {r.trx : r \in Results}
Pending(w) ==
  {Bucket[w][i] : i \in {j \in DOMAIN Bucket[w] :
      IF pc[w] = "next" THEN j > at[w] ELSE pc[w] # "done" /\ j >= at[w]}}

Calling == {"accounts", "categories", "wait", "decide", "create", "invalidate",
            "account", "entry"}

(* Two workers of the same user go through the same client, and so through  *)
(* the same cache, however their first calls of getClient interleave.       *)
OneClientPerToken == \A w \in Worker : pc[w] \in Calling /\ holds[w] # NoClient => holds[w] = Client(w)

(* An entry is filed under a category that its own user's ledger has and    *)
(* that carries the name createCategoryIfAbsent asked for, also when the    *)
(* list it was found in is stale.                                           *)
FiledUnderOwnName ==
  \A t \in Trx : entries[t] > 0 =>
    \E c \in ledgerCats[TokenOf[t]] : c.id = filedIn[t] /\ c.name = NameOf[t]

(* Run can trust a result: success is exactly one entry, failure is none    *)
(* unless only the answer was lost, and then one.                           *)
ResultTellsEntry ==
  \A r \in Results :
    IF r.failed
    THEN entries[r.trx] = 0 \/ (Fault("lostAck") /\ entries[r.trx] = 1)
    ELSE entries[r.trx] = IF dryRun THEN 0 ELSE 1

(* A transaction has one result at most, and one unless the context ended:  *)
(* what Run counts as registered or failed is each mail once, although its  *)
(* results come from several workers and none says how many will come.      *)
OneResultEach ==
  /\ Len(out) + Len(got) = Cardinality(Answered)
  /\ Ranged /\ ~ctxDone => Answered = Trx

(* A worker has a step to take that no other goroutine must make room for. *)
CanGo(w) ==
  CASE pc[w] = "done" -> FALSE
    [] pc[w] = "send" -> Room
    [] pc[w] = "wait" -> op[w] # "none" \/ ctxDone
    [] OTHER          -> TRUE

(* Workers wait for room in the channel, the closer for all workers, Run    *)
(* for results or the close, and a cancelled call leaves an answer behind   *)
(* that nobody takes; yet until Run has all results, they never wait for    *)
(* each other in a circle.                                                  *)
NobodyStuck ==
  Ranged \/ ToTheEnd \/ (AllDone /\ ~closed) \/ \E w \in Worker : CanGo(w)

(* The steps that a worker and its call have left at most. *)
Rank ==
  [done |-> 0, next |-> 1, send |-> 2, entry |-> 3, account |-> 4, invalidate |-> 5,
   create |-> 6, decide |-> 7, wait |-> 8, categories |-> 12, accounts |-> 13, build |-> 14,
   load |-> 15, config |-> 16]
CallRank == [none |-> 0, answer |-> 0, fail |-> 0, set |-> 1, fetch |-> 2, get |-> 3]
StepsLeft(w) == 16 * (Len(Bucket[w]) - at[w]) + Rank[pc[w]] + CallRank[op[w]]

(* Nor do they go round in circles: a failure is never tried again, and     *)
(* whatever fails, each step of a worker or of its call brings it nearer to *)
(* its end, and no step of another takes it back.                           *)
StepsRunOut ==
  [][\A w \in Worker :
       /\ StepsLeft(w)' <= StepsLeft(w)
       /\ WorkerStep(w) \/ OpStep(w) => StepsLeft(w)' < StepsLeft(w)]_vars

(* Every list in memory has the name, and no worker is about to create it. *)
Settled(k, n) ==
  /\ n \in Names(ledgerCats[k])
  /\ clients[k] # NoClient => \A cats \in cache[clients[k]] : n \in Names(cats)
  /\ \A w \in Worker : at[w] > 0 /\ Tok(w) = k =>
       /\ pc[w] = "decide" \/ op[w] \in {"set", "answer"} => n \in Names(list[w])
       /\ pc[w] = "create" => NameOf[Cur(w)] # n

(* Stale lists die out.  Two workers that both miss a category both create  *)
(* it, and a list fetched before a creation may be put back in the cache    *)
(* after its Delete; but once every list in memory has a name, none ever    *)
(* lacks it again and the name is never created again.  So a category that  *)
(* exists before the run gets no double.                                    *)
CategorySettles ==
  [][\A k \in Token, n \in Name : Settled(k, n) =>
       /\ Settled(k, n)'
       /\ {c \in ledgerCats'[k] : c.name = n} = {c \in ledgerCats[k] : c.name = n}]_vars

(* A dry run creates neither a category nor an entry. *)
DryRunKeepsLedger == [][dryRun => UNCHANGED ledger]_vars

(* The channel keeps the promise Run relies on. *)
Stream == INSTANCE ResultStream WITH
  Job      <- Trx,
  open     <- UNION {Pending(w) : w \in Worker},
  answered <- Answered,
  excused  <- ctxDone,
  closed   <- closed
StreamSpec == Stream!Spec

(* What has been decided with success or failure, its result on its way     *)
(* included, and what has not, but for what a worker left undone.           *)
Decided(e) ==
  {r.trx : r \in {x \in Results : x.failed = e}}
    \cup {Cur(w) : w \in {v \in Worker : pc[v] = "send" /\ err[v] = e}}
Ahead(w, i) ==
  pc[w] # "done" /\ (i > at[w] \/ (i = at[w] /\ pc[w] \notin {"send", "next"}))
Undecided == UNION {{Bucket[w][i] : i \in {j \in DOMAIN Bucket[w] : Ahead(w, j)}} : w \in Worker}

(* The pool is what MailSync takes it for: as far as the lists of Run and   *)
(* the ledger's entries show, each transaction is decided in one step,      *)
(* whatever calls, caches and failures lie behind it, and only the end of   *)
(* the context leaves any undecided.                                        *)
MayFail == \E k \in {"refused", "rejected", "lostAck"} : Fault(k)
Registering == INSTANCE Registration WITH
  Mail       <- Trx,
  MailOf     <- [t \in Trx |-> t],
  MayLoseAck <- Fault("lostAck"),
  trxs       <- Undecided,
  ok         <- Decided(FALSE),
  failed     <- Decided(TRUE),
  over       <- Ranged
RegistrationSpec == Registering!Spec

(* Run always gets to the end of the results, cancelled or not. *)
RunContinues == <>Ranged
=============================================================================
