----------------------- MODULE AccountingPool_proofs -----------------------
(***************************************************************************)
(* The accounting pool, for any transactions, users, categories and number *)
(* of workers.                                                             *)
(***************************************************************************)
EXTENDS AccountingPool, Buckets_proofs, FiniteSetTheorems, SequenceTheorems

(* The buckets hold every transaction at one place, and nothing else. *)
LEMMA Dealt ==
  /\ \A w \in Worker : Bucket[w] \in Seq(Trx)
  /\ \A w, v \in Worker : \A i \in 1..Len(Bucket[w]), j \in 1..Len(Bucket[v]) :
       Bucket[w][i] = Bucket[v][j] => w = v /\ i = j
  /\ \A t \in Trx : \E w \in Worker : \E i \in 1..Len(Bucket[w]) : Bucket[w][i] = t
<1>1. Trxs \in Seq(Trx) /\ Cpus \in Nat \ {0} /\ NoRepeats(Trxs)
  BY PoolAssumption DEF NoRepeats
<1>2. Exact(Worker, Bucket, Trxs, Trx)
  BY <1>1, DealtExactly DEF Worker, Bucket
<1>3. \A t \in Trx : \E k \in DOMAIN Trxs : Trxs[k] = t
  BY DEF Trx
<1> QED
  BY <1>2, <1>3 DEF Exact

-----------------------------------------------------------------------------
(* Type correctness.                                                       *)

Category == [id : Nat, name : Name]
Result == [trx : Trx, failed : BOOLEAN]
Stage == {"next", "config", "load", "build", "send", "done"} \cup Calling

(* A worker that has a transaction is at a place of its bucket. *)
Placed(w) ==
  /\ at[w] <= Len(Bucket[w])
  /\ pc[w] \notin {"next", "done"} \/ op[w] # "none" => at[w] >= 1

WorkerTypes ==
  /\ pc \in [Worker -> Stage] /\ at \in [Worker -> Nat] /\ err \in [Worker -> BOOLEAN]
  /\ op \in [Worker -> {"none", "get", "fetch", "set", "answer", "fail"}]

DataTypes == list \in [Worker -> SUBSET Category] /\ catID \in [Worker -> Nat]

ClientTypes ==
  /\ clients \in [Token -> {NoClient} \cup (Worker \X Token)]
  /\ holds \in [Worker -> {NoClient} \cup (Worker \X Token)]
  /\ cache \in [Worker \X Token -> SUBSET SUBSET Category]

LedgerTypes ==
  /\ ledgerCats \in [Token -> SUBSET Category] /\ nextID \in Nat
  /\ entries \in [Trx -> Nat] /\ filedIn \in [Trx -> Nat]

ChanTypes == out \in Seq(Result) /\ got \in Seq(Result) /\ closed \in BOOLEAN

TypeOK ==
  /\ WorkerTypes /\ DataTypes /\ ClientTypes /\ LedgerTypes /\ ChanTypes
  /\ ctxDone \in BOOLEAN /\ dryRun \in BOOLEAN

(* The call of a worker goes to the client its token has; an operation that *)
(* nobody waits for is one that the end of the context has left behind.     *)
Linked(w) ==
  /\ pc[w] \in Calling => holds[w] = Client(w) /\ Client(w) # NoClient
  /\ op[w] # "none" => /\ holds[w] = Client(w) /\ Client(w) # NoClient
                       /\ pc[w] = "wait" \/ (ctxDone /\ pc[w] \in {"send", "next", "done"})
  /\ pc[w] = "build" => Client(w) # NewClient(w)

(* A token's client is its own, and only such a client has a list. *)
ClientsFit ==
  /\ \A k \in Token : clients[k] # NoClient => clients[k] \in Worker \X {k}
  /\ \A v \in Worker, k \in Token : cache[<<v, k>>] # {} => clients[k] = <<v, k>>

PoolInv ==
  /\ TypeOK
  /\ \A w \in Worker : Placed(w) /\ Linked(w)
  /\ ClientsFit

LEMMA TypesFit ==
  /\ TokenOf \in [Trx -> Token] /\ NameOf \in [Trx -> Name]
  /\ \A w \in Worker : Bucket[w] \in Seq(Trx)
  /\ NoClient \notin Worker \X Token
BY PoolAssumption, Dealt DEF NoClient

LEMMA CurFits ==
  ASSUME PoolInv, NEW w \in Worker, at[w] >= 1
  PROVE  Cur(w) \in Trx /\ Tok(w) \in Token /\ NameOf[Cur(w)] \in Name
BY TypesFit DEF PoolInv, TypeOK, WorkerTypes, Placed, Cur, Tok

LEMMA PoolInit == Init => PoolInv
<1> SUFFICES ASSUME Init PROVE PoolInv
  OBVIOUS
<1>1. Cardinality(Known) \in Nat /\ DryRuns \subseteq BOOLEAN
  BY PoolAssumption, FS_CardinalityType
<1>2. ledgerCats \in [Token -> SUBSET Category]
  BY <1>1, PoolAssumption DEF Init, Category
<1>3. TypeOK
  <2>1. out \in Seq(Result) /\ got \in Seq(Result)
    BY DEF Init
  <2>2. cache \in [Worker \X Token -> SUBSET SUBSET Category]
    BY DEF Init
  <2>3. nextID \in Nat /\ filedIn \in [Trx -> Nat] /\ catID \in [Worker -> Nat]
    BY <1>1 DEF Init, NoCat
  <2>4. list \in [Worker -> SUBSET Category]
    BY DEF Init
  <2> QED
    BY <1>1, <1>2, <2>1, <2>2, <2>3, <2>4 DEF Init, TypeOK, WorkerTypes, DataTypes,
             ClientTypes, LedgerTypes, ChanTypes, Stage
<1>4. \A w \in Worker : Placed(w) /\ Linked(w)
  BY TypesFit DEF Init, Placed, Linked, Calling
<1>5. ClientsFit
  BY DEF Init, ClientsFit
<1> QED
  BY <1>3, <1>4, <1>5 DEF PoolInv
LEMMA BusyFits ==
  ASSUME PoolInv, NEW w \in Worker, pc[w] \notin {"next", "done"} \/ op[w] # "none"
  PROVE  Cur(w) \in Trx /\ Tok(w) \in Token /\ NameOf[Cur(w)] \in Name
BY CurFits DEF PoolInv, Placed

(* Who writes what. *)
LEMMA Writers ==
  ASSUME [Next]_vars
  PROVE  /\ \/ UNCHANGED <<list, catID>>
            \/ \E w \in Worker : \/ Decide(w) \/ CreateCategory(w) \/ Send(w)
                                 \/ CacheGet(w) \/ FetchCategories(w)
         /\ \/ UNCHANGED shared \/ Expire
            \/ \E w \in Worker : \/ LoadClient(w) \/ LoadOrStoreClient(w) \/ StartCategories(w)
                                 \/ CreateCategory(w) \/ CacheDelete(w) \/ CacheSet(w)
         /\ UNCHANGED ledger \/ \E w \in Worker : CreateCategory(w) \/ CreateEntry(w)
         /\ UNCHANGED chan \/ Close \/ Receive \/ \E w \in Worker : Send(w)
         /\ UNCHANGED dryRun /\ (UNCHANGED ctxDone \/ Cancel)
<1> USE DEF shared, ledger, chan, run
<1>1. ASSUME NEW w \in Worker, WorkerStep(w)
      PROVE  /\ \/ UNCHANGED <<list, catID>>
                \/ Decide(w) \/ CreateCategory(w) \/ Send(w)
             /\ \/ UNCHANGED shared
                \/ LoadClient(w) \/ LoadOrStoreClient(w) \/ StartCategories(w)
                \/ CreateCategory(w) \/ CacheDelete(w)
             /\ UNCHANGED ledger \/ CreateCategory(w) \/ CreateEntry(w)
             /\ UNCHANGED chan \/ Send(w)
             /\ UNCHANGED dryRun /\ UNCHANGED ctxDone
  BY <1>1 DEF WorkerStep, NextTrx, GetUserConfig, LoadClient, LoadOrStoreClient, GetAccounts,
              StartCategories, TakeAnswer, Decide, CreateCategory, CacheDelete, MapAccount,
              CreateEntry, Send
<1>2. ASSUME NEW w \in Worker, OpStep(w)
      PROVE  /\ UNCHANGED <<list, catID>> \/ CacheGet(w) \/ FetchCategories(w)
             /\ UNCHANGED shared \/ CacheSet(w)
             /\ UNCHANGED <<ledger, chan, run>>
  BY <1>2 DEF OpStep, CacheGet, FetchCategories, CacheSet, worker
<1>3. CASE Close \/ Receive \/ Cancel \/ Expire
  BY <1>3 DEF Close, Receive, Cancel, Expire, worker
<1>4. CASE UNCHANGED vars
  BY <1>4 DEF vars, worker
<1> QED
  BY <1>1, <1>2, <1>3, <1>4 DEF Next, Finished

LEMMA WorkerTypesNext == PoolInv /\ [Next]_vars => WorkerTypes'
<1> SUFFICES ASSUME PoolInv, [Next]_vars PROVE WorkerTypes'
  OBVIOUS
<1> USE DEF PoolInv, TypeOK, WorkerTypes, Stage, Calling, Goto, Return
<1>1. ASSUME NEW w \in Worker, WorkerStep(w) PROVE WorkerTypes'
  <2>0. CASE NextTrx(w)
    BY <2>0 DEF NextTrx
  <2>1. CASE GetUserConfig(w) \/ LoadClient(w) \/ LoadOrStoreClient(w)
    BY <2>1 DEF GetUserConfig, LoadClient, LoadOrStoreClient
  <2>2. CASE GetAccounts(w) \/ StartCategories(w) \/ TakeAnswer(w)
    BY <2>2 DEF GetAccounts, StartCategories, TakeAnswer
  <2>3. CASE Decide(w) \/ CreateCategory(w) \/ CacheDelete(w)
    BY <2>3 DEF Decide, IfAbsent, CreateCategory, CacheDelete, AfterCreate
  <2>4. CASE MapAccount(w) \/ CreateEntry(w) \/ Send(w)
    BY <2>4 DEF MapAccount, CreateEntry, GiveUp, Send
  <2> QED
    BY <1>1, <2>0, <2>1, <2>2, <2>3, <2>4 DEF WorkerStep
<1>2. ASSUME NEW w \in Worker, OpStep(w) PROVE WorkerTypes'
  BY <1>2 DEF OpStep, CacheGet, FetchCategories, CacheSet, worker
<1>3. CASE Close \/ Receive \/ Cancel \/ Expire \/ UNCHANGED vars
  BY <1>3 DEF Close, Receive, Cancel, Expire, vars, worker
<1> QED
  BY <1>1, <1>2, <1>3 DEF Next, Finished

LEMMA DataTypesNext == PoolInv /\ [Next]_vars => DataTypes'
<1> SUFFICES ASSUME PoolInv, [Next]_vars PROVE DataTypes'
  OBVIOUS
<1> USE DEF DataTypes
<1>0. /\ DataTypes /\ NoCat \in Nat /\ nextID \in Nat /\ {} \in SUBSET Category
      /\ \A k \in Token : ledgerCats[k] \in SUBSET Category
  BY DEF PoolInv, TypeOK, LedgerTypes, NoCat
<1>1. ASSUME NEW w \in Worker, Decide(w) PROVE DataTypes'
  <2>1. list[w] \subseteq Category
    BY <1>0
  <2>2. catID'[w] \in Nat /\ UNCHANGED list /\ catID' = [catID EXCEPT ![w] = catID'[w]]
    BY <1>0, <1>1, <2>1 DEF Decide, Category
  <2> QED
    BY <1>0, <2>2
<1>2. ASSUME NEW w \in Worker, CreateCategory(w) PROVE DataTypes'
  BY <1>0, <1>2 DEF CreateCategory
<1>3. ASSUME NEW w \in Worker, Send(w) PROVE DataTypes'
  BY <1>0, <1>3 DEF Send
<1>4. ASSUME NEW w \in Worker, CacheGet(w) PROVE DataTypes'
  <2>1. holds[w] \in Worker \X Token
    BY <1>4 DEF CacheGet, PoolInv, TypeOK, ClientTypes, Linked
  <2>2. cache[holds[w]] \subseteq SUBSET Category
    BY <2>1 DEF PoolInv, TypeOK, ClientTypes
  <2> QED
    BY <1>0, <1>4, <2>2 DEF CacheGet
<1>5. ASSUME NEW w \in Worker, FetchCategories(w) PROVE DataTypes'
  <2>1. ledgerCats[Tok(w)] \in SUBSET Category
    BY <1>0, <1>5, BusyFits DEF FetchCategories
  <2> QED
    BY <1>0, <1>5, <2>1 DEF FetchCategories
<1>6. CASE UNCHANGED <<list, catID>>
  BY <1>0, <1>6
<1> QED
  BY <1>1, <1>2, <1>3, <1>4, <1>5, <1>6, Writers

LEMMA ClientTypesNext == PoolInv /\ [Next]_vars => ClientTypes'
<1> SUFFICES ASSUME PoolInv, [Next]_vars PROVE ClientTypes'
  OBVIOUS
<1> USE DEF ClientTypes
<1>0. ClientTypes
  BY DEF PoolInv, TypeOK
<1>1. ASSUME NEW w \in Worker, LoadClient(w) PROVE ClientTypes'
  <2>1. Client(w) \in {NoClient} \cup (Worker \X Token)
    BY <1>0, <1>1, BusyFits DEF LoadClient, Client
  <2> QED
    BY <1>0, <1>1, <2>1 DEF LoadClient
<1>2. ASSUME NEW w \in Worker, LoadOrStoreClient(w) PROVE ClientTypes'
  <2>1. FirstStored(w) \in {NoClient} \cup (Worker \X Token)
    BY <1>0, <1>2, BusyFits DEF LoadOrStoreClient, Client, FirstStored, NewClient
  <2> QED
    BY <1>0, <1>2, <2>1 DEF LoadOrStoreClient
<1>3. ASSUME NEW w \in Worker, StartCategories(w) \/ CreateCategory(w) PROVE ClientTypes'
  <2>1. Client(w) \in {NoClient} \cup (Worker \X Token)
    BY <1>0, <1>3, BusyFits DEF StartCategories, CreateCategory, Client
  <2> QED
    BY <1>0, <1>3, <2>1 DEF StartCategories, CreateCategory
<1>4. ASSUME NEW w \in Worker, CacheDelete(w) PROVE ClientTypes'
  BY <1>0, <1>4 DEF CacheDelete, Invalidated
<1>5. ASSUME NEW w \in Worker, CacheSet(w) PROVE ClientTypes'
  <2>1. list[w] \in SUBSET Category
    BY DEF PoolInv, TypeOK, DataTypes
  <2> QED
    BY <1>0, <1>5, <2>1 DEF CacheSet
<1>6. CASE Expire
  BY <1>0, <1>6 DEF Expire
<1>7. CASE UNCHANGED shared
  BY <1>0, <1>7 DEF shared
<1> QED
  BY <1>1, <1>2, <1>3, <1>4, <1>5, <1>6, <1>7, Writers

LEMMA WithOne ==
  ASSUME NEW S, NEW A \in SUBSET S, NEW x \in S
  PROVE  A \cup {x} \in SUBSET S
OBVIOUS

LEMMA LedgerTypesNext == PoolInv /\ [Next]_vars => LedgerTypes'
<1> SUFFICES ASSUME PoolInv, [Next]_vars PROVE LedgerTypes'
  OBVIOUS
<1> USE DEF LedgerTypes
<1>0. LedgerTypes /\ \A w \in Worker : catID[w] \in Nat
  BY DEF PoolInv, TypeOK, DataTypes
<1>1. ASSUME NEW w \in Worker, CreateCategory(w) PROVE LedgerTypes'
  <2>1. CASE AddCategory(w)
    <3> DEFINE c == [id |-> nextID, name |-> NameOf[Cur(w)]]
               cats == ledgerCats[Tok(w)] \cup {c}
    <3>1. Tok(w) \in Token /\ c \in Category
      BY <1>0, <1>1, BusyFits DEF CreateCategory, Category
    <3>2. /\ ledgerCats' = [ledgerCats EXCEPT ![Tok(w)] = cats]
          /\ nextID' = nextID + 1 /\ UNCHANGED <<entries, filedIn>>
      BY <2>1 DEF AddCategory
    <3> HIDE DEF c
    <3>3. cats \in SUBSET Category
      BY <1>0, <3>1, WithOne
    <3> HIDE DEF cats
    <3>4. ledgerCats' \in [Token -> SUBSET Category]
      BY <1>0, <3>2, <3>3
    <3> QED
      BY <1>0, <3>2, <3>4
  <2>2. CASE UNCHANGED ledger
    BY <1>0, <2>2 DEF ledger
  <2> QED
    BY <1>1, <2>1, <2>2 DEF CreateCategory
<1>2. ASSUME NEW w \in Worker, CreateEntry(w) PROVE LedgerTypes'
  <2>1. CASE AddEntry(w)
    <3>0. Cur(w) \in Trx
      BY <1>2, BusyFits DEF CreateEntry
    <3>1. entries' \in [Trx -> Nat]
      BY <1>0, <2>1, <3>0 DEF AddEntry
    <3>2. filedIn' \in [Trx -> Nat]
      BY <1>0, <2>1 DEF AddEntry
    <3> QED
      BY <1>0, <2>1, <3>1, <3>2 DEF AddEntry
  <2>2. CASE UNCHANGED ledger
    BY <1>0, <2>2 DEF ledger
  <2> QED
    BY <1>2, <2>1, <2>2 DEF CreateEntry
<1>3. CASE UNCHANGED ledger
  BY <1>0, <1>3 DEF ledger
<1> QED
  BY <1>1, <1>2, <1>3, Writers

LEMMA ChanTypesNext == PoolInv /\ [Next]_vars => ChanTypes'
<1> SUFFICES ASSUME PoolInv, [Next]_vars PROVE ChanTypes'
  OBVIOUS
<1> USE DEF ChanTypes
<1>0. ChanTypes
  BY DEF PoolInv, TypeOK
<1>1. ASSUME NEW w \in Worker, Send(w) PROVE ChanTypes'
  <2>1. Cur(w) \in Trx /\ err[w] \in BOOLEAN
    BY <1>1, BusyFits DEF Send, PoolInv, TypeOK, WorkerTypes
  <2>2. [trx |-> Cur(w), failed |-> err[w]] \in Result
    BY <2>1 DEF Result
  <2> QED
    BY <1>0, <1>1, <2>2, AppendProperties DEF Send, WithResult, ResultOf
<1>2. CASE Receive
  BY <1>0, <1>2, AppendProperties, HeadTailProperties DEF Receive, ToTheEnd
<1>3. CASE Close \/ UNCHANGED chan
  BY <1>0, <1>3 DEF Close, chan
<1> QED
  BY <1>1, <1>2, <1>3, Writers

(* A worker's own variables are written by its own steps. *)
LEMMA OthersStay ==
  ASSUME PoolInv, NEW v \in Worker, NEW w \in Worker, w # v, WorkerStep(w) \/ OpStep(w)
  PROVE  UNCHANGED <<pc[v], at[v], list[v], catID[v], err[v], op[v], holds[v]>>
<1> USE DEF PoolInv, TypeOK, WorkerTypes, DataTypes, ClientTypes, Goto, Return, worker, shared
<1>1. CASE NextTrx(w) \/ GetUserConfig(w) \/ LoadClient(w) \/ LoadOrStoreClient(w)
  BY <1>1 DEF NextTrx, GetUserConfig, LoadClient, LoadOrStoreClient
<1>2. CASE GetAccounts(w) \/ StartCategories(w) \/ TakeAnswer(w)
  BY <1>2 DEF GetAccounts, StartCategories, TakeAnswer
<1>3. CASE Decide(w) \/ CreateCategory(w) \/ CacheDelete(w)
  BY <1>3 DEF Decide, CreateCategory, CacheDelete
<1>4. CASE MapAccount(w) \/ CreateEntry(w) \/ Send(w)
  BY <1>4 DEF MapAccount, CreateEntry, GiveUp, Send
<1>5. CASE OpStep(w)
  BY <1>5 DEF OpStep, CacheGet, FetchCategories, CacheSet
<1> QED
  BY <1>1, <1>2, <1>3, <1>4, <1>5 DEF WorkerStep

LEMMA Own ==
  ASSUME PoolInv, [Next]_vars, NEW v \in Worker
  PROVE  \/ WorkerStep(v) \/ OpStep(v)
         \/ UNCHANGED <<pc[v], at[v], list[v], catID[v], err[v], op[v], holds[v]>>
<1>1. CASE Close \/ Receive \/ Cancel \/ Expire \/ UNCHANGED vars
  BY <1>1 DEF Close, Receive, Cancel, Expire, vars, worker, shared
<1> QED
  BY <1>1, OthersStay DEF Next, Finished

(* A token keeps the client it has; another worker's is not one's own. *)
LEMMA ClientsKept ==
  ASSUME PoolInv, [Next]_vars, NEW k \in Token
  PROVE  /\ clients[k] # NoClient => clients'[k] = clients[k]
         /\ \A v \in Worker : \/ clients'[k] = clients[k] \/ clients'[k] # <<v, k>>
                              \/ LoadOrStoreClient(v)
<1>1. ASSUME NEW w \in Worker, LoadOrStoreClient(w)
      PROVE  \/ clients'[k] = clients[k]
             \/ clients[k] = NoClient /\ clients'[k] = <<w, k>>
  <2>1. Tok(w) \in Token
    BY <1>1, BusyFits DEF LoadOrStoreClient
  <2>2. clients' = [clients EXCEPT ![Tok(w)] = FirstStored(w)]
    BY <1>1 DEF LoadOrStoreClient
  <2> QED
    BY <2>1, <2>2 DEF PoolInv, TypeOK, ClientTypes, FirstStored, NewClient, Client
<1>2. UNCHANGED clients \/ \E w \in Worker : LoadOrStoreClient(w)
  BY Writers
  DEF shared, Expire, LoadClient, StartCategories, CreateCategory, CacheDelete, CacheSet
<1> QED
  BY <1>1, <1>2

LEMMA PlacedNext ==
  ASSUME PoolInv, [Next]_vars, NEW w \in Worker
  PROVE  Placed(w)'
<1> USE DEF PoolInv, TypeOK, WorkerTypes, Placed, Goto, Return
<1>1. Placed(w) /\ Linked(w) /\ Len(Bucket[w]) \in Nat
  BY TypesFit
<1>2. CASE WorkerStep(w)
  <2>1. CASE NextTrx(w)
    BY <1>1, <2>1 DEF NextTrx
  <2>2. CASE GetUserConfig(w) \/ LoadClient(w) \/ LoadOrStoreClient(w) \/ GetAccounts(w)
    BY <1>1, <2>2 DEF GetUserConfig, LoadClient, LoadOrStoreClient, GetAccounts
  <2>3. CASE StartCategories(w) \/ TakeAnswer(w) \/ Decide(w)
    BY <1>1, <2>3 DEF StartCategories, TakeAnswer, Decide
  <2>4. CASE CreateCategory(w) \/ CacheDelete(w) \/ MapAccount(w) \/ CreateEntry(w) \/ Send(w)
    BY <1>1, <2>4 DEF CreateCategory, CacheDelete, MapAccount, CreateEntry, GiveUp, Send
  <2> QED
    BY <1>2, <2>1, <2>2, <2>3, <2>4 DEF WorkerStep
<1>3. CASE OpStep(w)
  BY <1>1, <1>3 DEF OpStep, CacheGet, FetchCategories, CacheSet, worker
<1> QED
  BY <1>1, <1>2, <1>3, Own

LEMMA LinkedNext ==
  ASSUME PoolInv, [Next]_vars, NEW w \in Worker
  PROVE  Linked(w)'
<1> USE DEF Goto, Return
<1>1. Placed(w) /\ Linked(w) /\ pc[w] \in Stage /\ WorkerTypes
  BY DEF PoolInv, TypeOK, WorkerTypes
<1>2. at[w] >= 1 /\ UNCHANGED at[w] => Tok(w)' = Tok(w) /\ Tok(w) \in Token
  BY CurFits DEF Tok, Cur
<1>3. at[w] >= 1 /\ UNCHANGED at[w] /\ Client(w) # NoClient => Client(w)' = Client(w)
  BY <1>2, ClientsKept DEF Client
<1>4. ctxDone => ctxDone'
  BY Writers DEF Cancel
<1>0. clients \in [Token -> {NoClient} \cup (Worker \X Token)] 
      /\ holds \in [Worker -> {NoClient} \cup (Worker \X Token)]
  BY DEF PoolInv, TypeOK, ClientTypes
<1>10. at[w] >= 1 => /\ NewClient(w) # NoClient
                     /\ UNCHANGED at[w] => NewClient(w)' = NewClient(w)
  BY <1>2, TypesFit, CurFits DEF NewClient
<1>5. pc[w] \notin {"next", "done"} \/ op[w] # "none" => at[w] >= 1
  BY <1>1 DEF Placed
<1>6. CASE WorkerStep(w)
  <2>1. CASE NextTrx(w)
    <3>1. CASE UNCHANGED at[w] /\ pc'[w] = "done" /\ (op[w] # "none" => ctxDone)
      BY <1>1, <1>3, <1>4, <1>5, <2>1, <3>1 DEF NextTrx, Linked, Calling, shared
    <3>2. CASE op[w] = "none" /\ pc'[w] = "config"
      BY <2>1, <3>2 DEF NextTrx, Linked, Calling
    <3> QED
      BY <1>1, <2>1, <3>1, <3>2 DEF NextTrx, Linked, WorkerTypes
  <2>2. CASE GetUserConfig(w) \/ GetAccounts(w)
    BY <1>1, <1>3, <1>4, <1>5, <2>2
    DEF GetUserConfig, GetAccounts, Linked, Calling, shared, WorkerTypes
  <2>7. CASE TakeAnswer(w)
    BY <1>1, <1>3, <1>4, <1>5, <2>7 DEF TakeAnswer, Linked, Calling, shared, run, WorkerTypes
  <2>8. CASE Decide(w)
    <3>1. pc'[w] \in {"account", "create"} /\ UNCHANGED <<at, op, holds>>
      BY <1>1, <2>8 DEF Decide, IfAbsent, shared, WorkerTypes
    <3> QED
      BY <1>1, <1>3, <1>5, <2>8, <3>1 DEF Decide, Linked, Calling
  <2>3. CASE LoadClient(w)
    <3>1. UNCHANGED <<at, op, clients>>
      BY <2>3 DEF LoadClient
    <3>2. CASE Client(w) # NoClient
      <4>1. pc'[w] = "accounts" /\ holds'[w] = Client(w) /\ op[w] = "none"
        BY <1>0, <1>1, <2>3, <3>2 DEF LoadClient, Linked, WorkerTypes
      <4>2. Client(w)' = Client(w)
        BY <1>3, <1>5, <2>3, <3>1, <3>2 DEF LoadClient
      <4> QED
        BY <3>1, <3>2, <4>1, <4>2 DEF Linked
    <3>3. CASE Client(w) = NoClient
      BY <1>0, <1>1, <1>2, <1>5, <1>10, <2>3, <3>1, <3>3
      DEF LoadClient, Linked, Calling, Client, WorkerTypes
    <3> QED
      BY <3>2, <3>3
  <2>4. CASE LoadOrStoreClient(w)
    <3>1. UNCHANGED <<at, op>> /\ pc'[w] = "accounts" /\ op[w] = "none"
      BY <1>1, <2>4 DEF LoadOrStoreClient, Linked, WorkerTypes
    <3>2. Tok(w) \in Token /\ Tok(w)' = Tok(w)
      BY <1>1, <1>2, <1>5, <2>4, <3>1 DEF LoadOrStoreClient
    <3>3. holds'[w] = FirstStored(w) /\ clients'[Tok(w)] = FirstStored(w)
      <4>1. /\ holds' = [holds EXCEPT ![w] = FirstStored(w)]
            /\ clients' = [clients EXCEPT ![Tok(w)] = FirstStored(w)]
        BY <2>4 DEF LoadOrStoreClient
      <4> QED
        BY <1>0, <3>2, <4>1
    <3>4. FirstStored(w) # NoClient
      BY <1>1, <1>5, <1>10, <2>4 DEF FirstStored, LoadOrStoreClient
    <3> QED
      <4>1. Client(w)' = FirstStored(w)
        BY <3>2, <3>3 DEF Client
      <4> QED
        BY <3>1, <3>3, <3>4, <4>1 DEF Linked
  <2>5. CASE StartCategories(w) \/ CreateCategory(w)
    <3>1. UNCHANGED at /\ holds'[w] = Client(w) /\ Client(w) # NoClient
      BY <1>0, <1>1, <2>5 DEF StartCategories, CreateCategory, Linked, Calling
    <3>2. Client(w)' = Client(w)
      BY <1>3, <1>5, <2>5, <3>1 DEF StartCategories, CreateCategory
    <3>3. pc'[w] = "wait" \/ (pc'[w] = "invalidate" /\ op'[w] = "none")
      BY <1>1, <2>5 DEF StartCategories, CreateCategory, Linked, WorkerTypes
    <3> QED
      BY <3>1, <3>2, <3>3 DEF Linked
  <2>6. CASE CacheDelete(w) \/ MapAccount(w) \/ CreateEntry(w) \/ Send(w)
    BY <1>1, <1>3, <1>4, <1>5, <2>6
    DEF CacheDelete, AfterCreate, MapAccount, CreateEntry, GiveUp, Send, Linked, Calling,
        shared, WorkerTypes
  <2> QED
    BY <1>6, <2>1, <2>2, <2>3, <2>4, <2>5, <2>6, <2>7, <2>8 DEF WorkerStep
<1>7. CASE OpStep(w)
  BY <1>1, <1>3, <1>5, <1>7 DEF OpStep, CacheGet, FetchCategories, CacheSet, worker, Linked,
     Calling, WorkerTypes, shared, run
<1>8. CASE UNCHANGED <<pc[w], at[w], op[w], holds[w]>>
  <2>1. pc[w] \in Calling \/ op[w] # "none" \/ pc[w] = "build" => at[w] >= 1
    BY <1>5 DEF Calling
  <2>2. pc[w] = "build" => Client(w)' # NewClient(w)'
    <3> SUFFICES ASSUME pc[w] = "build" PROVE Client(w)' # NewClient(w)'
      OBVIOUS
    <3>1. ~LoadOrStoreClient(w)
      BY <1>1, <1>8 DEF LoadOrStoreClient, WorkerTypes
    <3>2. Client(w) # NewClient(w) /\ NewClient(w) = <<w, Tok(w)>>
      BY <1>1 DEF Linked, NewClient
    <3> QED
      <4>1. Tok(w) \in Token /\ Tok(w)' = Tok(w) /\ NewClient(w)' = NewClient(w)
        BY <1>2, <1>8, <1>10, <2>1
      <4>2. clients'[Tok(w)] = clients[Tok(w)] \/ clients'[Tok(w)] # <<w, Tok(w)>>
        BY <3>1, <4>1, ClientsKept
      <4> QED
        BY <3>2, <4>1, <4>2 DEF Client
  <2> QED
    BY <1>1, <1>3, <1>4, <1>8, <2>1, <2>2 DEF Linked
<1> QED
  BY <1>6, <1>7, <1>8, Own

LEMMA ClientsFitNext == PoolInv /\ [Next]_vars => ClientsFit'
<1> SUFFICES ASSUME PoolInv, [Next]_vars PROVE ClientsFit'
  OBVIOUS
<1>0. ClientsFit /\ ClientTypes /\ ClientTypes'
  BY ClientTypesNext DEF PoolInv, TypeOK
<1>1. ASSUME NEW k \in Token, clients'[k] # NoClient PROVE clients'[k] \in Worker \X {k}
  <2>1. CASE clients'[k] = clients[k]
    BY <1>0, <1>1, <2>1 DEF ClientsFit
  <2>2. CASE clients'[k] # clients[k]
    <3>1. PICK v \in Worker : clients'[k] = <<v, clients'[k][2]>>
      BY <1>0, <1>1 DEF ClientTypes
    <3>2. PICK w \in Worker : LoadOrStoreClient(w)
      BY <2>2, Writers DEF shared, Expire, LoadClient, StartCategories, CreateCategory,
                           CacheDelete, CacheSet
    <3>3. clients' = [clients EXCEPT ![Tok(w)] = FirstStored(w)]
      BY <3>2 DEF LoadOrStoreClient
    <3>4. k = Tok(w) /\ Client(w) = NoClient
      BY <1>0, <1>1, <2>2, <3>2, <3>3, ClientsKept DEF ClientTypes, FirstStored, Client
    <3> QED
      BY <1>0, <3>3, <3>4 DEF ClientTypes, FirstStored, NewClient
  <2> QED
    BY <2>1, <2>2
<1>2. ASSUME NEW v \in Worker, NEW k \in Token, cache'[<<v, k>>] # {}
      PROVE  clients'[k] = <<v, k>>
  <2>1. CASE cache[<<v, k>>] # {}
    BY <1>0, <2>1, ClientsKept, TypesFit DEF ClientsFit
  <2>2. CASE cache[<<v, k>>] = {}
    <3>1. PICK w \in Worker : CacheSet(w)
      BY <1>0, <1>2, <2>2, Writers
      DEF ClientTypes, shared, Expire, LoadClient, LoadOrStoreClient, StartCategories,
          CreateCategory, CacheDelete, Invalidated
    <3>2. cache' = [cache EXCEPT ![holds[w]] = {list[w]}] /\ UNCHANGED clients /\ op[w] # "none"
      BY <3>1 DEF CacheSet
    <3>3. holds[w] = <<v, k>>
      BY <1>0, <1>2, <2>2, <3>2 DEF ClientTypes
    <3>4. holds[w] = clients[Tok(w)] /\ Tok(w) \in Token /\ clients[Tok(w)] # NoClient
      BY <3>2, BusyFits DEF PoolInv, Linked, Client
    <3>5. Tok(w) = k
      BY <1>0, <3>3, <3>4 DEF ClientsFit
    <3> QED
      BY <3>2, <3>3, <3>4, <3>5
  <2> QED
    BY <2>1, <2>2
<1> QED
  BY <1>1, <1>2 DEF ClientsFit

LEMMA PoolNext == PoolInv /\ [Next]_vars => PoolInv'
<1> SUFFICES ASSUME PoolInv, [Next]_vars PROVE PoolInv'
  OBVIOUS
<1>1. (ctxDone \in BOOLEAN /\ dryRun \in BOOLEAN)'
  BY Writers DEF PoolInv, TypeOK, Cancel
<1>2. TypeOK'
  BY <1>1, WorkerTypesNext, DataTypesNext, ClientTypesNext, LedgerTypesNext, ChanTypesNext
  DEF TypeOK
<1>3. \A w \in Worker : Placed(w)' /\ Linked(w)'
  BY PlacedNext, LinkedNext
<1> QED
  BY <1>2, <1>3, ClientsFitNext DEF PoolInv

LEMMA PoolAlways == Spec => []PoolInv
<1> QED
  BY PoolInit, PoolNext, PTL DEF Spec

(* Type correctness, and with it what the name of a client takes for        *)
(* granted: a client just built has no list of categories yet.              *)
NewClientIsEmpty == \A w \in Worker : pc[w] = "build" => cache[NewClient(w)] = {}

THEOREM PoolTypeCorrect == Spec => [](TypeOK /\ NewClientIsEmpty)
<1>1. PoolInv => TypeOK /\ NewClientIsEmpty
  <2> SUFFICES ASSUME PoolInv, NEW w \in Worker, pc[w] = "build"
               PROVE  cache[NewClient(w)] = {}
    BY DEF PoolInv, NewClientIsEmpty
  <2>1. Tok(w) \in Token /\ Client(w) # NewClient(w)
    BY BusyFits DEF PoolInv, Linked
  <2> QED
    BY <2>1 DEF PoolInv, ClientsFit, NewClient, Client
<1> QED
  BY <1>1, PoolAlways, PTL

(* Two workers of the same user go through the same client: getClient's     *)
(* LoadOrStore keeps the client that was stored first.                      *)
THEOREM OneClientForEachToken == Spec => []OneClientPerToken
<1>1. PoolInv => OneClientPerToken
  BY DEF PoolInv, Linked, OneClientPerToken
<1> QED
  BY <1>1, PoolAlways, PTL

-----------------------------------------------------------------------------
(* Categories: what a worker holds, what a cache keeps and what an entry is *)
(* filed under is in the ledger of the token concerned.  No category is     *)
(* ever taken out of a ledger, so a stale list is short, never wrong.       *)

Early == {"next", "config", "load", "build", "accounts", "categories"}

Listed(w) ==
  /\ at[w] >= 1 => list[w] \subseteq ledgerCats[Tok(w)]
  /\ pc[w] \in Early /\ op[w] = "none" => list[w] = {}

CachesFit ==
  \A v \in Worker, k \in Token : \A cats \in cache[<<v, k>>] : cats \subseteq ledgerCats[k]

Chosen(w) == \E c \in ledgerCats[Tok(w)] : c.id = catID[w] /\ c.name = NameOf[Cur(w)]

(* A worker about to enter a transaction has the category for it. *)
Sorted(w) ==
  \/ pc[w] = "invalidate" /\ ~err[w]
  \/ pc[w] = "account" /\ ~dryRun
  \/ pc[w] = "entry"
  => Chosen(w)

DryRunStays == dryRun => \A w \in Worker : pc[w] \notin {"create", "invalidate", "entry"}

CategoryInv ==
  /\ \A w \in Worker : Listed(w) /\ Sorted(w)
  /\ CachesFit /\ DryRunStays /\ FiledUnderOwnName

LEMMA CategoryInit == Init => CategoryInv
BY TypesFit DEF Init, CategoryInv, Listed, Sorted, CachesFit, DryRunStays, FiledUnderOwnName

LEMMA LedgerGrows ==
  ASSUME PoolInv, [Next]_vars, NEW k \in Token
  PROVE  ledgerCats[k] \subseteq ledgerCats'[k]
<1>1. ASSUME NEW w \in Worker, AddCategory(w) PROVE ledgerCats[k] \subseteq ledgerCats'[k]
  BY <1>1 DEF AddCategory, PoolInv, TypeOK, LedgerTypes
<1>2. UNCHANGED ledgerCats \/ \E w \in Worker : AddCategory(w)
  BY Writers DEF CreateCategory, CreateEntry, AddEntry, ledger
<1> QED
  BY <1>1, <1>2

(* What a worker is busy with stays the same until it takes the next one. *)
LEMMA SameCur ==
  ASSUME PoolInv, [Next]_vars, NEW w \in Worker, at[w] >= 1, UNCHANGED at[w]
  PROVE  /\ Cur(w)' = Cur(w) /\ Cur(w) \in Trx /\ Tok(w)' = Tok(w) /\ Tok(w) \in Token
         /\ ledgerCats[Tok(w)] \subseteq ledgerCats'[Tok(w)]
<1>1. Cur(w)' = Cur(w) /\ Cur(w) \in Trx /\ Tok(w)' = Tok(w) /\ Tok(w) \in Token
  BY CurFits DEF Cur, Tok
<1> QED
  BY <1>1, LedgerGrows

LEMMA ChosenKept ==
  ASSUME PoolInv, [Next]_vars, NEW w \in Worker, at[w] >= 1, UNCHANGED <<at[w], catID[w]>>,
         Chosen(w)
  PROVE  Chosen(w)'
<1>1. PICK c \in ledgerCats[Tok(w)] : c.id = catID[w] /\ c.name = NameOf[Cur(w)]
  BY DEF Chosen
<1>2. c \in ledgerCats'[Tok(w)] /\ Cur(w)' = Cur(w) /\ Tok(w)' = Tok(w)
  BY SameCur
<1> QED
  BY <1>1, <1>2 DEF Chosen

LEMMA ListedNext ==
  ASSUME PoolInv, CategoryInv, [Next]_vars, NEW w \in Worker
  PROVE  Listed(w)'
<1> USE DEF Goto, Return
<1>1. Listed(w) /\ Linked(w) /\ Placed(w) /\ WorkerTypes
  BY DEF PoolInv, CategoryInv, TypeOK
<1>2. CASE /\ UNCHANGED at[w] /\ UNCHANGED list[w]
           /\ pc'[w] \in Early /\ op'[w] = "none" => pc[w] \in Early /\ op[w] = "none"
  BY <1>1, <1>2, SameCur DEF Listed
<1>3. CASE WorkerStep(w)
  <2>1. CASE NextTrx(w)
    <3>1. CASE pc'[w] = "done" /\ UNCHANGED at
      BY <1>1, <2>1, <3>1, SameCur DEF NextTrx, Listed, Early
    <3>2. CASE pc'[w] = "config" /\ op[w] = "none"
      BY <1>1, <2>1, <3>2 DEF NextTrx, Listed, Early
    <3> QED
      BY <1>1, <2>1, <3>1, <3>2 DEF NextTrx, Linked, WorkerTypes
  <2>2. CASE GetUserConfig(w) \/ LoadClient(w) \/ LoadOrStoreClient(w) \/ GetAccounts(w)
    BY <1>1, <1>2, <2>2
    DEF GetUserConfig, LoadClient, LoadOrStoreClient, GetAccounts, WorkerTypes, Early
  <2>3. CASE StartCategories(w) \/ TakeAnswer(w) \/ Decide(w)
    BY <1>1, <1>2, <2>3 DEF StartCategories, TakeAnswer, Decide, IfAbsent, WorkerTypes, Early
  <2>4. CASE CreateCategory(w) \/ CacheDelete(w) \/ MapAccount(w) \/ CreateEntry(w)
    BY <1>1, <1>2, <2>4
    DEF CreateCategory, CacheDelete, AfterCreate, MapAccount, CreateEntry, GiveUp, WorkerTypes,
        Early
  <2>5. CASE Send(w)
    <3>1. UNCHANGED <<at, op>> /\ (list'[w] = {} \/ (UNCHANGED list[w] /\ op[w] # "none"))
      BY <1>1, <2>5 DEF Send, PoolInv, TypeOK, DataTypes
    <3> QED
      BY <1>1, <3>1, SameCur DEF Listed
  <2> QED
    BY <1>3, <2>1, <2>2, <2>3, <2>4, <2>5 DEF WorkerStep
<1>4. CASE OpStep(w)
  <2>0. at[w] >= 1 /\ UNCHANGED at /\ op'[w] # "none" /\ Tok(w) \in Token
    BY <1>1, <1>4, BusyFits
    DEF OpStep, CacheGet, FetchCategories, CacheSet, worker, Placed, WorkerTypes
  <2>1. list'[w] \subseteq ledgerCats[Tok(w)]
    <3>1. CASE UNCHANGED list[w]
      BY <1>1, <2>0, <3>1 DEF Listed
    <3>2. CASE FetchCategories(w)
      BY <1>1, <2>0, <3>1, <3>2 DEF FetchCategories, PoolInv, TypeOK, DataTypes
    <3>3. CASE CacheGet(w) /\ list'[w] \in cache[holds[w]]
      <4>1. holds[w] = clients[Tok(w)] /\ clients[Tok(w)] # NoClient
        BY <1>1, <3>3 DEF CacheGet, Linked, Client
      <4>2. holds[w] \in Worker \X {Tok(w)}
        BY <2>0, <4>1 DEF PoolInv, ClientsFit
      <4> QED
        BY <2>0, <3>3, <4>2 DEF CategoryInv, CachesFit
    <3> QED
      BY <1>4, <3>1, <3>2, <3>3
      DEF OpStep, CacheGet, CacheSet, worker, PoolInv, TypeOK, DataTypes
  <2> QED
    BY <2>0, <2>1, SameCur DEF Listed
<1> QED
  BY <1>2, <1>3, <1>4, Own

LEMMA CachesFitNext == PoolInv /\ CategoryInv /\ [Next]_vars => CachesFit'
<1> SUFFICES ASSUME PoolInv, CategoryInv, [Next]_vars, NEW v \in Worker, NEW k \in Token,
                    NEW cats \in cache'[<<v, k>>]
             PROVE  cats \subseteq ledgerCats'[k]
  BY DEF CachesFit
<1>1. ledgerCats[k] \subseteq ledgerCats'[k]
  BY LedgerGrows
<1>2. CASE cats \in cache[<<v, k>>]
  BY <1>1, <1>2 DEF CategoryInv, CachesFit
<1>3. ASSUME NEW w \in Worker, CacheSet(w), cats \notin cache[<<v, k>>]
      PROVE  cats \subseteq ledgerCats[k]
  <2>1. holds[w] = <<v, k>> /\ cats = list[w]
    BY <1>3 DEF CacheSet, PoolInv, TypeOK, ClientTypes
  <2>2. holds[w] = clients[Tok(w)] /\ Tok(w) \in Token /\ clients[Tok(w)] # NoClient /\ at[w] >= 1
    BY <1>3, BusyFits DEF CacheSet, PoolInv, Linked, Placed, Client
  <2>3. Tok(w) = k
    BY <2>1, <2>2 DEF PoolInv, ClientsFit
  <2> QED
    BY <2>1, <2>2, <2>3 DEF CategoryInv, Listed
<1>4. cats \notin cache[<<v, k>>] => \E w \in Worker : CacheSet(w)
  BY Writers DEF PoolInv, TypeOK, ClientTypes, shared, Expire, LoadClient, LoadOrStoreClient,
                 StartCategories, CreateCategory, CacheDelete, Invalidated
<1> QED
  BY <1>1, <1>2, <1>3, <1>4

LEMMA SortedNext ==
  ASSUME PoolInv, CategoryInv, [Next]_vars, NEW w \in Worker
  PROVE  Sorted(w)'
<1> USE DEF Goto, Return
<1>1. Sorted(w) /\ Linked(w) /\ Placed(w) /\ WorkerTypes /\ UNCHANGED dryRun
  BY Writers DEF PoolInv, CategoryInv, TypeOK
<1>2. CASE /\ UNCHANGED <<at[w], catID[w], err[w], pc[w]>>
  <2>1. pc[w] \in {"invalidate", "account", "entry"} => at[w] >= 1
    BY <1>1 DEF Placed
  <2> QED
    BY <1>1, <1>2, <2>1, ChosenKept DEF Sorted
<1>3. CASE WorkerStep(w)
  <2>1. CASE NextTrx(w) \/ GetUserConfig(w) \/ LoadClient(w) \/ LoadOrStoreClient(w)
    BY <1>1, <2>1
    DEF NextTrx, GetUserConfig, LoadClient, LoadOrStoreClient, WorkerTypes, Sorted
  <2>2. CASE GetAccounts(w) \/ StartCategories(w) \/ TakeAnswer(w) \/ Send(w)
    BY <1>1, <2>2 DEF GetAccounts, StartCategories, TakeAnswer, Send, WorkerTypes, Sorted
  <2>3. CASE Decide(w)
    <3>0. at[w] >= 1 /\ UNCHANGED at /\ list[w] \subseteq ledgerCats[Tok(w)] /\ UNCHANGED ledgerCats
      BY <1>1, <2>3 DEF Decide, Placed, CategoryInv, Listed, ledger
    <3>1. CASE pc'[w] = "create" \/ (dryRun /\ pc'[w] = "account")
      BY <1>1, <3>1 DEF Sorted
    <3>2. CASE \E c \in list[w] : c.name = NameOf[Cur(w)] /\ catID'[w] = c.id
      <4>1. Cur(w)' = Cur(w) /\ Tok(w)' = Tok(w)
        BY <3>0, SameCur
      <4> QED
        BY <3>0, <3>2, <4>1 DEF Sorted, Chosen
    <3> QED
      BY <1>1, <2>3, <3>1, <3>2
      DEF Decide, IfAbsent, WorkerTypes, PoolInv, TypeOK, DataTypes
  <2>4. CASE CreateCategory(w)
    <3>0. UNCHANGED at /\ at[w] >= 1 /\ pc'[w] = "invalidate" /\ Tok(w) \in Token
      BY <1>1, <2>4, BusyFits DEF CreateCategory, Placed, WorkerTypes
    <3>1. CASE err'[w]
      BY <1>1, <3>0, <3>1 DEF Sorted
    <3>2. CASE AddCategory(w) /\ catID'[w] = nextID
      <4> DEFINE c == [id |-> nextID, name |-> NameOf[Cur(w)]]
      <4>1. c \in ledgerCats'[Tok(w)] /\ c.id = catID'[w] /\ c.name = NameOf[Cur(w)]
        BY <3>0, <3>2 DEF AddCategory, PoolInv, TypeOK, LedgerTypes
      <4>2. Cur(w)' = Cur(w) /\ Tok(w)' = Tok(w)
        BY <3>0, SameCur
      <4> HIDE DEF c
      <4> QED
        BY <4>1, <4>2 DEF Sorted, Chosen
    <3> QED
      BY <1>1, <2>4, <3>1, <3>2 DEF CreateCategory, PoolInv, TypeOK, WorkerTypes, DataTypes
  <2>5. CASE CacheDelete(w)
    <3>1. UNCHANGED <<at, catID, err>> /\ (pc'[w] = "send" \/ (pc'[w] = "account" /\ ~err[w]))
      BY <1>1, <2>5 DEF CacheDelete, AfterCreate, WorkerTypes
    <3>2. at[w] >= 1
      BY <1>1, <2>5 DEF CacheDelete, Placed
    <3> QED
      BY <1>1, <2>5, <3>1, <3>2, ChosenKept DEF CacheDelete, Sorted
  <2>6. CASE MapAccount(w)
    <3>1. UNCHANGED <<at, catID>> /\ (pc'[w] = "send" \/ (pc'[w] = "entry" /\ ~dryRun))
      BY <1>1, <2>6 DEF MapAccount, WorkerTypes
    <3>2. at[w] >= 1
      BY <1>1, <2>6 DEF MapAccount, Placed
    <3> QED
      BY <1>1, <2>6, <3>1, <3>2, ChosenKept DEF MapAccount, Sorted
  <2>7. CASE CreateEntry(w)
    BY <1>1, <2>7 DEF CreateEntry, GiveUp, WorkerTypes, Sorted
  <2> QED
    BY <1>3, <2>1, <2>2, <2>3, <2>4, <2>5, <2>6, <2>7 DEF WorkerStep
<1>4. CASE OpStep(w)
  BY <1>2, <1>4 DEF OpStep, CacheGet, FetchCategories, CacheSet, worker
<1> QED
  BY <1>2, <1>3, <1>4, Own

LEMMA DryRunStaysNext == PoolInv /\ CategoryInv /\ [Next]_vars => DryRunStays'
<1> SUFFICES ASSUME PoolInv, CategoryInv, [Next]_vars, dryRun, NEW w \in Worker
             PROVE  pc'[w] \notin {"create", "invalidate", "entry"}
  BY Writers DEF DryRunStays
<1> USE DEF Goto, Return
<1>1. pc[w] \notin {"create", "invalidate", "entry"} /\ WorkerTypes
  BY DEF PoolInv, CategoryInv, TypeOK, DryRunStays
<1>2. CASE WorkerStep(w)
  <2>1. CASE NextTrx(w) \/ GetUserConfig(w) \/ LoadClient(w) \/ LoadOrStoreClient(w)
    BY <1>1, <2>1 DEF NextTrx, GetUserConfig, LoadClient, LoadOrStoreClient, WorkerTypes
  <2>2. CASE GetAccounts(w) \/ StartCategories(w) \/ TakeAnswer(w) \/ Send(w)
    BY <1>1, <2>2 DEF GetAccounts, StartCategories, TakeAnswer, Send, WorkerTypes
  <2>3. CASE Decide(w) \/ MapAccount(w)
    BY <1>1, <2>3 DEF Decide, IfAbsent, MapAccount, WorkerTypes
  <2> QED
    BY <1>1, <1>2, <2>1, <2>2, <2>3 DEF WorkerStep, CreateCategory, CacheDelete, CreateEntry
<1>3. CASE OpStep(w)
  BY <1>1, <1>3 DEF OpStep, CacheGet, FetchCategories, CacheSet, worker
<1> QED
  BY <1>1, <1>2, <1>3, Own

LEMMA FiledNext == PoolInv /\ CategoryInv /\ [Next]_vars => FiledUnderOwnName'
<1> SUFFICES ASSUME PoolInv, CategoryInv, [Next]_vars, NEW t \in Trx, entries'[t] > 0
             PROVE  \E c \in ledgerCats'[TokenOf[t]] : c.id = filedIn'[t] /\ c.name = NameOf[t]
  BY DEF FiledUnderOwnName
<1>0. LedgerTypes /\ TokenOf[t] \in Token
  BY TypesFit DEF PoolInv, TypeOK
<1>1. CASE UNCHANGED <<entries, filedIn>>
  BY <1>0, <1>1, LedgerGrows DEF CategoryInv, FiledUnderOwnName
<1>2. ASSUME NEW w \in Worker, CreateEntry(w), AddEntry(w)
      PROVE  \E c \in ledgerCats'[TokenOf[t]] : c.id = filedIn'[t] /\ c.name = NameOf[t]
  <2>1. UNCHANGED ledgerCats /\ Cur(w) \in Trx
    BY <1>2, BusyFits DEF CreateEntry, AddEntry
  <2>2. CASE t = Cur(w)
    <3>1. filedIn'[t] = catID[w] /\ TokenOf[t] = Tok(w)
      BY <1>0, <1>2, <2>1, <2>2 DEF AddEntry, LedgerTypes, Tok
    <3>2. Chosen(w)
      BY <1>2 DEF CreateEntry, CategoryInv, Sorted
    <3> QED
      BY <2>1, <2>2, <3>1, <3>2 DEF Chosen
  <2>3. CASE t # Cur(w)
    BY <1>0, <1>2, <2>1, <2>3 DEF AddEntry, LedgerTypes, CategoryInv, FiledUnderOwnName
  <2> QED
    BY <2>2, <2>3
<1>3. UNCHANGED <<entries, filedIn>> \/ \E w \in Worker : CreateEntry(w) /\ AddEntry(w)
  BY Writers DEF CreateEntry, CreateCategory, AddCategory, ledger
<1> QED
  BY <1>1, <1>2, <1>3

LEMMA CategoryNext == PoolInv /\ CategoryInv /\ [Next]_vars => CategoryInv'
BY ListedNext, SortedNext, CachesFitNext, DryRunStaysNext, FiledNext DEF CategoryInv

LEMMA CategoryAlways == Spec => []CategoryInv
BY PoolAlways, CategoryInit, CategoryNext, PTL DEF Spec

(* No entry is ever filed under another user's category, one of another     *)
(* name or one that does not exist, whatever createCategoryIfAbsent found   *)
(* in a shared and possibly stale list.                                     *)
THEOREM EntriesAreFiledRight == Spec => []FiledUnderOwnName
BY CategoryAlways, PTL DEF CategoryInv

(* A dry run gets to CreateCategory and CreateEntry by no path.             *)
THEOREM DryRunIsHarmless == Spec => DryRunKeepsLedger
<1>1. PoolInv /\ CategoryInv /\ [Next]_vars => [dryRun => UNCHANGED ledger]_vars
  BY Writers DEF CategoryInv, DryRunStays, CreateCategory, CreateEntry
<1> QED
  BY <1>1, PoolAlways, CategoryAlways, PTL DEF Spec, DryRunKeepsLedger

-----------------------------------------------------------------------------
(* Results: a transaction is entered by the worker it was dealt to, on its  *)
(* turn, and the result says how that went.                                 *)

Tells(failed, t) ==
  IF failed
  THEN entries[t] = 0 \/ (Fault("lostAck") /\ entries[t] = 1)
  ELSE entries[t] = IF dryRun THEN 0 ELSE 1

(* Place i of a bucket is over, neither Ahead nor about to be answered. *)
Behind(w, i) == i < at[w] \/ (i = at[w] /\ pc[w] \in {"next", "done"})

TurnTaken(w) ==
  /\ \A i \in 1..Len(Bucket[w]) :
       /\ Ahead(w, i) => entries[Bucket[w][i]] = 0
       /\ Bucket[w][i] \in Answered => Behind(w, i)
  /\ pc[w] = "send" => Tells(err[w], Cur(w))

ResultInv == (\A w \in Worker : TurnTaken(w)) /\ ResultTellsEntry

(* The elements of a sequence and the one that is appended to it. *)
LEMMA AppendAdds ==
  ASSUME NEW S, NEW s \in Seq(S), NEW r \in S
  PROVE  {Append(s, r)[i] : i \in DOMAIN Append(s, r)} = {s[i] : i \in DOMAIN s} \cup {r}
<1> DEFINE t == Append(s, r)
<1>1. /\ Len(s) \in Nat /\ DOMAIN s = 1..Len(s) /\ DOMAIN t = 1..(Len(s) + 1)
      /\ \A i \in 1..Len(s) : t[i] = s[i]
      /\ t[Len(s) + 1] = r
  BY AppendProperties
<1> HIDE DEF t
<1>2. ASSUME NEW i \in DOMAIN t PROVE t[i] \in {s[k] : k \in DOMAIN s} \cup {r}
  <2>1. i = Len(s) + 1 \/ i \in 1..Len(s)
    BY <1>1, <1>2
  <2> QED
    BY <1>1, <2>1
<1>3. ASSUME NEW i \in DOMAIN s PROVE s[i] \in {t[k] : k \in DOMAIN t}
  <2>1. i \in DOMAIN t /\ t[i] = s[i]
    BY <1>1, <1>3
  <2> QED
    BY <2>1
<1>4. r \in {t[k] : k \in DOMAIN t}
  <2>1. Len(s) + 1 \in DOMAIN t
    BY <1>1
  <2> QED
    BY <1>1, <2>1
<1>5. {t[i] : i \in DOMAIN t} = {s[i] : i \in DOMAIN s} \cup {r}
  BY <1>2, <1>3, <1>4
<1> QED
  BY <1>5 DEF t

(* What is sent is one result more, what is received is none more.          *)
LEMMA ResultsSent ==
  ASSUME PoolInv, NEW w \in Worker, Send(w)
  PROVE  /\ Results' = Results \cup {[trx |-> Cur(w), failed |-> err[w]]}
         /\ Answered' = Answered \cup {Cur(w)}
<1> USE DEF Results, Answered
<1>0. out \in Seq(Result) /\ got \in Seq(Result)
  BY DEF PoolInv, TypeOK, ChanTypes
<1> DEFINE r == [trx |-> Cur(w), failed |-> err[w]]
<1>1. out' = Append(out, r) /\ got' = got /\ r \in Result
  BY BusyFits DEF Send, WithResult, ResultOf, Result, PoolInv, TypeOK, WorkerTypes
<1>2. r.trx = Cur(w)
  OBVIOUS
<1> HIDE DEF r
<1>3. {out'[i] : i \in DOMAIN out'} = {out[i] : i \in DOMAIN out} \cup {r}
  BY <1>0, <1>1, AppendAdds
<1>4. Results' = Results \cup {r}
  BY <1>1, <1>3
<1>5. Answered' = Answered \cup {r.trx}
  BY <1>4
<1> QED
  BY <1>2, <1>4, <1>5 DEF r

LEMMA ResultsReceived ==
  ASSUME PoolInv, Receive
  PROVE  Results' = Results /\ Answered' = Answered
<1> USE DEF Results, Answered
<1>1. out \in Seq(Result) /\ got \in Seq(Result)
  BY DEF PoolInv, TypeOK, ChanTypes
<1>2. out # <<>> /\ out' = Tail(out) /\ got' = Append(got, Head(out))
  BY DEF Receive, ToTheEnd
<1>3. Head(out) \in Result
  BY <1>1, <1>2, HeadTailProperties
<1>4. {got'[i] : i \in DOMAIN got'} = {got[i] : i \in DOMAIN got} \cup {Head(out)}
  <2> DEFINE h == Head(out)
  <2>1. got' = Append(got, h) /\ h \in Result
    BY <1>2, <1>3
  <2> HIDE DEF h
  <2>2. {got'[i] : i \in DOMAIN got'} = {got[i] : i \in DOMAIN got} \cup {h}
    BY <1>1, <2>1, AppendAdds
  <2> QED
    BY <2>2 DEF h
<1>5. {out[i] : i \in DOMAIN out} = {out'[i] : i \in DOMAIN out'} \cup {Head(out)}
  <2>1. Len(out) \in Nat \ {0} /\ DOMAIN out = 1..Len(out) /\ Head(out) = out[1]
    BY <1>1, <1>2
  <2>2. DOMAIN out' = 1..(Len(out) - 1) /\ \A i \in 1..(Len(out) - 1) : out'[i] = out[i + 1]
    BY <1>1, <1>2, HeadTailProperties
  <2>3. ASSUME NEW i \in 1..Len(out) PROVE i = 1 \/ (i - 1 \in 1..(Len(out) - 1) /\ out'[i - 1] = out[i])
    BY <2>1, <2>2
  <2>4. ASSUME NEW i \in 1..(Len(out) - 1) PROVE i + 1 \in 1..Len(out)
    BY <2>1
  <2> QED
    <3>1. ASSUME NEW x \in {out[i] : i \in DOMAIN out}
          PROVE  x \in {out'[i] : i \in DOMAIN out'} \cup {Head(out)}
      <4>1. PICK i \in 1..Len(out) : x = out[i]
        BY <2>1
      <4>2. i = 1 \/ out'[i - 1] \in {out'[j] : j \in DOMAIN out'}
        BY <2>2, <2>3
      <4> QED
        BY <2>1, <2>3, <4>1, <4>2
    <3>2. ASSUME NEW x \in {out'[i] : i \in DOMAIN out'} \cup {Head(out)}
          PROVE  x \in {out[i] : i \in DOMAIN out}
      <4>1. CASE x = Head(out)
        BY <2>1, <4>1
      <4>2. ASSUME NEW i \in 1..(Len(out) - 1), x = out'[i] PROVE x \in {out[k] : k \in DOMAIN out}
        BY <2>1, <2>2, <2>4, <4>2
      <4> QED
        BY <2>2, <3>2, <4>1, <4>2
    <3> QED
      BY <3>1, <3>2
<1> QED
  BY <1>4, <1>5

LEMMA ResultsNext ==
  ASSUME PoolInv, [Next]_vars
  PROVE  \/ Results' = Results /\ Answered' = Answered
         \/ \E w \in Worker :
              /\ Send(w)
              /\ Results' = Results \cup {[trx |-> Cur(w), failed |-> err[w]]}
              /\ Answered' = Answered \cup {Cur(w)}
<1>1. CASE Close \/ UNCHANGED chan
  BY <1>1 DEF Close, chan, Results, Answered
<1> QED
  BY <1>1, ResultsSent, ResultsReceived, Writers

(* Entries change by CreateEntry, by one and for the current transaction.   *)
LEMMA EntriesNext ==
  ASSUME PoolInv, [Next]_vars
  PROVE  \/ UNCHANGED entries
         \/ \E w \in Worker :
              /\ CreateEntry(w)
              /\ entries' = [entries EXCEPT ![Cur(w)] = @ + 1]
BY Writers DEF CreateEntry, AddEntry, CreateCategory, AddCategory, ledger

LEMMA ResultInit == Init => ResultInv
<1> SUFFICES ASSUME Init PROVE ResultInv
  OBVIOUS
<1>1. Results = {} /\ Answered = {}
  BY DEF Init, Results, Answered
<1> QED
  BY <1>1, TypesFit DEF Init, ResultInv, TurnTaken, ResultTellsEntry, Ahead, Behind

(* Only the worker itself reaches its places. *)
LEMMA OwnPlaces ==
  ASSUME PoolInv, NEW w \in Worker, NEW i \in 1..Len(Bucket[w]), NEW v \in Worker, at[v] >= 1
  PROVE  Bucket[w][i] = Cur(v) <=> v = w /\ i = at[w]
<1>1. at[v] \in 1..Len(Bucket[v])
  BY DEF PoolInv, TypeOK, WorkerTypes, Placed
<1> QED
  BY <1>1, Dealt DEF Cur

LEMMA TurnTakenNext ==
  ASSUME PoolInv, CategoryInv, ResultInv, [Next]_vars, NEW w \in Worker
  PROVE  TurnTaken(w)'
<1> USE DEF Goto, Return
<1>1. TurnTaken(w) /\ Placed(w) /\ WorkerTypes /\ Len(Bucket[w]) \in Nat /\ LedgerTypes
  BY TypesFit DEF ResultInv, PoolInv, TypeOK
<1>2. \A i \in 1..Len(Bucket[w]) : Bucket[w][i] \in Trx
  BY TypesFit
<1>3. UNCHANGED dryRun
  BY Writers
(* A step of another worker, or of none. *)
<1>4. ASSUME NEW i \in 1..Len(Bucket[w]), ~CreateEntry(w)
      PROVE  entries'[Bucket[w][i]] = entries[Bucket[w][i]]
  <2>1. ASSUME NEW v \in Worker, CreateEntry(v), entries' = [entries EXCEPT ![Cur(v)] = @ + 1]
        PROVE  entries'[Bucket[w][i]] = entries[Bucket[w][i]]
    <3>1. at[v] >= 1
      BY <2>1 DEF CreateEntry, PoolInv, Placed
    <3>2. Bucket[w][i] # Cur(v)
      BY <1>4, <2>1, <3>1, OwnPlaces
    <3> QED
      BY <1>1, <1>2, <2>1, <3>2 DEF LedgerTypes
  <2> QED
    BY <2>1, EntriesNext
<1>5. ASSUME NEW i \in 1..Len(Bucket[w]), ~Send(w), Bucket[w][i] \in Answered'
      PROVE  Bucket[w][i] \in Answered
  <2>1. ASSUME NEW v \in Worker, Send(v) PROVE Bucket[w][i] # Cur(v)
    <3>1. at[v] >= 1
      BY <2>1 DEF Send, PoolInv, Placed
    <3> QED
      BY <1>5, <2>1, <3>1, OwnPlaces
  <2> QED
    BY <1>5, <2>1, ResultsNext
<1>6. CASE UNCHANGED <<pc[w], at[w], err[w]>> /\ ~CreateEntry(w) /\ ~Send(w)
  <2>1. ASSUME pc[w] = "send" PROVE Tells(err[w], Cur(w))'
    <3>1. at[w] >= 1 /\ at[w] \in 1..Len(Bucket[w]) /\ Cur(w) = Bucket[w][at[w]]
      BY <1>1, <2>1 DEF Placed, WorkerTypes, Cur
    <3>2. Cur(w)' = Cur(w) /\ entries'[Cur(w)] = entries[Cur(w)]
      BY <1>4, <1>6, <3>1, SameCur
    <3> QED
      BY <1>1, <1>3, <1>6, <2>1, <3>2 DEF TurnTaken, Tells
  <2> QED
    BY <1>1, <1>4, <1>5, <1>6, <2>1 DEF TurnTaken, Ahead, Behind
<1>9. CASE /\ UNCHANGED at[w] /\ pc[w] \notin {"send", "next", "done"}
           /\ pc'[w] \notin {"next", "done"} /\ (pc'[w] = "send" => err'[w] \/ dryRun)
           /\ ~CreateEntry(w) /\ ~Send(w)
  <2>1. at[w] >= 1 /\ at[w] \in 1..Len(Bucket[w]) /\ Cur(w) = Bucket[w][at[w]]
    BY <1>1, <1>9 DEF Placed, WorkerTypes, Cur
  <2>2. Cur(w)' = Cur(w) /\ entries'[Cur(w)] = entries[Cur(w)] /\ entries[Cur(w)] = 0
    BY <1>1, <1>4, <1>9, <2>1, SameCur DEF TurnTaken, Ahead
  <2>3. pc'[w] = "send" => Tells(err[w], Cur(w))'
    BY <1>3, <1>9, <2>2 DEF Tells
  <2> QED
    BY <1>1, <1>4, <1>5, <1>9, <2>3 DEF TurnTaken, Ahead, Behind
(* A step of its own. *)
<1>7. CASE WorkerStep(w)
  <2>1. CASE NextTrx(w)
    <3>1. ~CreateEntry(w) /\ ~Send(w) /\ pc[w] = "next" /\ pc'[w] \in {"done", "config"}
      BY <1>1, <2>1 DEF NextTrx, CreateEntry, Send, WorkerTypes
    <3>2. ASSUME NEW i \in 1..Len(Bucket[w])
          PROVE  (Ahead(w, i)' => Ahead(w, i)) /\ (Behind(w, i) => Behind(w, i)')
      BY <1>1, <2>1, <3>1 DEF NextTrx, WorkerTypes, Ahead, Behind
    <3> QED
      BY <1>1, <1>4, <1>5, <3>1, <3>2 DEF TurnTaken
  <2>2. CASE GetUserConfig(w) \/ LoadClient(w) \/ LoadOrStoreClient(w) \/ GetAccounts(w)
    BY <1>1, <1>9, <2>2
    DEF GetUserConfig, LoadClient, LoadOrStoreClient, GetAccounts, WorkerTypes, Send,
        CreateEntry
  <2>3. CASE StartCategories(w) \/ TakeAnswer(w) \/ Decide(w)
    BY <1>1, <1>9, <2>3
    DEF StartCategories, TakeAnswer, Decide, IfAbsent, WorkerTypes, Send, CreateEntry
  <2>4. CASE CreateCategory(w) \/ CacheDelete(w)
    BY <1>1, <1>9, <2>4
    DEF CreateCategory, CacheDelete, AfterCreate, WorkerTypes, Send, CreateEntry
  <2>5. CASE MapAccount(w)
    BY <1>1, <1>9, <2>5 DEF MapAccount, WorkerTypes, Send, CreateEntry
  <2>6. CASE CreateEntry(w)
    <3>1. /\ at[w] >= 1 /\ at[w] \in 1..Len(Bucket[w]) /\ Cur(w) = Bucket[w][at[w]]
          /\ UNCHANGED at /\ pc[w] = "entry" /\ pc'[w] = "send" /\ ~Send(w) /\ Cur(w)' = Cur(w)
          /\ ~dryRun /\ Cur(w) \in Trx
      BY <1>1, <2>6, SameCur, BusyFits
      DEF CreateEntry, GiveUp, Send, Placed, WorkerTypes, Cur, CategoryInv, DryRunStays
    <3>2. entries[Cur(w)] = 0
      BY <1>1, <3>1 DEF TurnTaken, Ahead
    <3>3. Tells(err[w], Cur(w))'
      <4>1. CASE AddEntry(w) /\ (err'[w] => Fault("lostAck"))
        BY <1>1, <1>3, <3>1, <3>2, <4>1 DEF AddEntry, LedgerTypes, Tells
      <4>2. CASE UNCHANGED ledger /\ err'[w]
        BY <3>1, <3>2, <4>2 DEF ledger, Tells
      <4> QED
        BY <1>1, <2>6, <4>1, <4>2 DEF CreateEntry, GiveUp, WorkerTypes
    <3>4. ASSUME NEW i \in 1..Len(Bucket[w]), Ahead(w, i)'
          PROVE  entries'[Bucket[w][i]] = 0
      <4>1. i # at[w] /\ Ahead(w, i)
        BY <1>1, <3>1, <3>4 DEF Ahead, WorkerTypes
      <4>2. Bucket[w][i] # Cur(w)
        BY <3>1, <4>1, OwnPlaces
      <4>3. entries'[Bucket[w][i]] = entries[Bucket[w][i]]
        BY <1>1, <1>2, <2>6, <4>2 DEF CreateEntry, AddEntry, LedgerTypes, ledger
      <4> QED
        BY <1>1, <4>1, <4>3 DEF TurnTaken
    <3>5. ASSUME NEW i \in 1..Len(Bucket[w]), Bucket[w][i] \in Answered'
          PROVE  Behind(w, i)'
      BY <1>1, <1>5, <3>1, <3>5 DEF TurnTaken, Behind
    <3> QED
      BY <3>3, <3>4, <3>5 DEF TurnTaken
  <2>7. CASE Send(w)
    <3>1. /\ at[w] >= 1 /\ UNCHANGED at /\ pc[w] = "send" /\ pc'[w] = "next" /\ ~CreateEntry(w)
      BY <1>1, <2>7 DEF Send, CreateEntry, Placed, WorkerTypes
    <3>2. ASSUME NEW i \in 1..Len(Bucket[w])
          PROVE  /\ Ahead(w, i)' => Ahead(w, i)
                 /\ Behind(w, i) \/ i = at[w] => Behind(w, i)'
      BY <1>1, <3>1 DEF Ahead, Behind, WorkerTypes
    <3>3. ASSUME NEW i \in 1..Len(Bucket[w]), Bucket[w][i] \in Answered'
          PROVE  Bucket[w][i] \in Answered \/ i = at[w]
      <4>1. ASSUME NEW v \in Worker, Send(v), Bucket[w][i] = Cur(v) PROVE i = at[w]
        <5>1. at[v] >= 1
          BY <4>1 DEF Send, PoolInv, Placed
        <5> QED
          BY <4>1, <5>1, OwnPlaces
      <4> QED
        BY <3>3, <4>1, ResultsNext
    <3> QED
      BY <1>1, <1>4, <3>1, <3>2, <3>3 DEF TurnTaken
  <2> QED
    BY <1>7, <2>1, <2>2, <2>3, <2>4, <2>5, <2>6, <2>7 DEF WorkerStep
<1>8. CASE OpStep(w)
  BY <1>1, <1>6, <1>8
  DEF OpStep, CacheGet, FetchCategories, CacheSet, worker, CreateEntry, GiveUp, Send,
      WorkerTypes
<1>10. CASE UNCHANGED <<pc[w], at[w], err[w]>>
  BY <1>1, <1>6, <1>10 DEF CreateEntry, GiveUp, Send, WorkerTypes
<1> QED
  BY <1>7, <1>8, <1>10, Own

LEMMA TellsNext == PoolInv /\ ResultInv /\ [Next]_vars => ResultTellsEntry'
<1> SUFFICES ASSUME PoolInv, ResultInv, [Next]_vars, NEW r \in Results'
             PROVE  Tells(r.failed, r.trx)'
  BY DEF ResultTellsEntry, Tells
<1>0. UNCHANGED dryRun /\ LedgerTypes
  BY Writers DEF PoolInv, TypeOK
<1>1. ASSUME r \in Results PROVE Tells(r.failed, r.trx)'
  <2>1. Tells(r.failed, r.trx) /\ r.trx \in Answered
    BY <1>1 DEF ResultInv, ResultTellsEntry, Tells, Answered
  <2>2. ASSUME NEW w \in Worker, CreateEntry(w) PROVE r.trx # Cur(w)
    <3>1. at[w] \in 1..Len(Bucket[w]) /\ Cur(w) = Bucket[w][at[w]] /\ ~Behind(w, at[w])
      BY <2>2, TypesFit DEF CreateEntry, PoolInv, TypeOK, WorkerTypes, Placed, Behind, Cur
    <3> QED
      BY <2>1, <3>1 DEF ResultInv, TurnTaken
  <2>3. r.trx \in Trx
    <3>1. out \in Seq(Result) /\ got \in Seq(Result)
      BY DEF PoolInv, TypeOK, ChanTypes
    <3>2. r \in Result
      BY <1>1, <3>1 DEF Results
    <3> QED
      BY <3>2 DEF Result
  <2>4. entries'[r.trx] = entries[r.trx]
    BY <1>0, <2>2, <2>3, EntriesNext DEF LedgerTypes
  <2> QED
    BY <1>0, <2>1, <2>4 DEF Tells
<1>2. ASSUME NEW w \in Worker, Send(w), r = [trx |-> Cur(w), failed |-> err[w]]
      PROVE  Tells(r.failed, r.trx)'
  <2>1. Tells(err[w], Cur(w)) /\ UNCHANGED entries
    BY <1>2 DEF Send, ResultInv, TurnTaken, ledger
  <2>2. r.failed = err[w] /\ r.trx = Cur(w)
    BY <1>2
  <2> HIDE DEF Tells
  <2> QED
    BY <1>0, <2>1, <2>2 DEF Tells
<1> QED
  BY <1>1, <1>2, ResultsNext

LEMMA ResultAlways == Spec => []ResultInv
<1>1. PoolInv /\ CategoryInv /\ ResultInv /\ [Next]_vars => ResultInv'
  BY TurnTakenNext, TellsNext DEF ResultInv
<1> QED
  BY <1>1, ResultInit, PoolAlways, CategoryAlways, PTL DEF Spec

(* Run can trust the results: a success stands for exactly one entry, or    *)
(* none in a dry run, a failure for none unless only the answer was lost.   *)
THEOREM ResultsAreTrue == Spec => []ResultTellsEntry
BY ResultAlways, PTL DEF ResultInv

-----------------------------------------------------------------------------
(* The pool implements the stream of results.                              *)

ClosedAfterAll == closed => AllDone

OpenPlace(w, i) == IF pc[w] = "next" THEN i > at[w] ELSE pc[w] # "done" /\ i >= at[w]
OpenTrxs == UNION {Pending(w) : w \in Worker}

LEMMA ClosedAfterAllNext ==
  ASSUME PoolInv, ClosedAfterAll, [Next]_vars
  PROVE  ClosedAfterAll'
<1>1. CASE Close
  BY <1>1 DEF Close, ClosedAfterAll, AllDone, worker
<1>2. CASE UNCHANGED closed
  <2>1. ASSUME NEW w \in Worker, pc[w] = "done", WorkerStep(w) PROVE FALSE
    BY <2>1 DEF WorkerStep, NextTrx, GetUserConfig, LoadClient, LoadOrStoreClient, GetAccounts,
                StartCategories, TakeAnswer, Decide, CreateCategory, CacheDelete, MapAccount,
                CreateEntry, Send
  <2>2. ASSUME NEW w \in Worker, OpStep(w) PROVE UNCHANGED pc
    BY <2>2 DEF OpStep, CacheGet, FetchCategories, CacheSet, worker
  <2>3. ASSUME NEW w \in Worker, pc[w] = "done" PROVE pc'[w] = "done"
    BY <2>1, <2>2, <2>3, Own
  <2> QED
    BY <1>2, <2>3 DEF ClosedAfterAll, AllDone
<1> QED
  BY <1>1, <1>2, Writers DEF chan, Receive, Send

LEMMA ClosedAlways == Spec => []ClosedAfterAll
<1>1. Init => ClosedAfterAll
  BY DEF Init, ClosedAfterAll
<1> QED
  BY <1>1, ClosedAfterAllNext, PoolAlways, PTL DEF Spec

(* A transaction is open while its place is. *)
LEMMA OpenAt ==
  ASSUME NEW t
  PROVE  t \in OpenTrxs <=>
           \E w \in Worker : \E i \in 1..Len(Bucket[w]) : OpenPlace(w, i) /\ Bucket[w][i] = t
<1>1. \A w \in Worker : DOMAIN Bucket[w] = 1..Len(Bucket[w])
  BY TypesFit
<1>2. ASSUME NEW w \in Worker
      PROVE  t \in Pending(w) <=> \E i \in 1..Len(Bucket[w]) : OpenPlace(w, i) /\ Bucket[w][i] = t
  BY <1>1 DEF Pending, OpenPlace
<1> QED
  BY <1>2 DEF OpenTrxs

LEMMA OpenAtNext ==
  ASSUME NEW t
  PROVE  t \in OpenTrxs' <=>
           \E w \in Worker : \E i \in 1..Len(Bucket[w]) : OpenPlace(w, i)' /\ Bucket[w][i] = t
<1>1. \A w \in Worker : DOMAIN Bucket[w] = 1..Len(Bucket[w])
  BY TypesFit
<1>2. ASSUME NEW w \in Worker
      PROVE  t \in Pending(w)' <=> \E i \in 1..Len(Bucket[w]) : OpenPlace(w, i)' /\ Bucket[w][i] = t
  BY <1>1 DEF Pending, OpenPlace
<1> QED
  BY <1>2 DEF OpenTrxs

(* What a step does to the places of the worker that takes it. *)
LEMMA OwnOpenPlaces ==
  ASSUME PoolInv, NEW w \in Worker, WorkerStep(w) \/ OpStep(w), ~Send(w)
  PROVE  \/ \A i \in 1..Len(Bucket[w]) : OpenPlace(w, i)' <=> OpenPlace(w, i)
         \/ ctxDone /\ \A i \in 1..Len(Bucket[w]) : ~OpenPlace(w, i)'
<1> USE DEF Goto, Return
<1>1. Placed(w) /\ WorkerTypes /\ Len(Bucket[w]) \in Nat
  BY TypesFit DEF PoolInv, TypeOK
<1>2. CASE UNCHANGED at[w] /\ pc[w] \notin {"next", "done"} /\ pc'[w] \notin {"next", "done"}
  BY <1>2 DEF OpenPlace
<1>3. CASE NextTrx(w)
  <2>1. CASE pc'[w] = "done"
    BY <1>1, <1>3, <2>1 DEF NextTrx, OpenPlace, WorkerTypes, Placed
  <2>2. CASE pc'[w] = "config" /\ at'[w] = at[w] + 1
    BY <1>1, <1>3, <2>2 DEF NextTrx, OpenPlace, WorkerTypes
  <2> QED
    BY <1>1, <1>3, <2>1, <2>2 DEF NextTrx, WorkerTypes
<1>4. CASE GetUserConfig(w) \/ LoadClient(w) \/ LoadOrStoreClient(w) \/ GetAccounts(w)
  BY <1>1, <1>2, <1>4
  DEF GetUserConfig, LoadClient, LoadOrStoreClient, GetAccounts, WorkerTypes
<1>5. CASE StartCategories(w) \/ TakeAnswer(w) \/ Decide(w) \/ CreateCategory(w)
  BY <1>1, <1>2, <1>5
  DEF StartCategories, TakeAnswer, Decide, IfAbsent, CreateCategory, WorkerTypes
<1>6. CASE CacheDelete(w) \/ MapAccount(w) \/ CreateEntry(w)
  BY <1>1, <1>2, <1>6 DEF CacheDelete, AfterCreate, MapAccount, CreateEntry, GiveUp, WorkerTypes
<1>7. CASE OpStep(w)
  BY <1>7 DEF OpStep, CacheGet, FetchCategories, CacheSet, worker, OpenPlace
<1> QED
  BY <1>3, <1>4, <1>5, <1>6, <1>7 DEF WorkerStep

LEMMA SendStep ==
  ASSUME PoolInv, ClosedAfterAll, NEW w \in Worker, Send(w), [Next]_vars
  PROVE  Stream!Answer(Cur(w)) /\ Cur(w) \in Trx
<1>1. /\ Placed(w) /\ WorkerTypes /\ Cur(w) \in Trx /\ pc[w] = "send" /\ pc'[w] = "next"
      /\ UNCHANGED <<at, ctxDone, closed>> /\ at[w] \in 1..Len(Bucket[w])
      /\ Cur(w) = Bucket[w][at[w]] /\ ~closed
  <2>1. Placed(w) /\ WorkerTypes /\ Len(Bucket[w]) \in Nat
    BY TypesFit DEF PoolInv, TypeOK
  <2>2. pc[w] = "send" /\ pc'[w] = "next" /\ UNCHANGED <<at, ctxDone, closed>>
    BY <2>1 DEF Send, WorkerTypes, run, Goto
  <2>3. at[w] \in 1..Len(Bucket[w]) /\ Cur(w) = Bucket[w][at[w]] /\ Cur(w) \in Trx
    BY <2>1, <2>2, BusyFits DEF Placed, WorkerTypes, Cur
  <2> QED
    BY <2>1, <2>2, <2>3 DEF ClosedAfterAll, AllDone
<1>2. ASSUME NEW v \in Worker, NEW i \in 1..Len(Bucket[v])
      PROVE  OpenPlace(v, i)' <=> OpenPlace(v, i) /\ Bucket[v][i] # Cur(w)
  <2>1. Bucket[v][i] = Cur(w) <=> v = w /\ i = at[w]
    BY <1>1, OwnPlaces DEF WorkerTypes
  <2>2. CASE v = w
    BY <1>1, <2>1, <2>2 DEF OpenPlace, WorkerTypes
  <2>3. CASE v # w
    <3>1. UNCHANGED <<pc[v], at[v]>>
      BY <2>3, OthersStay DEF WorkerStep
    <3> QED
      BY <2>1, <2>3, <3>1 DEF OpenPlace
  <2> QED
    BY <2>2, <2>3
<1>3. OpenTrxs' = OpenTrxs \ {Cur(w)}
  <2>1. ASSUME NEW t PROVE t \in OpenTrxs' <=> t \in OpenTrxs /\ t # Cur(w)
    BY <1>2, OpenAt, OpenAtNext
  <2> QED
    BY <2>1
<1>4. Cur(w) \in OpenTrxs
  BY <1>1, OpenAt DEF OpenPlace, WorkerTypes
<1>5. Answered' = Answered \cup {Cur(w)}
  BY ResultsSent
<1> QED
  BY <1>1, <1>3, <1>4, <1>5 DEF Stream!Answer, OpenTrxs

(* Any other step of a worker leaves the stream as it is, or gives the rest *)
(* of its bucket up because the context is over.                            *)
LEMMA QuietStep ==
  ASSUME PoolInv, NEW w \in Worker, WorkerStep(w) \/ OpStep(w), ~Send(w)
  PROVE  Stream!GiveUp(OpenTrxs \ OpenTrxs') \/ UNCHANGED Stream!vars
<1>1. UNCHANGED chan /\ UNCHANGED ctxDone
  BY DEF WorkerStep, OpStep, NextTrx, GetUserConfig, LoadClient, LoadOrStoreClient, GetAccounts,
         StartCategories, TakeAnswer, Decide, CreateCategory, CacheDelete, MapAccount,
         CreateEntry, CacheGet, FetchCategories, CacheSet, run
<1>2. UNCHANGED <<Answered, closed, ctxDone>>
  BY <1>1 DEF chan, Answered, Results
<1>3. ASSUME NEW v \in Worker, v # w, NEW i \in 1..Len(Bucket[v])
      PROVE  OpenPlace(v, i)' <=> OpenPlace(v, i)
  <2>1. UNCHANGED <<pc[v], at[v]>>
    BY <1>3, OthersStay
  <2> QED
    BY <2>1 DEF OpenPlace
<1>4. CASE \A i \in 1..Len(Bucket[w]) : OpenPlace(w, i)' <=> OpenPlace(w, i)
  <2>1. ASSUME NEW v \in Worker, NEW i \in 1..Len(Bucket[v])
        PROVE  OpenPlace(v, i)' <=> OpenPlace(v, i)
    BY <1>3, <1>4
  <2>2. ASSUME NEW t PROVE t \in OpenTrxs' <=> t \in OpenTrxs
    BY <2>1, OpenAt, OpenAtNext
  <2>3. OpenTrxs' = OpenTrxs
    <3>1. OpenTrxs' \subseteq OpenTrxs /\ OpenTrxs \subseteq OpenTrxs'
      BY <2>2
    <3> QED
      BY <3>1
  <2> QED
    BY <1>2, <2>3 DEF Stream!vars, OpenTrxs
<1>5. CASE ctxDone /\ \A i \in 1..Len(Bucket[w]) : ~OpenPlace(w, i)'
  <2>1. ASSUME NEW v \in Worker, NEW i \in 1..Len(Bucket[v])
        PROVE  OpenPlace(v, i)' => OpenPlace(v, i)
    BY <1>3, <1>5
  <2>2. ASSUME NEW t, t \in OpenTrxs' PROVE t \in OpenTrxs
    BY <2>1, <2>2, OpenAt, OpenAtNext
  <2>3. OpenTrxs' = OpenTrxs \ (OpenTrxs \ OpenTrxs')
    BY <2>2
  <2> QED
    BY <1>2, <1>5, <2>3 DEF Stream!GiveUp, OpenTrxs
<1> QED
  BY <1>4, <1>5, OwnOpenPlaces

LEMMA StreamStep ==
  ASSUME PoolInv, ClosedAfterAll, [Next]_vars
  PROVE  [Stream!Next]_Stream!vars
<1>1. ASSUME NEW w \in Worker, Send(w) PROVE Stream!Next
  BY <1>1, SendStep DEF Stream!Next
<1>2. ASSUME NEW w \in Worker, WorkerStep(w) \/ OpStep(w), ~Send(w)
      PROVE  [Stream!Next]_Stream!vars
  <2>1. OpenTrxs \subseteq Trx
    <3>1. ASSUME NEW t \in OpenTrxs PROVE t \in Trx
      BY OpenAt, TypesFit
    <3> QED
      BY <3>1
  <2> QED
    BY <1>2, <2>1, QuietStep DEF Stream!Next
<1>3. ASSUME UNCHANGED <<pc, at>> PROVE OpenTrxs' = OpenTrxs
  BY <1>3 DEF OpenTrxs, Pending
<1>4. CASE Close
  <2>1. OpenTrxs = {}
    BY <1>4 DEF Close, AllDone, OpenTrxs, Pending
  <2>2. OpenTrxs' = OpenTrxs /\ UNCHANGED <<Answered, ctxDone>> /\ closed'
    BY <1>3, <1>4 DEF Close, worker, run, Answered, Results
  <2> QED
    BY <2>1, <2>2 DEF Stream!Close, Stream!Next, OpenTrxs
<1>5. CASE Receive
  <2>1. OpenTrxs' = OpenTrxs /\ UNCHANGED <<Answered, ctxDone, closed>>
    BY <1>3, <1>5, ResultsReceived DEF Receive, worker, run
  <2> QED
    BY <2>1 DEF Stream!vars, OpenTrxs
<1>6. CASE Cancel
  <2>1. OpenTrxs' = OpenTrxs /\ UNCHANGED <<Answered, closed>> /\ ctxDone'
    BY <1>3, <1>6 DEF Cancel, worker, chan, Answered, Results
  <2> QED
    BY <2>1 DEF Stream!Excuse, Stream!Next, OpenTrxs
<1>7. CASE Expire \/ UNCHANGED vars
  <2>1. OpenTrxs' = OpenTrxs /\ UNCHANGED <<Answered, ctxDone, closed>>
    BY <1>3, <1>7 DEF Expire, vars, worker, chan, run, Answered, Results
  <2> QED
    BY <2>1 DEF Stream!vars, OpenTrxs
<1> QED
  BY <1>1, <1>2, <1>4, <1>5, <1>6, <1>7 DEF Next, Finished

LEMMA StreamInit == Init => Stream!Init
<1> SUFFICES ASSUME Init PROVE Stream!Init
  OBVIOUS
<1>1. Answered = {} /\ ctxDone = FALSE /\ closed = FALSE
  BY DEF Init, Answered, Results
<1>2. \A w \in Worker : \A i \in 1..Len(Bucket[w]) : OpenPlace(w, i)
  BY DEF Init, OpenPlace
<1>3. ASSUME NEW t PROVE t \in OpenTrxs <=> t \in Trx
  BY <1>2, OpenAt, Dealt
<1>4. OpenTrxs = Trx
  BY <1>3
<1> QED
  BY <1>1, <1>4 DEF Stream!Init, OpenTrxs

(* The result channel keeps the promise Run relies on: no transaction is    *)
(* answered twice, none is given up unless the context is over, and the     *)
(* channel is closed when all are settled.                                  *)
THEOREM PoolImplementsStream == Spec => StreamSpec
BY StreamInit, StreamStep, PoolAlways, ClosedAlways, PTL DEF Spec, StreamSpec, Stream!Spec

(* What is open has no result yet, and what has none is open. *)
Apart    == OpenTrxs \cap Answered = {}
Complete == ctxDone \/ OpenTrxs \cup Answered = Trx
Counted  == IsFiniteSet(Answered) /\ Len(out) + Len(got) = Cardinality(Answered)

LEMMA StreamFits ==
  ASSUME Apart, Complete, [Stream!Next]_Stream!vars
  PROVE  Apart' /\ Complete'
<1> USE DEF Apart, Complete
<1>1. ASSUME NEW t, Stream!Answer(t) PROVE Apart' /\ Complete'
  <2>1. /\ t \in OpenTrxs /\ OpenTrxs' = OpenTrxs \ {t} /\ Answered' = Answered \cup {t}
        /\ ctxDone' = ctxDone
    BY <1>1 DEF Stream!Answer, OpenTrxs
  <2> QED
    BY <2>1
<1>2. CASE Stream!Excuse
  <2>1. OpenTrxs' = OpenTrxs /\ Answered' = Answered /\ ctxDone' = TRUE
    BY <1>2 DEF Stream!Excuse, OpenTrxs
  <2> QED
    BY <2>1
<1>3. ASSUME NEW S, Stream!GiveUp(S) PROVE Apart' /\ Complete'
  <2>1. OpenTrxs' = OpenTrxs \ S /\ Answered' = Answered /\ ctxDone' = ctxDone /\ ctxDone
    BY <1>3 DEF Stream!GiveUp, OpenTrxs
  <2> QED
    BY <2>1
<1>4. CASE Stream!Close \/ UNCHANGED Stream!vars
  <2>1. OpenTrxs' = OpenTrxs /\ Answered' = Answered /\ ctxDone' = ctxDone
    BY <1>4 DEF Stream!Close, Stream!vars, OpenTrxs
  <2> QED
    BY <2>1
<1> QED
  BY <1>1, <1>2, <1>3, <1>4 DEF Stream!Next

(* Every result sent is one for a transaction that had none. *)
LEMMA CountedNext ==
  ASSUME PoolInv, ClosedAfterAll, Apart, Counted, [Next]_vars
  PROVE  Counted'
<1>0. out \in Seq(Result) /\ got \in Seq(Result) /\ Len(out) \in Nat /\ Len(got) \in Nat
  BY DEF PoolInv, TypeOK, ChanTypes
<1>1. ASSUME NEW w \in Worker, Send(w) PROVE Counted'
  <2>1. Cur(w) \notin Answered
    BY <1>1, SendStep DEF Stream!Answer, OpenTrxs, Apart
  <2>2. Answered' = Answered \cup {Cur(w)}
    BY <1>1, ResultsSent
  <2>3. IsFiniteSet(Answered') /\ Cardinality(Answered') = Cardinality(Answered) + 1
    BY <2>1, <2>2, FS_AddElement DEF Counted
  <2> DEFINE r == ResultOf(w)
  <2>4. out' = Append(out, r) /\ got' = got /\ r \in Result
    BY <1>1, BusyFits DEF Send, WithResult, ResultOf, Result, PoolInv, TypeOK, WorkerTypes
  <2> HIDE DEF r
  <2>5. Len(out') = Len(out) + 1 /\ got' = got
    BY <1>0, <2>4
  <2>6. Len(out') + Len(got') = Len(out) + Len(got) + 1
    BY <1>0, <2>5
  <2> QED
    BY <2>3, <2>6 DEF Counted
<1>2. CASE Receive
  <2>1. out # <<>> /\ out' = Tail(out) /\ got' = Append(got, Head(out))
    BY <1>2 DEF Receive, ToTheEnd
  <2>2. Head(out) \in Result /\ Len(out') = Len(out) - 1
    BY <1>0, <2>1, HeadTailProperties
  <2>3. Len(got') = Len(got) + 1
    BY <1>0, <2>1, <2>2, AppendProperties
  <2>4. Len(out') + Len(got') = Len(out) + Len(got)
    BY <1>0, <2>2, <2>3
  <2>5. Answered' = Answered
    BY <1>2, ResultsReceived
  <2> QED
    BY <2>4, <2>5 DEF Counted
<1>3. CASE UNCHANGED <<out, got>>
  BY <1>3 DEF Counted, Answered, Results
<1> QED
  BY <1>1, <1>2, <1>3, Writers DEF chan, Close

(* Each transaction has at most one result, and one when Run has ranged     *)
(* over the results of a run whose context has not ended.                   *)
THEOREM EachHasOneResult == Spec => []OneResultEach
<1>1. Init => Apart /\ Complete /\ Counted
  <2> SUFFICES ASSUME Init PROVE Apart /\ Complete /\ Counted
    OBVIOUS
  <2>1. Answered = {} /\ out = <<>> /\ got = <<>>
    BY DEF Init, Answered, Results
  <2>2. OpenTrxs = Trx
    BY StreamInit DEF Stream!Init, OpenTrxs
  <2> QED
    BY <2>1, <2>2, FS_EmptySet DEF Apart, Complete, Counted
<1>2. PoolInv /\ ClosedAfterAll /\ Apart /\ Complete /\ Counted /\ [Next]_vars
        => Apart' /\ Complete' /\ Counted'
  BY StreamStep, StreamFits, CountedNext
<1>3. ClosedAfterAll /\ Complete /\ Counted => OneResultEach
  <2> SUFFICES ASSUME ClosedAfterAll, Complete, Counted, Ranged, ~ctxDone PROVE Answered = Trx
    BY DEF Counted, OneResultEach
  <2>1. OpenTrxs = {}
    BY DEF Ranged, ClosedAfterAll, AllDone, OpenTrxs, Pending
  <2> QED
    BY <2>1 DEF Complete
<1> QED
  BY <1>1, <1>2, <1>3, PoolAlways, ClosedAlways, PTL DEF Spec

-----------------------------------------------------------------------------
(* A category that every list in memory has stays in all of them.          *)

(* What Settled says of one worker of the token. *)
Sure(w, n) ==
  /\ pc[w] = "decide" \/ op[w] \in {"set", "answer"} => n \in Names(list[w])
  /\ pc[w] = "create" => NameOf[Cur(w)] # n

LEMMA SettledSure ==
  ASSUME PoolInv, NEW k, NEW n, Settled(k, n), NEW w \in Worker, at[w] >= 1, Tok(w) = k
  PROVE  Sure(w, n)
BY DEF Settled, Sure, PoolInv, TypeOK, WorkerTypes

LEMMA SettledLedger ==
  ASSUME PoolInv, [Next]_vars, NEW k \in Token, NEW n \in Name, Settled(k, n)
  PROVE  {c \in ledgerCats'[k] : c.name = n} = {c \in ledgerCats[k] : c.name = n}
<1>1. ASSUME NEW w \in Worker, CreateCategory(w), AddCategory(w)
      PROVE  {c \in ledgerCats'[k] : c.name = n} = {c \in ledgerCats[k] : c.name = n}
  <2> DEFINE new == [id |-> nextID, name |-> NameOf[Cur(w)]]
  <2>1. Tok(w) \in Token /\ at[w] >= 1 /\ pc[w] = "create"
    BY <1>1, BusyFits DEF CreateCategory, PoolInv, Placed
  <2>2. new.name = NameOf[Cur(w)]
    OBVIOUS
  <2>3. ledgerCats' = [ledgerCats EXCEPT ![Tok(w)] = ledgerCats[Tok(w)] \cup {new}]
    BY <1>1 DEF AddCategory
  <2>4. Tok(w) = k => new.name # n
    BY <2>1, <2>2, SettledSure DEF Sure
  <2> HIDE DEF new
  <2> QED
    BY <2>1, <2>3, <2>4 DEF PoolInv, TypeOK, LedgerTypes
<1>2. UNCHANGED ledgerCats \/ \E w \in Worker : CreateCategory(w) /\ AddCategory(w)
  BY Writers DEF CreateCategory, CreateEntry, AddEntry, ledger
<1> QED
  BY <1>1, <1>2

LEMMA SettledCache ==
  ASSUME PoolInv, [Next]_vars, NEW k \in Token, NEW n \in Name, Settled(k, n),
         clients'[k] # NoClient, NEW cats \in cache'[clients'[k]]
  PROVE  n \in Names(cats)
<1>1. PICK v \in Worker : clients'[k] = <<v, k>>
  BY ClientsFitNext DEF ClientsFit
<1>2. CASE cats \in cache[<<v, k>>]
  <2>1. clients[k] = <<v, k>>
    BY <1>2 DEF PoolInv, ClientsFit
  <2> QED
    BY <1>2, <2>1, TypesFit DEF Settled
<1>3. ASSUME NEW w \in Worker, CacheSet(w), cats \notin cache[<<v, k>>]
      PROVE  n \in Names(cats)
  <2>1. holds[w] = <<v, k>> /\ cats = list[w] /\ op[w] = "set"
    BY <1>1, <1>3 DEF CacheSet, PoolInv, TypeOK, ClientTypes
  <2>2. holds[w] = clients[Tok(w)] /\ Tok(w) \in Token /\ clients[Tok(w)] # NoClient /\ at[w] >= 1
    BY <2>1, BusyFits DEF PoolInv, Linked, Placed, Client
  <2>3. Tok(w) = k
    BY <2>1, <2>2 DEF PoolInv, ClientsFit
  <2> QED
    BY <2>1, <2>2, <2>3, SettledSure DEF Sure
<1>4. cats \notin cache[<<v, k>>] => \E w \in Worker : CacheSet(w)
  BY <1>1, Writers
  DEF PoolInv, TypeOK, ClientTypes, shared, Expire, LoadClient, LoadOrStoreClient,
                 StartCategories, CreateCategory, CacheDelete, Invalidated
<1> QED
  BY <1>2, <1>3, <1>4

LEMMA SettledWorker ==
  ASSUME PoolInv, [Next]_vars, NEW k \in Token, NEW n \in Name, Settled(k, n),
         NEW w \in Worker, at'[w] >= 1, Tok(w)' = k
  PROVE  Sure(w, n)'
<1> USE DEF Goto, Return
<1>1. Placed(w) /\ Linked(w) /\ WorkerTypes
  BY DEF PoolInv, TypeOK
<1>2. at[w] >= 1 /\ UNCHANGED at[w] => Sure(w, n) /\ Cur(w)' = Cur(w) /\ Tok(w) = k
  BY SameCur, SettledSure
<1>3. CASE /\ UNCHANGED <<at[w], list[w]>>
           /\ op'[w] \in {"set", "answer"} => op[w] \in {"set", "answer"}
           /\ pc'[w] = "decide" => pc[w] = "decide" \/ op[w] = "answer"
           /\ pc'[w] = "create" => pc[w] = "create"
  BY <1>2, <1>3 DEF Sure, Names
<1>4. CASE WorkerStep(w)
  <2>1. CASE NextTrx(w)
    <3>1. CASE UNCHANGED at /\ pc'[w] = "done"
      BY <1>3, <2>1, <3>1 DEF NextTrx
    <3>2. CASE pc'[w] = "config" /\ op'[w] = "none"
      BY <3>2 DEF Sure
    <3> QED
      BY <1>1, <2>1, <3>1, <3>2 DEF NextTrx, WorkerTypes, Linked
  <2>2. CASE GetUserConfig(w) \/ LoadClient(w) \/ LoadOrStoreClient(w) \/ GetAccounts(w)
    BY <1>1, <1>3, <2>2
    DEF GetUserConfig, LoadClient, LoadOrStoreClient, GetAccounts, WorkerTypes
  <2>3. CASE StartCategories(w) \/ TakeAnswer(w)
    BY <1>1, <1>3, <2>3 DEF StartCategories, TakeAnswer, WorkerTypes
  <2>4. CASE Decide(w)
    <3>1. UNCHANGED <<at, list, op>> /\ op[w] = "none" /\ at[w] >= 1
      BY <1>1, <2>4 DEF Decide, Linked, Placed
    <3>2. CASE pc'[w] = "create" /\ NameOf[Cur(w)] \notin Names(list[w])
      BY <1>2, <2>4, <3>1, <3>2 DEF Decide, Sure
    <3>3. CASE pc'[w] = "account"
      BY <3>1, <3>3 DEF Sure
    <3> QED
      BY <1>1, <2>4, <3>2, <3>3 DEF Decide, IfAbsent, WorkerTypes
  <2>5. CASE CreateCategory(w) \/ CacheDelete(w) \/ MapAccount(w) \/ CreateEntry(w)
    BY <1>1, <1>3, <2>5
    DEF CreateCategory, CacheDelete, AfterCreate, MapAccount, CreateEntry, GiveUp, WorkerTypes
  <2>6. CASE Send(w)
    <3>1. UNCHANGED <<at, op>> /\ pc'[w] = "next" /\ (op[w] = "none" \/ UNCHANGED list[w])
      BY <1>1, <2>6 DEF Send, WorkerTypes, PoolInv, TypeOK, DataTypes
    <3>2. CASE op[w] = "none"
      BY <3>1, <3>2 DEF Sure
    <3> QED
      BY <1>3, <3>1, <3>2
  <2> QED
    BY <1>4, <2>1, <2>2, <2>3, <2>4, <2>5, <2>6 DEF WorkerStep
<1>5. CASE OpStep(w)
  <2>1. /\ UNCHANGED <<pc, at>> /\ at[w] >= 1 /\ Tok(w) \in Token /\ pc[w] # "decide"
        /\ op[w] # "none"
    BY <1>1, <1>5, BusyFits
    DEF OpStep, CacheGet, FetchCategories, CacheSet, Placed, worker, Linked
  <2>2. CASE UNCHANGED list[w] /\ op'[w] \notin {"set", "answer"}
    BY <1>3, <2>1, <2>2
  <2>3. CASE CacheSet(w)
    BY <1>1, <1>3, <2>1, <2>3 DEF CacheSet, worker
  <2>4. CASE n \in Names(list'[w])
    BY <1>2, <2>1, <2>4 DEF Sure, Names
  <2>5. CASE CacheGet(w) /\ list'[w] \in cache[holds[w]]
    <3>1. holds[w] = clients[k] /\ clients[k] # NoClient
      BY <1>1, <1>2, <2>1 DEF Linked, Client
    <3> QED
      BY <2>4, <2>5, <3>1 DEF Settled
  <2>6. CASE FetchCategories(w) /\ list'[w] = ledgerCats[Tok(w)]
    BY <1>2, <2>1, <2>4, <2>6 DEF Settled
  <2> QED
    BY <1>1, <1>5, <2>2, <2>3, <2>5, <2>6
    DEF OpStep, CacheGet, FetchCategories, WorkerTypes, PoolInv, TypeOK, DataTypes
<1>6. CASE UNCHANGED <<pc[w], at[w], list[w], op[w]>>
  BY <1>2, <1>6 DEF Sure, Names
<1> QED
  BY <1>4, <1>5, <1>6, Own

LEMMA SettledNext ==
  ASSUME PoolInv, [Next]_vars, NEW k \in Token, NEW n \in Name, Settled(k, n)
  PROVE  Settled(k, n)'
<1>1. (n \in Names(ledgerCats[k]))'
  BY LedgerGrows DEF Settled, Names
<1>2. clients'[k] # NoClient => \A cats \in cache'[clients'[k]] : n \in Names(cats)
  BY SettledCache
<1>3. ASSUME NEW w \in Worker, (at[w] > 0)', Tok(w)' = k PROVE Sure(w, n)'
  <2>1. at'[w] \in Nat
    BY WorkerTypesNext DEF WorkerTypes
  <2> QED
    BY <1>3, <2>1, SettledWorker
<1> QED
  BY <1>1, <1>2, <1>3 DEF Settled, Sure

(* Once every list in memory has a category, none ever lacks it again and   *)
(* no worker creates it again, so that one which exists before the run gets *)
(* no double, however the workers, their left-over operations, the expiry   *)
(* of the cache and its Delete interleave.                                  *)
THEOREM CategoriesSettle == Spec => CategorySettles
<1>1. PoolInv /\ [Next]_vars =>
        [\A k \in Token, n \in Name : Settled(k, n) =>
           /\ Settled(k, n)'
           /\ {c \in ledgerCats'[k] : c.name = n} = {c \in ledgerCats[k] : c.name = n}]_vars
  BY SettledNext, SettledLedger
<1> QED
  BY <1>1, PoolAlways, PTL DEF Spec, CategorySettles

-----------------------------------------------------------------------------
(* Nobody is stuck.                                                        *)

(* A worker that waits has a call under way, unless the context has ended. *)
Waits == \A w \in Worker : pc[w] = "wait" /\ ~ctxDone => op[w] # "none"

LEMMA WaitsNext == PoolInv /\ Waits /\ [Next]_vars => Waits'
<1> SUFFICES ASSUME PoolInv, Waits, [Next]_vars, NEW w \in Worker, pc'[w] = "wait", ~ctxDone'
             PROVE  op'[w] # "none"
  BY DEF Waits
<1>0. pc \in [Worker -> Stage] /\ ~ctxDone /\ WorkerTypes
  BY Writers DEF PoolInv, TypeOK, WorkerTypes, Cancel
<1>1. CASE WorkerStep(w)
  <2> USE DEF Goto, Return, WorkerTypes
  <2>1. CASE StartCategories(w)
    BY <1>0, <2>1 DEF StartCategories
  <2>2. ~TakeAnswer(w)
    BY <1>0 DEF TakeAnswer
  <2>3. CASE NextTrx(w) \/ GetUserConfig(w) \/ LoadClient(w) \/ LoadOrStoreClient(w)
    BY <1>0, <2>3 DEF NextTrx, GetUserConfig, LoadClient, LoadOrStoreClient
  <2>4. CASE GetAccounts(w) \/ Decide(w) \/ CreateCategory(w) \/ CacheDelete(w)
    BY <1>0, <2>4 DEF GetAccounts, Decide, IfAbsent, CreateCategory, CacheDelete, AfterCreate
  <2>5. CASE MapAccount(w) \/ CreateEntry(w) \/ Send(w)
    BY <1>0, <2>5 DEF MapAccount, CreateEntry, GiveUp, Send
  <2> QED
    BY <1>1, <2>1, <2>2, <2>3, <2>4, <2>5 DEF WorkerStep
<1>2. CASE OpStep(w)
  BY <1>0, <1>2 DEF OpStep, CacheGet, FetchCategories, CacheSet, WorkerTypes
<1>3. CASE UNCHANGED <<pc[w], op[w]>>
  BY <1>0, <1>3 DEF Waits
<1> QED
  BY <1>1, <1>2, <1>3, Own

LEMMA SomeRoom == ASSUME NEW w \in Worker, out = <<>> PROVE Room
<1>1. Routines(Cpus, Trxs) \in Int
  BY PoolAssumption, RoutinesBound
<1> QED
  BY <1>1, FS_Interval DEF Room, Worker

(* For every number of workers and transactions: until Run has all results, *)
(* there is one to receive, the channel to close, or a worker with a step   *)
(* to take.                                                                 *)
THEOREM PoolNeverStuck == Spec => []NobodyStuck
<1>1. Init => Waits
  BY DEF Init, Waits
<1>2. PoolInv /\ Waits => NobodyStuck
  <2> SUFFICES ASSUME PoolInv, Waits, ~Ranged, out = <<>>, closed \/ ~AllDone
               PROVE  \E w \in Worker : CanGo(w)
    BY DEF NobodyStuck, ToTheEnd
  <2>1. PICK w \in Worker : pc[w] # "done"
    BY DEF Ranged, AllDone
  <2>2. pc[w] = "wait" => op[w] # "none" \/ ctxDone
    BY DEF Waits
  <2> QED
    BY <2>1, <2>2, SomeRoom DEF CanGo
<1> QED
  BY <1>1, <1>2, WaitsNext, PoolAlways, PTL DEF Spec

-----------------------------------------------------------------------------
(* The steps of a worker run out.                                          *)

LEMMA Ranks ==
  /\ Rank["done"] = 0 /\ Rank["next"] = 1 /\ Rank["send"] = 2 /\ Rank["entry"] = 3
  /\ Rank["account"] = 4 /\ Rank["invalidate"] = 5 /\ Rank["create"] = 6 /\ Rank["decide"] = 7
  /\ Rank["wait"] = 8 /\ Rank["categories"] = 12 /\ Rank["accounts"] = 13
  /\ Rank["build"] = 14 /\ Rank["load"] = 15 /\ Rank["config"] = 16
BY DEF Rank

LEMMA CallRanks ==
  /\ CallRank["none"] = 0 /\ CallRank["answer"] = 0 /\ CallRank["fail"] = 0
  /\ CallRank["set"] = 1 /\ CallRank["fetch"] = 2 /\ CallRank["get"] = 3
BY DEF CallRank

LEMMA StepsLeftType ==
  PoolInv =>
    \A w \in Worker : /\ StepsLeft(w) \in Nat /\ Rank[pc[w]] \in Nat /\ CallRank[op[w]] \in Nat
                      /\ at[w] \in Nat /\ Len(Bucket[w]) \in Nat
<1> SUFFICES ASSUME PoolInv, NEW w \in Worker
             PROVE  /\ StepsLeft(w) \in Nat /\ Rank[pc[w]] \in Nat /\ CallRank[op[w]] \in Nat
                    /\ at[w] \in Nat /\ Len(Bucket[w]) \in Nat
  OBVIOUS
<1>1. at[w] \in Nat /\ Len(Bucket[w]) \in Nat /\ at[w] <= Len(Bucket[w])
  BY TypesFit DEF PoolInv, TypeOK, WorkerTypes, Placed
<1>2. Rank[pc[w]] \in Nat
  <2>1. pc[w] \in Stage
    BY DEF PoolInv, TypeOK, WorkerTypes
  <2> QED
    BY <2>1, Ranks DEF Stage, Calling
<1>3. CallRank[op[w]] \in Nat
  <2>1. op[w] \in {"none", "get", "fetch", "set", "answer", "fail"}
    BY DEF PoolInv, TypeOK, WorkerTypes
  <2> QED
    BY <2>1, CallRanks
<1>4. \A n, a, r, c \in Nat : a <= n => 16 * (n - a) + r + c \in Nat
  OBVIOUS
<1>5. StepsLeft(w) \in Nat
  BY <1>1, <1>2, <1>3, <1>4, Zenon DEF StepsLeft
<1> QED
  BY <1>1, <1>2, <1>3, <1>5

LEMMA OwnStepsRunOut ==
  ASSUME PoolInv, NEW w \in Worker, WorkerStep(w) \/ OpStep(w)
  PROVE  StepsLeft(w)' < StepsLeft(w)
<1> USE DEF Goto, Return, worker
<1> DEFINE n == Len(Bucket[w])
           a == at[w]             a2 == at'[w]
           r == Rank[pc[w]]       r2 == Rank[pc'[w]]
           c == CallRank[op[w]]   c2 == CallRank[op'[w]]
<1>0. WorkerTypes
  BY DEF PoolInv, TypeOK
<1>t. n \in Nat /\ a \in Nat /\ r \in Nat /\ c \in Nat
  BY StepsLeftType
<1>s. /\ StepsLeft(w) = 16 * (n - a) + r + c
      /\ StepsLeft(w)' = 16 * (n - a2) + r2 + c2
  BY DEF StepsLeft
<1> SUFFICES 16 * (n - a2) + r2 + c2 < 16 * (n - a) + r + c
  BY <1>s
(* The worker goes on within its transaction. *)
<1>m. CASE a2 = a /\ c2 = c /\ r2 < r /\ r2 \in Nat
  <2> HIDE DEF n, a, r, c, a2, r2, c2
  <2> QED
    BY <1>t, <1>m
<1>1. CASE NextTrx(w)
  <2>1. /\ op'[w] = op[w] /\ pc[w] = "next"
        /\ \/ pc'[w] = "done" /\ at'[w] = at[w]
           \/ pc'[w] = "config" /\ at'[w] = at[w] + 1
    BY <1>0, <1>1 DEF NextTrx, WorkerTypes
  <2>2. c2 = c /\ r = 1
    BY <2>1, Ranks
  <2>3. \/ r2 = 0 /\ a2 = a
        \/ r2 = 16 /\ a2 = a + 1
    BY <2>1, Ranks
  <2> HIDE DEF n, a, r, c, a2, r2, c2
  <2> QED
    BY <1>t, <2>2, <2>3
<1>2. CASE GetUserConfig(w) \/ LoadClient(w) \/ LoadOrStoreClient(w) \/ GetAccounts(w)
  <2>1. /\ op'[w] = op[w] /\ at'[w] = at[w]
        /\ \/ pc[w] = "config" /\ pc'[w] \in {"load", "send"}
           \/ pc[w] = "load" /\ pc'[w] \in {"accounts", "build"}
           \/ pc[w] = "build" /\ pc'[w] = "accounts"
           \/ pc[w] = "accounts" /\ pc'[w] \in {"categories", "send"}
    BY <1>0, <1>2 DEF GetUserConfig, LoadClient, LoadOrStoreClient, GetAccounts, WorkerTypes
  <2>2. a2 = a /\ c2 = c /\ r2 < r /\ r2 \in Nat
    BY <2>1, Ranks
  <2> QED
    BY <2>2, <1>m
<1>3. CASE StartCategories(w)
  <2>1. op[w] = "none"
    BY <1>3 DEF StartCategories, PoolInv, Linked
  <2>2. /\ op'[w] = "get" /\ at'[w] = at[w] /\ pc[w] = "categories" /\ pc'[w] = "wait"
    BY <1>0, <1>3 DEF StartCategories, WorkerTypes
  <2>3. a2 = a /\ c = 0 /\ c2 = 3 /\ r = 12 /\ r2 = 8
    BY <2>1, <2>2, Ranks, CallRanks
  <2> HIDE DEF n, a, r, c, a2, r2, c2
  <2> QED
    BY <1>t, <2>3
<1>4. CASE TakeAnswer(w)
  <2>1. /\ at'[w] = at[w] /\ pc[w] = "wait" /\ pc'[w] \in {"decide", "send"}
        /\ op'[w] = op[w] \/ (op[w] \in {"answer", "fail"} /\ op'[w] = "none")
    BY <1>0, <1>4 DEF TakeAnswer, WorkerTypes
  <2>2. a2 = a /\ c2 = c /\ r2 < r /\ r2 \in Nat
    BY <2>1, Ranks, CallRanks
  <2> QED
    BY <2>2, <1>m
<1>5. CASE Decide(w) \/ CreateCategory(w) \/ CacheDelete(w)
  <2>1. /\ op'[w] = op[w] /\ at'[w] = at[w]
        /\ \/ pc[w] = "decide" /\ pc'[w] \in {"account", "create"}
           \/ pc[w] = "create" /\ pc'[w] = "invalidate"
           \/ pc[w] = "invalidate" /\ pc'[w] \in {"send", "account"}
    BY <1>0, <1>5
    DEF Decide, IfAbsent, CreateCategory, CacheDelete, AfterCreate, WorkerTypes
  <2>2. a2 = a /\ c2 = c /\ r2 < r /\ r2 \in Nat
    BY <2>1, Ranks
  <2> QED
    BY <2>2, <1>m
<1>6. CASE MapAccount(w) \/ CreateEntry(w) \/ Send(w)
  <2>1. /\ op'[w] = op[w] /\ at'[w] = at[w]
        /\ \/ pc[w] = "account" /\ pc'[w] \in {"send", "entry"}
           \/ pc[w] = "entry" /\ pc'[w] = "send"
           \/ pc[w] = "send" /\ pc'[w] = "next"
    BY <1>0, <1>6 DEF MapAccount, CreateEntry, GiveUp, Send, WorkerTypes
  <2>2. a2 = a /\ c2 = c /\ r2 < r /\ r2 \in Nat
    BY <2>1, Ranks
  <2> QED
    BY <2>2, <1>m
<1>7. CASE OpStep(w)
  <2>1. /\ at'[w] = at[w] /\ pc'[w] = pc[w]
        /\ \/ op[w] = "get" /\ op'[w] \in {"fetch", "answer"}
           \/ op[w] = "fetch" /\ op'[w] \in {"set", "fail"}
           \/ op[w] = "set" /\ op'[w] = "answer"
    BY <1>0, <1>7 DEF OpStep, CacheGet, FetchCategories, CacheSet, WorkerTypes
  <2>2. a2 = a /\ r2 = r /\ c2 < c /\ c2 \in Nat
    BY <2>1, CallRanks
  <2> HIDE DEF n, a, r, c, a2, r2, c2
  <2> QED
    BY <1>t, <2>2
<1> QED
  BY <1>1, <1>2, <1>3, <1>4, <1>5, <1>6, <1>7 DEF WorkerStep

(* A worker ends for every number of transactions and workers and whatever   *)
(* fails: no error is tried again, and a call that the end of the context    *)
(* leaves behind has three steps.  With PoolNeverStuck this is why Run gets  *)
(* to the end of the results.                                                *)
THEOREM PoolStepsRunOut == Spec => [](\A w \in Worker : StepsLeft(w) \in Nat) /\ StepsRunOut
<1>1. PoolInv => \A w \in Worker : StepsLeft(w) \in Nat
  BY StepsLeftType
<1>2. (PoolInv => \A w \in Worker : StepsLeft(w) \in Nat)'
  BY <1>1, PTL
<1>3. PoolInv /\ PoolInv' /\ [Next]_vars =>
        [\A w \in Worker :
           /\ StepsLeft(w)' <= StepsLeft(w)
           /\ WorkerStep(w) \/ OpStep(w) => StepsLeft(w)' < StepsLeft(w)]_vars
  <2> SUFFICES ASSUME PoolInv, PoolInv', [Next]_vars, NEW w \in Worker
               PROVE  /\ StepsLeft(w)' <= StepsLeft(w)
                      /\ WorkerStep(w) \/ OpStep(w) => StepsLeft(w)' < StepsLeft(w)
    OBVIOUS
  <2>1. StepsLeft(w) \in Nat /\ StepsLeft(w)' \in Nat
    BY <1>1, <1>2
  <2>2. WorkerStep(w) \/ OpStep(w) => StepsLeft(w)' < StepsLeft(w)
    BY OwnStepsRunOut
  <2>3. CASE UNCHANGED <<pc[w], at[w], list[w], catID[w], err[w], op[w], holds[w]>>
    <3>1. StepsLeft(w)' = StepsLeft(w)
      BY <2>3 DEF StepsLeft
    <3> QED
      BY <2>1, <2>2, <3>1
  <2> QED
    BY <2>1, <2>2, <2>3, Own
<1> QED
  BY <1>1, <1>3, PoolAlways, PTL DEF Spec, StepsRunOut

-----------------------------------------------------------------------------
(* The pool registers as MailSync does: one transaction in one step.       *)

LEMMA UndecidedAt ==
  ASSUME NEW t
  PROVE  t \in Undecided <=>
           \E w \in Worker : \E i \in 1..Len(Bucket[w]) : Ahead(w, i) /\ Bucket[w][i] = t
<1>1. \A w \in Worker : DOMAIN Bucket[w] = 1..Len(Bucket[w])
  BY TypesFit
<1> QED
  BY <1>1 DEF Undecided

LEMMA UndecidedAtNext ==
  ASSUME NEW t
  PROVE  t \in Undecided' <=>
           \E w \in Worker : \E i \in 1..Len(Bucket[w]) : Ahead(w, i)' /\ Bucket[w][i] = t
<1>1. \A w \in Worker : DOMAIN Bucket[w] = 1..Len(Bucket[w])
  BY TypesFit
<1> QED
  BY <1>1 DEF Undecided

LEMMA DecidedAt ==
  ASSUME NEW t, NEW e \in BOOLEAN
  PROVE  t \in Decided(e) <=>
           \/ \E r \in Results : r.failed = e /\ r.trx = t
           \/ \E v \in Worker : pc[v] = "send" /\ err[v] = e /\ Cur(v) = t
BY DEF Decided

LEMMA DecidedAtNext ==
  ASSUME NEW t, NEW e \in BOOLEAN
  PROVE  t \in Decided(e)' <=>
           \/ \E r \in Results' : r.failed = e /\ r.trx = t
           \/ \E v \in Worker : pc'[v] = "send" /\ err'[v] = e /\ Cur(v)' = t
BY DEF Decided

(* An error lives from where it happens to the result, and happens only if  *)
(* something may fail.                                                      *)
Reasons(w) ==
  /\ op[w] = "fail" => MayFail
  /\ err[w] => pc[w] = "send" \/ (pc[w] = "invalidate" /\ MayFail)

AllReasons == \A w \in Worker : Reasons(w)

LEMMA ReasonsNext == PoolInv /\ AllReasons /\ [Next]_vars => AllReasons'
<1> SUFFICES ASSUME PoolInv, AllReasons, [Next]_vars, NEW w \in Worker PROVE Reasons(w)'
  BY DEF AllReasons
<1> USE DEF Goto, Return, WorkerTypes
<1>0. WorkerTypes /\ Reasons(w) /\ (ctxDone => ctxDone')
  BY Writers DEF PoolInv, TypeOK, AllReasons, Cancel
<1>1. CASE NextTrx(w)
  BY <1>0, <1>1 DEF NextTrx, Reasons, run
<1>2. CASE GetUserConfig(w) \/ LoadClient(w) \/ LoadOrStoreClient(w) \/ GetAccounts(w)
  BY <1>0, <1>2 DEF GetUserConfig, LoadClient, LoadOrStoreClient, GetAccounts, Reasons
<1>3. CASE StartCategories(w) \/ TakeAnswer(w)
  BY <1>0, <1>3 DEF StartCategories, TakeAnswer, Reasons
<1>4. CASE Decide(w) \/ CacheDelete(w)
  BY <1>0, <1>4 DEF Decide, IfAbsent, CacheDelete, AfterCreate, Reasons
<1>5. CASE CreateCategory(w)
  BY <1>0, <1>5 DEF CreateCategory, Reasons, MayFail
<1>6. CASE MapAccount(w) \/ CreateEntry(w) \/ Send(w)
  BY <1>0, <1>6 DEF MapAccount, CreateEntry, GiveUp, Send, Reasons
<1>7. CASE OpStep(w)
  BY <1>0, <1>7 DEF OpStep, CacheGet, FetchCategories, CacheSet, Reasons, MayFail, worker
<1>8. CASE UNCHANGED <<pc[w], at[w], list[w], catID[w], err[w], op[w], holds[w]>>
  BY <1>0, <1>8 DEF Reasons
<1> QED
  BY <1>1, <1>2, <1>3, <1>4, <1>5, <1>6, <1>7, <1>8, Own DEF WorkerStep

(* The worker decides on its transaction. *)
Decides(w, e) ==
  /\ pc[w] \notin {"next", "send", "done"} /\ pc'[w] = "send"
  /\ at'[w] = at[w] /\ err'[w] = e

(* The worker ends before its bucket does. *)
Leaves(w) ==
  /\ pc[w] = "next" /\ pc'[w] = "done"
  /\ at'[w] = at[w] /\ ctxDone

(* The worker leaves the lists as they are. *)
Keeps(w) ==
  /\ \A i \in 1..Len(Bucket[w]) : Ahead(w, i)' <=> Ahead(w, i)
  /\ \/ UNCHANGED <<pc[w], at[w], err[w]>>
     \/ pc[w] # "send" /\ pc'[w] # "send"

LEMMA OwnDecisions ==
  ASSUME PoolInv, DryRunStays, AllReasons, NEW w \in Worker, WorkerStep(w) \/ OpStep(w), ~Send(w)
  PROVE  \/ (Keeps(w) \/ Leaves(w)) /\ UNCHANGED entries
         \/ Decides(w, FALSE) /\ (IF dryRun THEN UNCHANGED entries ELSE AddEntry(w))
         \/ Decides(w, TRUE) /\ (MayFail \/ ctxDone) /\ UNCHANGED entries
         \/ Decides(w, TRUE) /\ Fault("lostAck") /\ ~dryRun /\ AddEntry(w)
<1> USE DEF Goto, Return
<1>0. WorkerTypes /\ Reasons(w) /\ Placed(w) /\ Len(Bucket[w]) \in Nat
  BY TypesFit DEF PoolInv, TypeOK, AllReasons
<1>k. CASE /\ UNCHANGED at[w] /\ UNCHANGED entries
           /\ pc[w] \notin {"next", "send", "done"} /\ pc'[w] \notin {"next", "send", "done"}
  BY <1>k DEF Keeps, Ahead
<1>1. CASE NextTrx(w)
  <2>1. UNCHANGED entries /\ pc[w] = "next"
    BY <1>1 DEF NextTrx, ledger
  <2>2. CASE pc'[w] = "done" /\ at'[w] = at[w] /\ ctxDone
    BY <2>1, <2>2 DEF Leaves
  <2>4. CASE pc'[w] = "done" /\ at'[w] = at[w] /\ at[w] = Len(Bucket[w])
    <3>1. \A i \in 1..Len(Bucket[w]) : ~(i > at[w])
      BY <1>0, <2>4
    <3>2. \A i \in 1..Len(Bucket[w]) : ~Ahead(w, i) /\ ~Ahead(w, i)'
      BY <2>1, <2>4, <3>1 DEF Ahead
    <3> QED
      BY <2>1, <2>4, <3>2 DEF Keeps
  <2>3. CASE pc'[w] = "config" /\ at'[w] = at[w] + 1
    <3>1. ASSUME NEW i \in 1..Len(Bucket[w]) PROVE Ahead(w, i)' <=> Ahead(w, i)
      <4>1. at[w] \in Nat /\ i \in Nat
        BY <1>0 DEF WorkerTypes
      <4>2. i > at[w] <=> i > at[w] + 1 \/ i = at[w] + 1
        BY <4>1
      <4> QED
        BY <2>1, <2>3, <4>2 DEF Ahead
    <3> QED
      BY <2>1, <2>3, <3>1 DEF Keeps
  <2> QED
    BY <1>0, <1>1, <2>2, <2>3, <2>4 DEF NextTrx, WorkerTypes
<1>2. CASE GetUserConfig(w) \/ GetAccounts(w)
  BY <1>0, <1>2, <1>k
  DEF GetUserConfig, GetAccounts, WorkerTypes, Decides, ledger, MayFail
<1>3. CASE LoadClient(w) \/ LoadOrStoreClient(w) \/ StartCategories(w) \/ Decide(w)
  BY <1>0, <1>3, <1>k
  DEF LoadClient, LoadOrStoreClient, StartCategories, Decide, IfAbsent, WorkerTypes, ledger
<1>4. CASE TakeAnswer(w)
  BY <1>0, <1>4, <1>k DEF TakeAnswer, WorkerTypes, Decides, ledger, Reasons
<1>5. CASE CreateCategory(w)
  BY <1>0, <1>5, <1>k DEF CreateCategory, AddCategory, WorkerTypes, ledger
<1>6. CASE CacheDelete(w)
  <2>1. UNCHANGED entries /\ pc[w] = "invalidate" /\ at'[w] = at[w] /\ err'[w] = err[w]
    BY <1>6 DEF CacheDelete, ledger
  <2>2. CASE err[w]
    BY <1>0, <1>6, <2>1, <2>2 DEF CacheDelete, AfterCreate, WorkerTypes, Decides, Reasons
  <2>3. CASE ~err[w]
    BY <1>0, <1>6, <1>k, <2>1, <2>3 DEF CacheDelete, AfterCreate, WorkerTypes
  <2> QED
    BY <2>2, <2>3
<1>7. CASE MapAccount(w)
  BY <1>0, <1>7, <1>k DEF MapAccount, WorkerTypes, Decides, ledger, MayFail
<1>8. CASE CreateEntry(w)
  <2>1. ~dryRun
    BY <1>8 DEF CreateEntry, DryRunStays
  <2> QED
    BY <1>0, <1>8, <2>1 DEF CreateEntry, GiveUp, WorkerTypes, Decides, ledger, MayFail
<1>9. CASE OpStep(w)
  BY <1>9 DEF OpStep, CacheGet, FetchCategories, CacheSet, worker, ledger, Keeps, Ahead
<1> QED
  BY <1>1, <1>2, <1>3, <1>4, <1>5, <1>6, <1>7, <1>8, <1>9 DEF WorkerStep

(* A decision takes one transaction from the undecided to one of the lists. *)
LEMMA DecisionShows ==
  ASSUME PoolInv, NEW w \in Worker, WorkerStep(w), NEW e \in BOOLEAN, Decides(w, e),
         NEW d \in BOOLEAN, d # e, Results' = Results
  PROVE  /\ Cur(w) \in Undecided /\ Cur(w) \in Trx
         /\ Undecided' = Undecided \ {Cur(w)}
         /\ Decided(e)' = Decided(e) \cup {Cur(w)}
         /\ Decided(d)' = Decided(d)
<1>1. /\ at[w] \in 1..Len(Bucket[w]) /\ Cur(w) = Bucket[w][at[w]] /\ Cur(w) \in Trx
      /\ at'[w] = at[w] /\ Cur(w)' = Cur(w)
      /\ pc[w] \notin {"next", "send", "done"} /\ pc'[w] = "send" /\ err'[w] = e
  <2>1. pc[w] \notin {"next", "send", "done"} /\ pc'[w] = "send" /\ at'[w] = at[w] /\ err'[w] = e
    BY DEF Decides
  <2>2. at[w] \in 1..Len(Bucket[w])
    BY <2>1, TypesFit DEF PoolInv, TypeOK, WorkerTypes, Placed
  <2> QED
    BY <2>1, <2>2, BusyFits DEF Cur
<1>2. ASSUME NEW v \in Worker, v # w
      PROVE  pc'[v] = pc[v] /\ at'[v] = at[v] /\ err'[v] = err[v] /\ Cur(v)' = Cur(v)
  BY <1>2, OthersStay DEF Cur
<1>3. ASSUME NEW v \in Worker, NEW i \in 1..Len(Bucket[v])
      PROVE  Ahead(v, i)' <=> Ahead(v, i) /\ Bucket[v][i] # Cur(w)
  <2>1. Bucket[v][i] = Cur(w) <=> v = w /\ i = at[w]
    BY <1>1, OwnPlaces
  <2>2. CASE v = w
    BY <1>1, <2>1, <2>2 DEF Ahead
  <2>3. CASE v # w
    BY <1>2, <2>1, <2>3 DEF Ahead
  <2> QED
    BY <2>2, <2>3
<1>4. Undecided' = Undecided \ {Cur(w)}
  <2>1. ASSUME NEW t PROVE t \in Undecided' <=> t \in Undecided /\ t # Cur(w)
    BY <1>3, UndecidedAt, UndecidedAtNext
  <2> QED
    BY <2>1
<1>5. Cur(w) \in Undecided
  BY <1>1, UndecidedAt DEF Ahead
<1>6. ASSUME NEW t PROVE t \in Decided(e)' <=> t \in Decided(e) \/ t = Cur(w)
  BY <1>1, <1>2, DecidedAt, DecidedAtNext
<1>7. ASSUME NEW t PROVE t \in Decided(d)' <=> t \in Decided(d)
  BY <1>1, <1>2, DecidedAt, DecidedAtNext
<1>8. Decided(e)' = Decided(e) \cup {Cur(w)} /\ Decided(d)' = Decided(d)
  BY <1>6, <1>7
<1> QED
  BY <1>1, <1>4, <1>5, <1>8

LEMMA KeepingShows ==
  ASSUME PoolInv, NEW w \in Worker, WorkerStep(w) \/ OpStep(w), Keeps(w), Results' = Results
  PROVE  UNCHANGED <<Undecided, Decided(FALSE), Decided(TRUE)>>
<1>2. ASSUME NEW v \in Worker, v # w
      PROVE  pc'[v] = pc[v] /\ at'[v] = at[v] /\ err'[v] = err[v] /\ Cur(v)' = Cur(v)
  BY <1>2, OthersStay DEF Cur
<1>3. ASSUME NEW v \in Worker, NEW i \in 1..Len(Bucket[v]) PROVE Ahead(v, i)' <=> Ahead(v, i)
  BY <1>2 DEF Ahead, Keeps
<1>4. ASSUME NEW t PROVE t \in Undecided' <=> t \in Undecided
  BY <1>3, UndecidedAt, UndecidedAtNext
<1>5. ASSUME NEW v \in Worker, NEW e \in BOOLEAN, NEW t
      PROVE  (pc'[v] = "send" /\ err'[v] = e /\ Cur(v)' = t) <=> (pc[v] = "send" /\ err[v] = e /\ Cur(v) = t)
  BY <1>2 DEF Keeps, Cur
<1>6. ASSUME NEW t, NEW e \in BOOLEAN PROVE t \in Decided(e)' <=> t \in Decided(e)
  BY <1>5, DecidedAt, DecidedAtNext
<1>7. Undecided' = Undecided
  BY <1>4
<1>8. Decided(FALSE)' = Decided(FALSE) /\ Decided(TRUE)' = Decided(TRUE)
  BY <1>6
<1> QED
  BY <1>7, <1>8

(* What a worker leaves to the context is no longer undecided, nor decided. *)
LEMMA LeavingShows ==
  ASSUME PoolInv, NEW w \in Worker, WorkerStep(w), Leaves(w), Results' = Results
  PROVE  Undecided' \subseteq Undecided /\ UNCHANGED <<Decided(FALSE), Decided(TRUE)>>
<1>1. ASSUME NEW v \in Worker, v # w
      PROVE  pc'[v] = pc[v] /\ at'[v] = at[v] /\ err'[v] = err[v] /\ Cur(v)' = Cur(v)
  BY <1>1, OthersStay DEF Cur
<1>2. ASSUME NEW v \in Worker, NEW i \in 1..Len(Bucket[v]) PROVE Ahead(v, i)' => Ahead(v, i)
  <2>1. CASE v = w
    BY <2>1 DEF Leaves, Ahead
  <2>2. CASE v # w
    BY <1>1, <2>2 DEF Ahead
  <2> QED
    BY <2>1, <2>2
<1>3. ASSUME NEW t PROVE t \in Undecided' => t \in Undecided
  BY <1>2, UndecidedAt, UndecidedAtNext
<1>4. pc[w] # "send" /\ pc'[w] # "send"
  BY DEF Leaves
<1>5. ASSUME NEW t, NEW e \in BOOLEAN PROVE t \in Decided(e)' <=> t \in Decided(e)
  BY <1>1, <1>4, DecidedAt, DecidedAtNext
<1>6. Decided(FALSE)' = Decided(FALSE) /\ Decided(TRUE)' = Decided(TRUE)
  BY <1>5
<1> QED
  BY <1>3, <1>6

(* To send a result moves it on, and nothing else. *)
LEMMA SendingShows ==
  ASSUME PoolInv, NEW w \in Worker, Send(w)
  PROVE  UNCHANGED <<Undecided, Decided(FALSE), Decided(TRUE)>>
<1>0. WorkerTypes /\ WorkerStep(w)
  BY DEF PoolInv, TypeOK, WorkerStep
<1>1. pc[w] = "send" /\ pc'[w] = "next" /\ at'[w] = at[w]
  BY <1>0 DEF Send, Goto, WorkerTypes
<1>2. ASSUME NEW v \in Worker, v # w
      PROVE  pc'[v] = pc[v] /\ at'[v] = at[v] /\ err'[v] = err[v] /\ Cur(v)' = Cur(v)
  BY <1>0, <1>2, OthersStay DEF Cur
<1>3. ASSUME NEW v \in Worker, NEW i \in 1..Len(Bucket[v]) PROVE Ahead(v, i)' <=> Ahead(v, i)
  <2>1. CASE v = w
    BY <1>1, <2>1 DEF Ahead
  <2>2. CASE v # w
    BY <1>2, <2>2 DEF Ahead
  <2> QED
    BY <2>1, <2>2
<1>4. ASSUME NEW t PROVE t \in Undecided' <=> t \in Undecided
  BY <1>3, UndecidedAt, UndecidedAtNext
<1> DEFINE res == [trx |-> Cur(w), failed |-> err[w]]
<1>5. Results' = Results \cup {res} /\ res.failed = err[w] /\ res.trx = Cur(w)
  BY ResultsSent
<1> HIDE DEF res
<1>6. ASSUME NEW t, NEW e \in BOOLEAN PROVE t \in Decided(e)' <=> t \in Decided(e)
  <2>1. (\E r \in Results' : r.failed = e /\ r.trx = t)
          <=> (\E r \in Results : r.failed = e /\ r.trx = t) \/ (err[w] = e /\ Cur(w) = t)
    BY <1>5
  <2>2. (\E v \in Worker : pc[v] = "send" /\ err[v] = e /\ Cur(v) = t)
          <=> \/ err[w] = e /\ Cur(w) = t
              \/ \E v \in Worker : pc'[v] = "send" /\ err'[v] = e /\ Cur(v)' = t
    BY <1>1, <1>2
  <2> QED
    BY <2>1, <2>2, DecidedAt, DecidedAtNext
<1>7. Undecided' = Undecided
  BY <1>4
<1>8. Decided(FALSE)' = Decided(FALSE) /\ Decided(TRUE)' = Decided(TRUE)
  BY <1>6
<1> QED
  BY <1>7, <1>8

LEMMA WorkerRegisters ==
  ASSUME PoolInv, DryRunStays, AllReasons, ClosedAfterAll, [Next]_vars,
         NEW w \in Worker, WorkerStep(w)
  PROVE  [Registering!Next]_Registering!vars
<1>0. ~closed
  BY DEF WorkerStep, NextTrx, GetUserConfig, LoadClient, LoadOrStoreClient, GetAccounts,
         StartCategories, TakeAnswer, Decide, CreateCategory, CacheDelete, MapAccount,
         CreateEntry, Send, ClosedAfterAll, AllDone
<1>1. UNCHANGED <<closed, ctxDone, dryRun>>
  BY DEF WorkerStep, NextTrx, GetUserConfig, LoadClient, LoadOrStoreClient, GetAccounts,
         StartCategories, TakeAnswer, Decide, CreateCategory, CacheDelete, MapAccount,
         CreateEntry, Send, chan, run
<1>2. ~Ranged /\ ~Ranged' /\ Ranged' = Ranged
  BY <1>0, <1>1 DEF Ranged
<1>3. CASE Send(w)
  <2>1. UNCHANGED entries
    BY <1>3 DEF Send, ledger
  <2> QED
    BY <1>1, <1>2, <1>3, <2>1, SendingShows DEF Registering!vars
<1>4. CASE ~Send(w)
  <2>1. Results' = Results
    BY <1>4 DEF WorkerStep, NextTrx, GetUserConfig, LoadClient, LoadOrStoreClient, GetAccounts,
                StartCategories, TakeAnswer, Decide, CreateCategory, CacheDelete, MapAccount,
                CreateEntry, chan, Results
  <2>2. CASE Keeps(w) /\ UNCHANGED entries
    BY <1>1, <1>2, <2>1, <2>2, KeepingShows DEF Registering!vars
  <2>7. CASE Leaves(w) /\ UNCHANGED entries
    <3>1. Undecided' \subseteq Undecided /\ UNCHANGED <<Decided(FALSE), Decided(TRUE)>> /\ ctxDone
      BY <2>1, <2>7, LeavingShows DEF Leaves
    <3> DEFINE left == Undecided \ Undecided'
    <3>2. left \in SUBSET Undecided /\ Undecided' = Undecided \ left
      BY <3>1
    <3> HIDE DEF left
    <3>3. Registering!Abandon(left)
      BY <1>1, <1>2, <2>7, <3>1, <3>2 DEF Registering!Abandon
    <3> QED
      BY <3>2, <3>3 DEF Registering!Next
  <2>3. CASE Decides(w, FALSE) /\ (IF dryRun THEN UNCHANGED entries ELSE AddEntry(w))
    <3>1. /\ Cur(w) \in Undecided /\ Cur(w) \in Trx /\ Undecided' = Undecided \ {Cur(w)}
          /\ Decided(FALSE)' = Decided(FALSE) \cup {Cur(w)} /\ Decided(TRUE)' = Decided(TRUE)
      BY <2>1, <2>3, DecisionShows
    <3>2. IF dryRun THEN UNCHANGED entries ELSE Registering!AddEntry(Cur(w))
      BY <2>3, <3>1 DEF AddEntry, Registering!AddEntry
    <3>3. Registering!RegisterOk(Cur(w))
      BY <1>1, <1>2, <3>1, <3>2 DEF Registering!RegisterOk
    <3> QED
      BY <1>2, <3>1, <3>3 DEF Registering!Next
  <2>4. ASSUME Decides(w, TRUE)
        PROVE  /\ Cur(w) \in Undecided /\ Cur(w) \in Trx /\ Undecided' = Undecided \ {Cur(w)}
               /\ Decided(TRUE)' = Decided(TRUE) \cup {Cur(w)} /\ Decided(FALSE)' = Decided(FALSE)
    BY <2>1, <2>4, DecisionShows
  <2>5. CASE Decides(w, TRUE) /\ (MayFail \/ ctxDone) /\ UNCHANGED entries
    <3>1. Registering!RegisterFail(Cur(w))
      BY <1>1, <1>2, <2>4, <2>5 DEF Registering!RegisterFail
    <3> QED
      BY <1>2, <2>4, <2>5, <3>1 DEF Registering!Next
  <2>6. CASE Decides(w, TRUE) /\ Fault("lostAck") /\ ~dryRun /\ AddEntry(w)
    <3>1. Registering!AddEntry(Cur(w))
      BY <2>4, <2>6 DEF AddEntry, Registering!AddEntry
    <3>2. Registering!RegisterLostAck(Cur(w))
      BY <1>1, <1>2, <2>4, <2>6, <3>1 DEF Registering!RegisterLostAck
    <3> QED
      BY <1>2, <2>4, <2>6, <3>2 DEF Registering!Next
  <2> QED
    BY <1>4, <2>2, <2>3, <2>5, <2>6, <2>7, OwnDecisions
<1> QED
  BY <1>3, <1>4

LEMMA RegistrationStep ==
  ASSUME PoolInv, DryRunStays, AllReasons, ClosedAfterAll, [Next]_vars
  PROVE  [Registering!Next]_Registering!vars
(* Every step that is not a worker's leaves what is decided and what is not. *)
<1>0. ASSUME UNCHANGED worker, Results' = Results
      PROVE  UNCHANGED <<Undecided, Decided(FALSE), Decided(TRUE)>>
  BY <1>0 DEF worker, Undecided, Ahead, Decided, Cur
<1>1. ASSUME AllDone PROVE Undecided = {}
  <2>1. ASSUME NEW t PROVE t \notin Undecided
    BY <1>1, UndecidedAt DEF AllDone, Ahead
  <2> QED
    BY <2>1
<1>2. ASSUME UNCHANGED <<worker, entries, run>>, Results' = Results, AllDone, Ranged'
      PROVE  Registering!RegisterDone
  <2>1. /\ UNCHANGED <<Undecided, Decided(FALSE), Decided(TRUE), entries, dryRun, ctxDone>>
        /\ Undecided = {}
    BY <1>0, <1>1, <1>2 DEF run
  <2> HIDE DEF run
  <2>2. Ranged' = TRUE
    BY <1>2 DEF Ranged
  <2> QED
    BY <1>2, <2>1, <2>2 DEF Registering!RegisterDone
<1>3. ASSUME UNCHANGED <<worker, entries, run, Ranged>>, Results' = Results
      PROVE  UNCHANGED Registering!vars
  BY <1>0, <1>3 DEF Registering!vars, run
<1>4. CASE \E w \in Worker : WorkerStep(w)
  BY <1>4, WorkerRegisters
<1>5. ASSUME NEW w \in Worker, OpStep(w) PROVE [Registering!Next]_Registering!vars
  <2>1. Keeps(w) /\ UNCHANGED <<chan, run, entries>>
    BY <1>5 DEF OpStep, CacheGet, FetchCategories, CacheSet, worker, ledger, Keeps, Ahead
  <2>2. Results' = Results /\ Ranged' = Ranged /\ UNCHANGED <<dryRun, ctxDone>>
    BY <2>1 DEF chan, run, Results, Ranged
  <2> QED
    BY <1>5, <2>1, <2>2, KeepingShows DEF Registering!vars
<1>6. CASE Close
  <2>1. UNCHANGED <<worker, entries, run>> /\ Results' = Results /\ AllDone /\ ~Ranged
    BY <1>6 DEF Close, ledger, Results, Ranged
  <2>2. CASE Ranged'
    BY <1>2, <2>1, <2>2 DEF Registering!Next
  <2>3. CASE ~Ranged'
    BY <1>3, <2>1, <2>3 DEF Ranged
  <2> QED
    BY <2>2, <2>3
<1>7. CASE Receive
  <2>1. UNCHANGED <<worker, entries, run>> /\ Results' = Results /\ ~Ranged
    BY <1>7, ResultsReceived DEF Receive, ToTheEnd, ledger, Ranged
  <2>2. CASE Ranged'
    <3>1. AllDone
      BY <1>7, <2>2 DEF Ranged, Receive, ClosedAfterAll
    <3> QED
      BY <1>2, <2>1, <2>2, <3>1 DEF Registering!Next
  <2>3. CASE ~Ranged'
    BY <1>3, <2>1, <2>3 DEF Ranged
  <2> QED
    BY <2>2, <2>3
<1>8. CASE Cancel
  <2>1. /\ UNCHANGED <<worker, entries, dryRun>> /\ ctxDone' = TRUE
        /\ Results' = Results /\ Ranged' = Ranged
    BY <1>8 DEF Cancel, ledger, chan, Results, Ranged
  <2>2. Registering!Cancel
    BY <1>0, <2>1 DEF Registering!Cancel
  <2> QED
    BY <2>2 DEF Registering!Next
<1>9. CASE Expire \/ UNCHANGED vars
  <2>1. UNCHANGED <<worker, entries, run>> /\ Results' = Results /\ Ranged' = Ranged
    BY <1>9 DEF Expire, vars, worker, ledger, chan, Results, Ranged
  <2> QED
    BY <1>3, <2>1
<1> QED
  BY <1>4, <1>5, <1>6, <1>7, <1>8, <1>9 DEF Next, Finished

LEMMA RegistrationInit == Init => Registering!Init
<1> SUFFICES ASSUME Init PROVE Registering!Init
  OBVIOUS
<1>1. Results = {} /\ ~Ranged
  BY DEF Init, Results, Ranged
<1>2. \A w \in Worker : \A i \in 1..Len(Bucket[w]) : Ahead(w, i)
  BY DEF Init, Ahead
<1>3. ASSUME NEW t PROVE t \in Undecided <=> t \in Trx
  BY <1>2, UndecidedAt, Dealt
<1>4. Undecided = Trx
  BY <1>3
<1>5. Decided(FALSE) = {} /\ Decided(TRUE) = {}
  BY <1>1 DEF Init, Decided
<1>6. Ranged = FALSE
  BY DEF Init, Ranged
<1> QED
  BY <1>1, <1>4, <1>5, <1>6 DEF Init, Registering!Init

(* The pool is what MailSync takes it for, for any number of workers, users *)
(* and transactions and under every fault: to the lists of Run and to the   *)
(* ledger's entries each transaction is decided in one step, and only the   *)
(* end of the context leaves any undecided.                                 *)
THEOREM PoolImplementsRegistration == Spec => RegistrationSpec
<1>1. Init => AllReasons
  BY DEF Init, AllReasons, Reasons
<1>2. PoolInv /\ CategoryInv /\ AllReasons /\ ClosedAfterAll /\ [Next]_vars =>
        [Registering!Next]_Registering!vars
  BY RegistrationStep DEF CategoryInv
<1> QED
  BY <1>1, <1>2, RegistrationInit, ReasonsNext, PoolAlways, CategoryAlways, ClosedAlways, PTL
  DEF Spec, RegistrationSpec, Registering!Spec
=============================================================================
