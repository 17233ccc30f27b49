------------------------- MODULE UserReports_proofs -------------------------
(***************************************************************************)
(* Proofs about the users of a run: one view of their configurations, the  *)
(* reports that go to their owners, and the size of a report, for any      *)
(* users, transactions, pages and faults.                                  *)
(***************************************************************************)
EXTENDS UserReports, SequenceTheorems, TLAPS

-----------------------------------------------------------------------------
(* Type correctness. *)

Config == [email : Email, version : Nat \ {None}]
Result == [trx : Worker, cfg : Config]

CacheTypeOK ==
  /\ table \in [Email -> Nat]
  /\ once \in {"new", "scan", "fill", "done", "failed"} /\ page \in Nat \ {0}
  /\ items \subseteq [email : Email, cfg : Nat \ {None}]
  /\ cache \in [Email -> Nat] /\ expires \in BOOLEAN
  /\ hasDeadline \in BOOLEAN /\ passed \in BOOLEAN

LookupTypeOK ==
  /\ pc \in [Worker -> Returned \cup {"ask"}] /\ at \in [Worker -> Nat \ {0}]
  /\ userCfg \in [Worker -> Config \cup {NoConfig}]

ResultTypeOK == settled \subseteq Worker /\ registries \in [Email -> Seq(Result)]

UsersTypeOK == CacheTypeOK /\ LookupTypeOK /\ ResultTypeOK

(* A configuration that was found is not the one that stands for none. *)
LEMMA ConfigIsSome ==
  ASSUME NEW c \in Config
  PROVE  c # NoConfig /\ c.email \in Email /\ c.version \in Nat /\ c.version # None
         /\ c = [email |-> c.email, version |-> c.version]
<1>1. PICK e \in Email, v \in Nat \ {None} : c = [email |-> e, version |-> v]
  BY DEF Config
<1>2. c.email = e /\ c.version = v
  BY <1>1
<1>3. c.version # NoConfig.version
  BY <1>2 DEF NoConfig
<1> QED
  BY <1>1, <1>2, <1>3

LEMMA SomeVersion ==
  ASSUME NEW e, NEW v, v # None
  PROVE  [email |-> e, version |-> v] # NoConfig
<1>1. [email |-> e, version |-> v].version = v
  OBVIOUS
<1>2. NoConfig.version = None
  BY DEF NoConfig
<1> QED
  BY <1>1, <1>2

LEMMA CandidatesType ==
  ASSUME NEW w \in Worker
  PROVE  /\ Candidates[w] \in Seq(Email) /\ Len(Candidates[w]) \in Nat
         /\ \A i \in 1..Len(Candidates[w]) : Candidates[w][i] \in Email
<1>1. Candidates \in Seq(Seq(Email)) /\ w \in DOMAIN Candidates
  BY UserConfigAssumption DEF Worker
<1>2. Candidates[w] \in Seq(Email)
  BY <1>1
<1> QED
  BY <1>2

LEMMA GetType == ASSUME CacheTypeOK, NEW e \in Email PROVE Get(e) \in Nat
BY DEF CacheTypeOK, Get, None

LEMMA CacheTypeNext ==
  ASSUME CacheTypeOK,
         SaveElsewhere \/ Deadline \/ Preload \/ UNCHANGED <<table, preload, clock>>
  PROVE  CacheTypeOK'
<1> USE DEF CacheTypeOK
<1>1. CASE SaveElsewhere
  <2>1. PICK e \in Email : table' = [table EXCEPT ![e] = @ + 1]
    BY <1>1 DEF SaveElsewhere
  <2> QED
    BY <1>1, <2>1 DEF SaveElsewhere, preload, clock
<1>2. CASE Deadline
  BY <1>2 DEF Deadline, preload
<1>3. CASE EnterOnce \/ ScanFails \/ ScanDone \/ LeaveOnce
  BY <1>3 DEF EnterOnce, ScanFails, ScanDone, LeaveOnce, clock
<1>4. CASE ScanPage
  <2>1. Pages[page] \subseteq Email
    BY <1>4, UserConfigAssumption DEF ScanPage
  <2>2. OnPage(page) \subseteq [email : Email, cfg : Nat \ {None}]
    BY <2>1 DEF OnPage
  <2> QED
    BY <1>4, <2>2 DEF ScanPage, NextPage, clock
<1>5. CASE CacheItem
  BY <1>5 DEF CacheItem, clock
<1>6. CASE UNCHANGED <<table, preload, clock>>
  BY <1>6 DEF preload, clock
<1> QED
  BY <1>1, <1>2, <1>3, <1>4, <1>5, <1>6 DEF Preload

LEMMA LookupTypeNext ==
  ASSUME CacheTypeOK, LookupTypeOK,
         (\E w \in Worker : Lookup(w)) \/ UNCHANGED lookups
  PROVE  LookupTypeOK'
<1> USE DEF LookupTypeOK
<1>1. ASSUME NEW w \in Worker, Ask(w) PROVE LookupTypeOK'
  <2> DEFINE e == Candidates[w][at[w]]
  <2>1. e \in Email
    BY <1>1, CandidatesType DEF Ask
  <2>2. Get(e) \in Nat
    BY <2>1, GetType
  <2>3. Get(e) # None => [email |-> e, version |-> Get(e)] \in Config
    BY <2>1, <2>2 DEF Config
  <2>4. at' \in [Worker -> Nat \ {0}]
    BY <1>1 DEF Ask
  <2>5. pc' \in [Worker -> Returned \cup {"ask"}]
    BY <1>1 DEF Ask, Returned
  <2>6. userCfg' \in [Worker -> Config \cup {NoConfig}]
    <3>1. userCfg' = userCfg \/ (/\ Get(e) # None
                                /\ userCfg' = [userCfg EXCEPT ![w] = [email |-> e, version |-> Get(e)]])
      BY <1>1 DEF Ask
    <3> QED
      BY <2>3, <3>1
  <2> QED
    BY <2>4, <2>5, <2>6
<1>2. ASSUME NEW w \in Worker, Return(w) PROVE LookupTypeOK'
  BY <1>2 DEF Return, Returned
<1>3. CASE UNCHANGED lookups
  BY <1>3 DEF lookups
<1> QED
  BY <1>1, <1>2, <1>3 DEF Lookup

(* What a step does to the results: nothing, or one more of one user. *)
LEMMA SucceedAppends ==
  ASSUME LookupTypeOK, ResultTypeOK, NEW w \in Worker, Succeed(w)
  PROVE  LET e == userCfg[w].email
             r == [trx |-> w, cfg |-> userCfg[w]]
         IN  /\ userCfg[w] \in Config => e \in Email /\ r \in Result
             /\ registries' = [registries EXCEPT ![e] = Append(@, r)]
             /\ settled' = settled \cup {w} /\ w \notin settled
BY ConfigIsSome DEF LookupTypeOK, ResultTypeOK, Succeed, Owner, Result

-----------------------------------------------------------------------------
(* One view of the users. *)

(* What a lookup has kept so far: the last recipient with a configuration   *)
(* in the cache, or none.                                                   *)
Kept(w) ==
  \/ /\ userCfg[w] = NoConfig
     /\ \A i \in 1..(at[w] - 1) : cache[Candidates[w][i]] = None
  \/ \E j \in 1..(at[w] - 1) :
       /\ cache[Candidates[w][j]] # None
       /\ userCfg[w] = [email |-> Candidates[w][j], version |-> cache[Candidates[w][j]]]
       /\ \A i \in (j + 1)..(at[w] - 1) : cache[Candidates[w][i]] = None

LookupInv(w) ==
  /\ at[w] \in 1..(Len(Candidates[w]) + 1)
  /\ at[w] > 1 => OnceLeft
  /\ pc[w] # "error" => Kept(w)
  /\ pc[w] \in {"found", "notFound"} =>
        /\ at[w] = Len(Candidates[w]) + 1
        /\ pc[w] = "notFound" <=> userCfg[w] = NoConfig

(* The cache is never written again once the Once is left. *)
LEMMA OnceIsOver ==
  ASSUME OnceLeft, SaveElsewhere \/ Deadline \/ Preload \/ UNCHANGED preload
  PROVE  UNCHANGED <<once, cache, expires>>
BY DEF OnceLeft, SaveElsewhere, Deadline, Preload, EnterOnce, ScanPage, ScanFails, ScanDone,
   CacheItem, LeaveOnce, preload

(* While the others act, a lookup keeps what it has. *)
LEMMA LookupFrame ==
  ASSUME LookupTypeOK, NEW w \in Worker, LookupInv(w),
         SaveElsewhere \/ Deadline \/ Preload \/ UNCHANGED preload,
         pc'[w] = pc[w], at'[w] = at[w], userCfg'[w] = userCfg[w]
  PROVE  LookupInv(w)'
<1>1. CASE at[w] = 1
  BY <1>1 DEF LookupInv, Kept
<1>2. CASE at[w] # 1
  <2>1. at[w] > 1
    BY <1>2, CandidatesType DEF LookupInv
  <2>2. OnceLeft /\ UNCHANGED <<once, cache>>
    BY <2>1, OnceIsOver DEF LookupInv
  <2> QED
    BY <2>2 DEF LookupInv, Kept, OnceLeft
<1> QED
  BY <1>1, <1>2

LEMMA LookupNext ==
  ASSUME CacheTypeOK, LookupTypeOK, NEW w \in Worker, LookupInv(w), Lookup(w)
  PROVE  LookupInv(w)'
<1>1. at[w] \in 1..(Len(Candidates[w]) + 1) /\ Len(Candidates[w]) \in Nat
  BY CandidatesType DEF LookupInv
<1>2. CASE Ask(w)
  <2> DEFINE e == Candidates[w][at[w]]
  <2>1. /\ pc[w] = "ask" /\ at[w] <= Len(Candidates[w]) /\ OnceLeft
        /\ at'[w] = at[w] + 1 /\ UNCHANGED preload
        /\ e \in Email
    BY <1>1, <1>2, CandidatesType DEF Ask, LookupTypeOK
  <2>2. Kept(w)
    BY <2>1 DEF LookupInv
  <2>3. UNCHANGED <<once, cache>>
    BY <2>1 DEF preload
  <2>4. CASE Get(e) # None
    <3>1. /\ pc' = pc /\ userCfg'[w] = [email |-> e, version |-> cache[e]]
          /\ cache[e] # None
      BY <1>2, <2>4 DEF Ask, Get, LookupTypeOK
    <3>2. Kept(w)'
      <4>1. at[w] \in 1..(at'[w] - 1) /\ \A i \in (at[w] + 1)..(at'[w] - 1) : FALSE
        BY <1>1, <2>1
      <4> QED
        BY <2>3, <3>1, <4>1 DEF Kept
    <3> QED
      BY <1>1, <2>1, <2>3, <3>1, <3>2 DEF LookupInv, OnceLeft
  <2>5. CASE Get(e) = None /\ ~passed
    <3>1. pc' = pc /\ userCfg' = userCfg /\ cache[e] = None
      BY <1>2, <2>5 DEF Ask, Get
    <3>2. \A i \in 1..(at'[w] - 1) : i \in 1..(at[w] - 1) \/ i = at[w]
      BY <1>1, <2>1
    <3>3. Kept(w)'
      <4>1. CASE /\ userCfg[w] = NoConfig
                 /\ \A i \in 1..(at[w] - 1) : cache[Candidates[w][i]] = None
        BY <2>3, <3>1, <3>2, <4>1 DEF Kept
      <4>2. ASSUME NEW j \in 1..(at[w] - 1),
                   cache[Candidates[w][j]] # None,
                   userCfg[w] = [email |-> Candidates[w][j], version |-> cache[Candidates[w][j]]],
                   \A i \in (j + 1)..(at[w] - 1) : cache[Candidates[w][i]] = None
            PROVE  Kept(w)'
        <5>1. j \in 1..(at'[w] - 1)
          BY <1>1, <2>1
        <5>2. \A i \in (j + 1)..(at'[w] - 1) : i \in (j + 1)..(at[w] - 1) \/ i = at[w]
          BY <1>1, <2>1
        <5> QED
          BY <2>3, <3>1, <4>2, <5>1, <5>2 DEF Kept
      <4> QED
        BY <2>2, <4>1, <4>2 DEF Kept
    <3> QED
      BY <1>1, <2>1, <2>3, <3>1, <3>3 DEF LookupInv, OnceLeft
  <2>6. CASE Get(e) = None /\ passed
    <3>1. pc'[w] = "error"
      BY <1>2, <2>6 DEF Ask, LookupTypeOK
    <3> QED
      BY <1>1, <2>1, <2>3, <3>1 DEF LookupInv, OnceLeft
  <2> QED
    BY <2>4, <2>5, <2>6
<1>3. CASE Return(w)
  <2>1. /\ pc[w] = "ask" /\ at[w] > Len(Candidates[w]) /\ UNCHANGED <<at, userCfg, preload>>
        /\ pc'[w] = IF userCfg[w] = NoConfig THEN "notFound" ELSE "found"
    BY <1>3 DEF Return, LookupTypeOK
  <2>2. UNCHANGED <<once, cache>>
    BY <2>1 DEF preload
  <2> QED
    BY <1>1, <2>1, <2>2 DEF LookupInv, Kept, OnceLeft
<1> QED
  BY <1>2, <1>3 DEF Lookup

(* What the steps leave alone, for every kind of step of a run. *)
LEMMA StepKinds ==
  ASSUME [ReportNext]_allVars
  PROVE  \/ (SaveElsewhere \/ Deadline \/ Preload) /\ UNCHANGED <<lookups, results>>
         \/ (\E w \in Worker : Lookup(w)) /\ UNCHANGED <<table, preload, clock, results>>
         \/ \E w \in Worker : Succeed(w) /\ UNCHANGED <<table, preload, clock, lookups>>
         \/ (\E w \in Worker : Fail(w)) /\ UNCHANGED <<table, preload, clock, lookups>>
         \/ (\E e \in Email : Report(e)) /\ UNCHANGED <<table, preload, clock, lookups>>
         \/ UNCHANGED <<table, preload, clock, lookups, results>>
<1>1. SaveElsewhere \/ Deadline \/ Preload => UNCHANGED lookups
  BY DEF SaveElsewhere, Deadline, Preload, EnterOnce, ScanPage, ScanFails, ScanDone, CacheItem,
     LeaveOnce
<1>2. \A w \in Worker : Lookup(w) => UNCHANGED <<table, preload, clock>>
  BY DEF Lookup, Ask, Return
<1>3. /\ \A w \in Worker : Succeed(w) \/ Fail(w) => UNCHANGED vars
      /\ \A e \in Email : Report(e) => UNCHANGED vars
  BY DEF Succeed, Fail, Report
<1>4. UNCHANGED vars => UNCHANGED <<table, preload, clock, lookups>>
  BY DEF vars
<1> QED
  BY <1>1, <1>2, <1>3, <1>4 DEF ReportNext, Over, allVars

(* Every lookup of the run, step by step. *)
LookupsInv == CacheTypeOK /\ LookupTypeOK /\ \A w \in Worker : LookupInv(w)

LEMMA LookupsInit == ReportInit => LookupsInv
<1> SUFFICES ASSUME ReportInit PROVE LookupsInv
  OBVIOUS
<1> USE DEF ReportInit, Init
<1>1. CacheTypeOK
  <2>1. table \in [Email -> Nat] /\ cache \in [Email -> Nat]
    BY DEF None
  <2>2. hasDeadline \in BOOLEAN /\ passed \in BOOLEAN /\ expires \in BOOLEAN
    BY UserConfigAssumption
  <2> QED
    BY <2>1, <2>2 DEF CacheTypeOK
<1>2. LookupTypeOK
  BY DEF LookupTypeOK
<1>3. \A w \in Worker : LookupInv(w)
  BY CandidatesType DEF LookupInv, Kept
<1> QED
  BY <1>1, <1>2, <1>3 DEF LookupsInv

LEMMA LookupsNext == LookupsInv /\ [ReportNext]_allVars => LookupsInv'
<1> SUFFICES ASSUME LookupsInv, [ReportNext]_allVars PROVE LookupsInv'
  OBVIOUS
<1> USE DEF LookupsInv
<1>1. CacheTypeOK' /\ LookupTypeOK'
  BY StepKinds, CacheTypeNext, LookupTypeNext
<1>2. ASSUME NEW w \in Worker PROVE LookupInv(w)'
  <2>1. CASE Lookup(w)
    BY <2>1, LookupNext
  <2>2. CASE UNCHANGED lookups /\ (SaveElsewhere \/ Deadline \/ Preload \/ UNCHANGED preload)
    BY <2>2, LookupFrame DEF lookups
  <2>3. ASSUME NEW v \in Worker, v # w, Lookup(v) PROVE LookupInv(w)'
    <3>1. pc'[w] = pc[w] /\ at'[w] = at[w] /\ userCfg'[w] = userCfg[w] /\ UNCHANGED preload
      BY <2>3 DEF Lookup, Ask, Return, LookupTypeOK
    <3> QED
      BY <3>1, LookupFrame
  <2> QED
    BY <2>1, <2>2, <2>3, StepKinds
<1> QED
  BY <1>1, <1>2

LEMMA KeptAgree ==
  ASSUME LookupsInv, NEW v \in Worker, NEW w \in Worker,
         Candidates[v] = Candidates[w], {pc[v], pc[w]} \subseteq {"found", "notFound"}
  PROVE  pc[v] = pc[w] /\ userCfg[v] = userCfg[w]
<1>1. /\ LookupInv(v) /\ LookupInv(w) /\ at[v] = at[w] /\ Kept(v) /\ Kept(w)
      /\ at[v] \in Nat \ {0}
  BY DEF LookupsInv, LookupInv, LookupTypeOK
<1>2. userCfg[v] = userCfg[w]
  <2>1. CASE userCfg[v] = NoConfig /\ \A i \in 1..(at[v] - 1) : cache[Candidates[v][i]] = None
    BY <1>1, <2>1 DEF Kept
  <2>2. ASSUME NEW j \in 1..(at[v] - 1),
               cache[Candidates[v][j]] # None,
               userCfg[v] = [email |-> Candidates[v][j], version |-> cache[Candidates[v][j]]],
               \A i \in (j + 1)..(at[v] - 1) : cache[Candidates[v][i]] = None
        PROVE  userCfg[v] = userCfg[w]
    <3>1. PICK k \in 1..(at[w] - 1) :
            /\ cache[Candidates[w][k]] # None
            /\ userCfg[w] = [email |-> Candidates[w][k], version |-> cache[Candidates[w][k]]]
            /\ \A i \in (k + 1)..(at[w] - 1) : cache[Candidates[w][i]] = None
      BY <1>1, <2>2 DEF Kept
    <3>2. ~(j < k) /\ ~(k < j)
      BY <1>1, <2>2, <3>1
    <3>3. j = k
      BY <1>1, <3>2
    <3> QED
      BY <2>2, <3>1, <3>3
  <2> QED
    BY <1>1, <2>1, <2>2 DEF Kept
<1> QED
  BY <1>1, <1>2 DEF LookupInv

(* Two transactions with the same recipients go to the same configuration,  *)
(* whatever is saved meanwhile, however the preload ends and whenever the   *)
(* cached items expire.                                                     *)
THEOREM OneViewOfTheUsers == ReportSpec => []LookupsAgree
<1>1. LookupsInv => LookupsAgree
  BY KeptAgree DEF LookupsAgree
<1> QED
  BY <1>1, LookupsInit, LookupsNext, PTL DEF ReportSpec

-----------------------------------------------------------------------------
(* Who is registered is found. *)

(* A user of a page that was scanned is in the cache or on the way there. *)
ScanInv ==
  /\ \A e \in Registered : table[e] # None
  /\ page \in 1..(Len(Pages) + 1)
  /\ once # "failed" =>
        \A p \in 1..(page - 1) : \A e \in Registered \cap Pages[p] :
           cache[e] # None \/ \E item \in items : item.email = e
  /\ once \in {"fill", "done"} => page = Len(Pages) + 1
  /\ once = "done" => items = {}

LEMMA ScanNext ==
  ASSUME CacheTypeOK, ScanInv, [ReportNext]_allVars
  PROVE  ScanInv'
<1> USE DEF ScanInv
<1>0. Len(Pages) \in Nat /\ Registered \subseteq Email /\ page \in Nat
  BY UserConfigAssumption DEF CacheTypeOK
<1>1. CASE SaveElsewhere
  <2>1. PICK e \in Email : table' = [table EXCEPT ![e] = @ + 1] /\ UNCHANGED preload
    BY <1>1 DEF SaveElsewhere
  <2>2. \A f \in Registered : table'[f] # None
    BY <1>0, <2>1 DEF CacheTypeOK, None
  <2> QED
    BY <2>1, <2>2 DEF preload
<1>2. CASE EnterOnce \/ ScanFails \/ Deadline
  BY <1>2 DEF EnterOnce, ScanFails, Deadline, preload
<1>3. CASE ScanPage
  <2>1. /\ once = "scan" /\ page <= Len(Pages) /\ page' = page + 1
        /\ UNCHANGED <<table, once, cache>>
        /\ items' = items \cup OnPage(page)
    BY <1>3 DEF ScanPage, NextPage
  <2>2. \A e \in Registered \cap Pages[page] : [email |-> e, cfg |-> table[e]] \in OnPage(page)
    BY DEF OnPage
  <2>3. ASSUME NEW p \in 1..(page' - 1), NEW e \in Registered \cap Pages[p]
        PROVE  cache[e] # None \/ \E item \in items' : item.email = e
    <3>1. CASE p = page
      <4> DEFINE item == [email |-> e, cfg |-> table[e]]
      <4>1. item \in items' /\ item.email = e
        BY <2>1, <2>2, <3>1
      <4> QED
        BY <4>1
    <3>2. CASE p # page
      <4>1. p \in 1..(page - 1)
        BY <1>0, <2>1, <3>2
      <4> QED
        BY <2>1, <4>1
    <3> QED
      BY <3>1, <3>2
  <2> QED
    BY <1>0, <2>1, <2>3
<1>4. CASE ScanDone
  BY <1>0, <1>4 DEF ScanDone
<1>5. CASE CacheItem
  <2>1. PICK item \in items :
          \/ /\ cache' = [cache EXCEPT ![item.email] = item.cfg]
             /\ items' = items \ {item} /\ UNCHANGED <<once, table, page>>
          \/ once' = "failed" /\ UNCHANGED <<table, page>>
    BY <1>5 DEF CacheItem
  <2>2. item.email \in Email /\ item.cfg # None
    BY DEF CacheTypeOK, None
  <2>3. CASE /\ cache' = [cache EXCEPT ![item.email] = item.cfg]
             /\ items' = items \ {item} /\ UNCHANGED <<once, table, page>>
    <3>1. once = "fill"
      BY <1>5 DEF CacheItem
    <3>2. \A e \in Email : e = item.email => cache'[e] # None
      BY <2>2, <2>3 DEF CacheTypeOK
    <3>3. \A e \in Email : e # item.email => cache'[e] = cache[e]
      BY <2>2, <2>3 DEF CacheTypeOK
    <3> QED
      BY <1>0, <2>3, <3>1, <3>2, <3>3
  <2>4. CASE once' = "failed" /\ UNCHANGED <<table, page>>
    BY <2>4
  <2> QED
    BY <2>1, <2>3, <2>4
<1>6. CASE LeaveOnce
  BY <1>6 DEF LeaveOnce
<1>7. CASE UNCHANGED <<table, preload>>
  BY <1>7 DEF preload
<1> QED
  BY <1>1, <1>2, <1>3, <1>4, <1>5, <1>6, <1>7, StepKinds DEF Preload

(* A mail to a registered user finds no configuration only if the preload   *)
(* failed, whatever the deadline does to the cached items.                  *)
THEOREM RegisteredIsAlwaysFound == ReportSpec => []RegisteredIsFound
<1>1. ReportInit => ScanInv
  <2> SUFFICES ASSUME ReportInit PROVE ScanInv
    OBVIOUS
  <2>1. Len(Pages) \in Nat /\ page = 1 /\ 1..(page - 1) = {}
    BY UserConfigAssumption DEF ReportInit, Init
  <2>2. once = "new" /\ \A e \in Registered : table[e] = 1
    BY UserConfigAssumption DEF ReportInit, Init
  <2> QED
    BY <2>1, <2>2 DEF ScanInv, None
<1>2. LookupsInv /\ ScanInv => RegisteredIsFound
  <2> SUFFICES ASSUME LookupsInv, ScanInv, NEW w \in Worker, pc[w] = "notFound",
                      NEW e \in Addressed(w) \cap Registered
               PROVE  once = "failed"
    BY DEF RegisteredIsFound
  <2>1. PICK i \in DOMAIN Candidates[w] : e = Candidates[w][i]
    BY DEF Addressed
  <2>2. i \in 1..Len(Candidates[w]) /\ Len(Candidates[w]) \in Nat
    BY CandidatesType
  <2>3. LookupInv(w) /\ at[w] = Len(Candidates[w]) + 1 /\ userCfg[w] = NoConfig /\ Kept(w)
    BY DEF LookupsInv, LookupInv
  <2>4. OnceLeft
    BY <2>2, <2>3 DEF LookupInv
  <2>5. cache[e] = None
    <3>1. \A j \in 1..(at[w] - 1) : cache[Candidates[w][j]] # None
            => userCfg[w] # [email |-> Candidates[w][j], version |-> cache[Candidates[w][j]]]
      BY <2>3, SomeVersion
    <3>2. \A j \in 1..(at[w] - 1) : cache[Candidates[w][j]] = None
      BY <2>3, <3>1 DEF Kept
    <3> QED
      BY <2>1, <2>2, <2>3, <3>2
  <2>6. ASSUME once = "done" PROVE FALSE
    <3>1. PICK p \in DOMAIN Pages : e \in Pages[p]
      BY UserConfigAssumption
    <3>2. p \in 1..(page - 1)
      BY <2>6, <3>1, UserConfigAssumption DEF ScanInv
    <3> QED
      BY <2>5, <2>6, <3>1, <3>2 DEF ScanInv
  <2> QED
    BY <2>4, <2>6 DEF OnceLeft
<1>3. LookupsInv => CacheTypeOK
  BY DEF LookupsInv
<1> QED
  BY <1>1, <1>2, <1>3, LookupsInit, LookupsNext, ScanNext, PTL DEF ReportSpec

-----------------------------------------------------------------------------
(* Every report goes to its owner. *)

(* The results of a user were registered under the one configuration the    *)
(* cache has for that user.                                                 *)
GroupedRight ==
  \A e \in Email : \A i \in DOMAIN registries[e] :
     OnceLeft /\ registries[e][i].cfg = [email |-> e, version |-> cache[e]]

ReportRight(r) ==
  /\ settled = Worker /\ r.user \in Email /\ registries[r.user] # <<>>
  /\ r.to = [email |-> r.user, version |-> cache[r.user]]
  /\ r.trxs = {registries[r.user][i].trx : i \in DOMAIN registries[r.user]}

OwnersInv == LookupsInv /\ ResultTypeOK /\ GroupedRight /\ \A r \in reports : ReportRight(r)

(* What a worker found is what the cache has, for good. *)
LEMMA FoundIsCached ==
  ASSUME LookupsInv, NEW w \in Worker, pc[w] = "found"
  PROVE  /\ userCfg[w] \in Config /\ userCfg[w].email \in Email /\ OnceLeft
         /\ userCfg[w] = [email |-> userCfg[w].email, version |-> cache[userCfg[w].email]]
<1>1. LookupInv(w) /\ Kept(w) /\ userCfg[w] # NoConfig /\ userCfg[w] \in Config
  BY DEF LookupsInv, LookupInv, LookupTypeOK
<1>2. PICK j \in 1..(at[w] - 1) :
        userCfg[w] = [email |-> Candidates[w][j], version |-> cache[Candidates[w][j]]]
  BY <1>1 DEF Kept
<1>3. at[w] > 1
  BY <1>2 DEF LookupsInv, LookupTypeOK
<1>4. userCfg[w].email = Candidates[w][j]
  BY <1>2
<1> QED
  BY <1>1, <1>2, <1>3, <1>4, ConfigIsSome DEF LookupInv

(* A sequence that is not empty has a first element. *)
LEMMA HasFirst ==
  ASSUME NEW e \in Email, registries \in [Email -> Seq(Result)], registries[e] # <<>>
  PROVE  1 \in DOMAIN registries[e]
<1>1. registries[e] \in Seq(Result) /\ Len(registries[e]) \in Nat
  OBVIOUS
<1>2. Len(registries[e]) # 0
  BY <1>1, EmptySeq
<1> QED
  BY <1>1, <1>2

LEMMA AppendedResult ==
  ASSUME NEW s \in Seq(Result), NEW r \in Result
  PROVE  /\ Append(s, r) \in Seq(Result)
         /\ DOMAIN Append(s, r) = DOMAIN s \cup {Len(s) + 1}
         /\ \A i \in DOMAIN s : Append(s, r)[i] = s[i]
         /\ Append(s, r)[Len(s) + 1] = r
<1>1. Len(s) \in Nat /\ DOMAIN s = 1..Len(s)
  OBVIOUS
<1> QED
  BY <1>1, AppendProperties

LEMMA OwnersNext == OwnersInv /\ [ReportNext]_allVars => OwnersInv'
<1> SUFFICES ASSUME OwnersInv, [ReportNext]_allVars
             PROVE  ResultTypeOK' /\ GroupedRight' /\ \A r \in reports' : ReportRight(r)'
  BY LookupsNext DEF OwnersInv
<1> USE DEF OwnersInv
<1>1. \A e \in Email : \A i \in DOMAIN registries[e] : UNCHANGED <<once, cache>>
  BY StepKinds, OnceIsOver DEF GroupedRight, preload
<1>2. \A r \in reports : \E i \in DOMAIN registries[r.user] : r.user \in Email
  BY HasFirst DEF ReportRight, ResultTypeOK
<1>3. CASE UNCHANGED results
  <2>1. ResultTypeOK'
    BY <1>3 DEF results, ResultTypeOK
  <2>2. GroupedRight'
    BY <1>1, <1>3 DEF results, GroupedRight, OnceLeft
  <2>3. \A r \in reports' : ReportRight(r)'
    BY <1>1, <1>2, <1>3 DEF results, ReportRight
  <2> QED
    BY <2>1, <2>2, <2>3
<1>4. ASSUME NEW w \in Worker, Succeed(w), UNCHANGED preload
      PROVE  ResultTypeOK' /\ GroupedRight' /\ \A r \in reports' : ReportRight(r)'
  <2>1. pc[w] = "found" /\ userCfg[w].email \in Email
        /\ [trx |-> w, cfg |-> userCfg[w]] \in Result
    BY <1>4, FoundIsCached DEF Succeed, Result
  <2>2. PICK e \in Email, x \in Result :
          e = userCfg[w].email /\ x = [trx |-> w, cfg |-> userCfg[w]]
    BY <2>1
  <2>3. /\ pc[w] = "found" /\ w \notin settled /\ settled' = settled \cup {w} /\ reports' = reports
        /\ registries' = [registries EXCEPT ![e] = Append(@, x)]
        /\ UNCHANGED <<once, cache>>
    BY <1>4, <2>2 DEF Succeed, Owner, preload
  <2>4. /\ e \in Email /\ OnceLeft /\ x \in Result
        /\ x.cfg = [email |-> e, version |-> cache[e]]
    BY <2>1, <2>2, FoundIsCached
  <2>5. registries[e] \in Seq(Result) /\ registries \in [Email -> Seq(Result)]
    BY <2>4 DEF ResultTypeOK
  <2>6. /\ registries'[e] = Append(registries[e], x)
        /\ \A f \in Email : f # e => registries'[f] = registries[f]
    BY <2>3, <2>4, <2>5
  <2>7. ResultTypeOK'
    BY <2>3, <2>4, <2>5, AppendedResult DEF ResultTypeOK
  <2>8. GroupedRight'
    <3> SUFFICES ASSUME NEW f \in Email, NEW i \in DOMAIN registries'[f]
                 PROVE  registries'[f][i].cfg = [email |-> f, version |-> cache[f]]
      BY <2>3, <2>4 DEF GroupedRight, OnceLeft
    <3>1. CASE f # e
      BY <2>6, <3>1 DEF GroupedRight
    <3>2. CASE f = e
      <4>1. i \in DOMAIN registries[e] \/ i = Len(registries[e]) + 1
        BY <2>4, <2>5, <2>6, <3>2, AppendedResult
      <4>2. CASE i \in DOMAIN registries[e]
        <5>1. registries'[e][i] = registries[e][i]
          BY <2>4, <2>5, <2>6, <4>2, AppendedResult
        <5> QED
          BY <2>4, <3>2, <4>2, <5>1 DEF GroupedRight
      <4>3. CASE i = Len(registries[e]) + 1
        BY <2>4, <2>5, <2>6, <3>2, <4>3, AppendedResult
      <4> QED
        BY <4>1, <4>2, <4>3
    <3> QED
      BY <3>1, <3>2
  <2>9. reports = {}
    BY <2>3 DEF ReportRight
  <2> QED
    BY <2>3, <2>7, <2>8, <2>9
<1>5. ASSUME NEW w \in Worker, Fail(w), UNCHANGED preload
      PROVE  ResultTypeOK' /\ GroupedRight' /\ \A r \in reports' : ReportRight(r)'
  <2>1. w \notin settled /\ settled' = settled \cup {w} /\ UNCHANGED <<registries, reports, once, cache>>
    BY <1>5 DEF Fail, preload
  <2>2. reports = {}
    BY <2>1 DEF ReportRight
  <2> QED
    BY <2>1, <2>2 DEF ResultTypeOK, GroupedRight, OnceLeft
<1>6. ASSUME NEW e \in Email, Report(e), UNCHANGED preload
      PROVE  ResultTypeOK' /\ GroupedRight' /\ \A r \in reports' : ReportRight(r)'
  <2>1. /\ settled = Worker /\ registries[e] # <<>> /\ UNCHANGED <<settled, registries, once, cache>>
    BY <1>6 DEF Report, Owners, preload
  <2>2. PICK outcome \in Outcomes(registries[e]) :
          reports' = reports \cup
             {[user |-> e, to |-> registries[e][1].cfg,
               trxs |-> {registries[e][i].trx : i \in DOMAIN registries[e]},
               shown |-> {registries[e][i].trx : i \in 1..Shown(Len(registries[e]))},
               outcome |-> outcome]}
    BY <1>6 DEF Report
  <2>3. 1 \in DOMAIN registries[e]
    BY <2>1, HasFirst DEF ResultTypeOK
  <2>4. registries[e][1].cfg = [email |-> e, version |-> cache[e]]
    BY <2>3 DEF GroupedRight
  <2>5. ASSUME NEW r \in reports' PROVE ReportRight(r)
    <3>1. CASE r \in reports
      BY <3>1
    <3>2. CASE r \notin reports
      <4>1. /\ r.user = e /\ r.to = registries[e][1].cfg
            /\ r.trxs = {registries[e][i].trx : i \in DOMAIN registries[e]}
        BY <2>2, <3>2
      <4> QED
        BY <2>1, <2>4, <4>1 DEF ReportRight
    <3> QED
      BY <3>1, <3>2
  <2> QED
    BY <2>1, <2>5 DEF ResultTypeOK, GroupedRight, ReportRight, OnceLeft
<1> QED
  BY <1>3, <1>4, <1>5, <1>6, StepKinds

(* Every reachable state of a run's users and reports is well typed. *)
THEOREM UsersTypeCorrect == ReportSpec => []UsersTypeOK
<1>1. ReportInit => OwnersInv
  BY LookupsInit DEF ReportInit, OwnersInv, ResultTypeOK, GroupedRight
<1>2. OwnersInv => UsersTypeOK
  BY DEF OwnersInv, LookupsInv, UsersTypeOK
<1> QED
  BY <1>1, <1>2, OwnersNext, PTL DEF ReportSpec

(* A report tells one user of all the transactions registered under the     *)
(* configuration it is sent to, and of no others, whichever worker came     *)
(* first.                                                                   *)
THEOREM ReportsGoToOwners == ReportSpec => []ReportIsTheOwners
<1>1. ReportInit => OwnersInv
  BY LookupsInit DEF ReportInit, OwnersInv, ResultTypeOK, GroupedRight
<1>2. OwnersInv => ReportIsTheOwners
  <2> SUFFICES ASSUME OwnersInv, NEW r \in reports
               PROVE  r.trxs = {x.trx : x \in {y \in Registries : y.cfg = r.to}}
    BY DEF ReportIsTheOwners
  <2>1. /\ r.user \in Email /\ r.to = [email |-> r.user, version |-> cache[r.user]]
        /\ r.trxs = {registries[r.user][i].trx : i \in DOMAIN registries[r.user]}
    BY DEF OwnersInv, ReportRight
  <2>2. ASSUME NEW y \in Registries, y.cfg = r.to
        PROVE  \E i \in DOMAIN registries[r.user] : y = registries[r.user][i]
    <3>1. PICK e \in Email : \E i \in DOMAIN registries[e] : y = registries[e][i]
      BY DEF Registries
    <3>2. PICK i \in DOMAIN registries[e] : y = registries[e][i]
      BY <3>1
    <3>3. y.cfg = [email |-> e, version |-> cache[e]]
      BY <3>2 DEF OwnersInv, GroupedRight
    <3>4. y.cfg.email = e /\ r.to.email = r.user
      BY <2>1, <3>3
    <3> QED
      BY <2>2, <3>2, <3>4
  <2>3. \A i \in DOMAIN registries[r.user] :
          registries[r.user][i] \in Registries /\ registries[r.user][i].cfg = r.to
    BY <2>1 DEF OwnersInv, GroupedRight, Registries
  <2> QED
    BY <2>1, <2>2, <2>3
<1> QED
  BY <1>1, <1>2, OwnersNext, PTL DEF ReportSpec

-----------------------------------------------------------------------------
(* The size of a report. *)

(* Amounts of at most thirteen digits, and the limit that Twilio recommends *)
(* or a higher one: a report of two plain descriptions has 152 bytes then.  *)
FitsInstance == Limit >= 153 /\ \A w \in Worker : TextOf[w].digits <= 13

(* A plain line is 37 bytes and the amount at most. *)
LEMMA PlainEntrySize ==
  ASSUME FitsInstance, NEW w \in Worker, Plain(TextOf[w])
  PROVE  EntrySize(TextOf[w]) \in 0..50
<1>1. TextOf[w] \in [runes : Nat, width : Nat, digits : Nat] /\ TextOf[w].digits <= 13
  BY ReportAssumption DEF FitsInstance
<1>2. Least(20, TextOf[w].runes) \in 0..20
  BY <1>1 DEF Least
<1>3. TextOf[w].width * Least(20, TextOf[w].runes) = Least(20, TextOf[w].runes)
  BY <1>2 DEF Plain
<1> QED
  BY <1>1, <1>2, <1>3 DEF EntrySize

LEMMA ShownIsOneOrTwo == \A n \in Nat \ {0} : Shown(n) \in 1..2
BY DEF Shown, Least

(* The results of a user of whom only plain descriptions are shown. *)
LinesFit(rs) ==
  /\ rs \in Seq(Result) /\ rs # <<>>
  /\ \A i \in 1..Shown(Len(rs)) : EntrySize(TextOf[rs[i].trx]) \in 0..50

(* The lines shown are the one there is, or two. *)
LEMMA SizeOfLines ==
  ASSUME NEW rs, LinesFit(rs)
  PROVE  Size(rs) \in 0..152
<1> DEFINE n == Len(rs)
           k == Shown(n)
           line(i) == EntrySize(TextOf[rs[i].trx])
           Is(f) == f = [i \in 0..k |-> IF i = 0 THEN HeaderSize(n) ELSE f[i - 1] + line(i)]
           lines == CHOOSE f : Is(f)
           rest == IF n > k THEN RestSize(n - k) ELSE 0
<1>1. n \in Nat \ {0} /\ k \in 1..2
  <2>1. Len(rs) \in Nat \ {0}
    BY EmptySeq DEF LinesFit
  <2> QED
    BY <2>1, ShownIsOneOrTwo
<1>2. HeaderSize(n) \in 0..36 /\ rest \in 0..16
  BY <1>1 DEF HeaderSize, RestSize, Digits
<1>3. line(1) \in 0..50 /\ (k = 2 => line(2) \in 0..50)
  BY <1>1 DEF LinesFit
<1>4. Size(rs) = lines[k] + rest
  BY DEF Size
<1> HIDE DEF n, k, line, rest
<1>5. Is([i \in 0..k |-> IF i = 0 THEN HeaderSize(n)
                         ELSE IF i = 1 THEN HeaderSize(n) + line(1)
                         ELSE HeaderSize(n) + line(1) + line(2)])
  BY <1>1
<1>6. Is(lines)
  <2> HIDE DEF Is
  <2> QED
    BY <1>5
<1>7. lines[0] = HeaderSize(n) /\ lines[1] = lines[0] + line(1)
  <2> HIDE DEF lines
  <2> QED
    BY <1>1, <1>6
<1>8. k = 2 => lines[2] = lines[1] + line(2)
  <2> HIDE DEF lines
  <2> QED
    BY <1>1, <1>6
<1> HIDE DEF lines, Is
<1>9. HeaderSize(n) \in 0..36 /\ rest \in 0..16 /\ k \in 1..2 /\ line(1) \in 0..50
  BY <1>1, <1>2, <1>3
<1>10. k = 2 => line(2) \in 0..50 /\ lines[2] = lines[1] + line(2)
  BY <1>3, <1>8
<1>11. lines[1] \in 0..86
  BY <1>7, <1>9
<1>12. k = 2 => lines[2] \in 0..136
  BY <1>10, <1>11
<1>13. lines[k] + rest \in 0..152
  BY <1>9, <1>11, <1>12
<1> QED
  BY <1>4, <1>13

(* As long as the descriptions it shows are plain, Twilio's limit refuses   *)
(* no report, however many transactions it counts.                          *)
THEOREM PlainReportsFit == FitsInstance => (ReportSpec => []PlainReportFits)
<1> SUFFICES ASSUME FitsInstance PROVE ReportSpec => []PlainReportFits
  OBVIOUS
<1>1. ReportInit => OwnersInv /\ PlainReportFits
  BY LookupsInit DEF ReportInit, OwnersInv, ResultTypeOK, GroupedRight, PlainReportFits
<1>2. OwnersInv /\ PlainReportFits /\ [ReportNext]_allVars => PlainReportFits'
  <2> SUFFICES ASSUME OwnersInv, PlainReportFits, [ReportNext]_allVars PROVE PlainReportFits'
    OBVIOUS
  <2>1. CASE reports' = reports
    BY <2>1 DEF PlainReportFits
  <2>2. ASSUME NEW e \in Email, Report(e) PROVE PlainReportFits'
    <3>1. registries[e] \in Seq(Result) /\ registries[e] # <<>>
      BY <2>2 DEF OwnersInv, ResultTypeOK, Report, Owners
    <3> DEFINE rs == registries[e]
               shown == {rs[i].trx : i \in 1..Shown(Len(rs))}
    <3>2. PICK outcome \in Outcomes(rs) :
            reports' = reports \cup
               {[user |-> e, to |-> rs[1].cfg, trxs |-> {rs[i].trx : i \in DOMAIN rs},
                 shown |-> shown, outcome |-> outcome]}
      BY <2>2 DEF Report
    <3>3. ASSUME outcome = "tooLong", \A t \in shown : Plain(TextOf[t]) PROVE FALSE
      <4>1. Size(rs) > Limit
        BY <3>3 DEF Outcomes
      <4>2. \A i \in 1..Shown(Len(rs)) : i \in DOMAIN rs /\ rs[i] \in Result
        <5>1. Len(rs) \in Nat /\ DOMAIN rs = 1..Len(rs)
          BY <3>1
        <5>2. \A i \in 1..Shown(Len(rs)) : i \in 1..Len(rs)
          BY <5>1 DEF Shown, Least
        <5> QED
          BY <3>1, <5>1, <5>2
      <4>3. LinesFit(rs)
        BY <3>1, <3>3, <4>2, PlainEntrySize DEF Result, LinesFit
      <4>4. Size(rs) \in 0..152
        BY <3>1, <4>3, SizeOfLines
      <4>5. Limit \in Nat /\ Limit >= 153
        BY ReportAssumption DEF FitsInstance
      <4> QED
        BY <4>1, <4>4, <4>5
    <3>4. \A r \in reports' : r \in reports \/ (r.outcome = outcome /\ r.shown = shown)
      BY <3>2
    <3> HIDE DEF shown, rs
    <3> QED
      BY <3>3, <3>4 DEF PlainReportFits
  <2> QED
    BY <2>1, <2>2, StepKinds DEF results, Succeed, Fail
<1> QED
  BY <1>1, <1>2, OwnersNext, PTL DEF ReportSpec
=============================================================================
