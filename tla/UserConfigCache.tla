--------------------------- MODULE UserConfigCache ---------------------------
(***************************************************************************)
(* The user configurations of a run: DynamoDBService of userconfigserv and *)
(* getUserConfigFromCandidates (internal/sync/accounting.go).  The first   *)
(* lookup of the run scans the whole table into a cache behind a sync.Once *)
(* while the other workers wait at it; every lookup after that asks the    *)
(* cache and nothing else.  The table belongs to others and may change     *)
(* under the scan.  The run that the lookups belong to is UserReports.     *)
(***************************************************************************)
EXTENDS Integers, Sequences

CONSTANTS
  Email,
  Registered,   \* users that are in the table when the run starts
  Pages,        \* the pages of a Scan: which users each may list
  Candidates,   \* per worker: the recipients of its transaction
  MaxVersion,   \* bound: how often a user is changed while the scan runs
  Deadlines,    \* whether the run's context may have a deadline
  Faults

Kinds == {"scan", "malformed", "twilio"}

Worker == DOMAIN Candidates

ASSUME UserConfigAssumption ==
  /\ Registered \subseteq Email /\ Pages \in Seq(SUBSET Email)
  /\ \A e \in Registered : \E p \in DOMAIN Pages : e \in Pages[p]
  /\ Candidates \in Seq(Seq(Email))
  /\ MaxVersion \in Nat /\ Deadlines \subseteq BOOLEAN /\ Faults \subseteq Kinds

VARIABLES
  table,    \* what DynamoDB has: the version of a user's config, 0 if none
  once,     \* the sync.Once and the preload inside it
  page,
  items,    \* what the scan has brought, not cached yet
  cache,    \* the version cached for a user, 0 if none
            \* (a version stands for the token, the number and the mappings)
  expires,  \* the cached items expire at the deadline
  hasDeadline, passed,
  pc, at, userCfg

preload == <<once, page, items, cache, expires>>
clock   == <<hasDeadline, passed>>
lookups == <<pc, at, userCfg>>
vars    == <<table, preload, clock, lookups>>

None == 0
NoConfig == [email |-> "", version |-> None]

Fault(k) == k \in Faults

Init ==
  /\ table = [e \in Email |-> IF e \in Registered THEN 1 ELSE None]
  /\ once = "new" /\ page = 1 /\ items = {}
  /\ cache = [e \in Email |-> None] /\ expires = FALSE
  /\ hasDeadline \in Deadlines /\ passed = FALSE
  /\ pc = [w \in Worker |-> "ask"] /\ at = [w \in Worker |-> 1]
  /\ userCfg = [w \in Worker |-> NoConfig]

-----------------------------------------------------------------------------
(* The outside world.  What is saved after the scan no lookup can see. *)

SaveElsewhere ==
  /\ once \in {"new", "scan"}
  /\ \E e \in Email : table[e] < MaxVersion /\ table' = [table EXCEPT ![e] = @ + 1]
  /\ UNCHANGED <<preload, clock, lookups>>

Deadline ==
  /\ hasDeadline /\ ~passed
  /\ passed' = TRUE
  /\ UNCHANGED <<table, preload, hasDeadline, lookups>>

-----------------------------------------------------------------------------
(* The preload. *)

EnterOnce ==
  /\ once = "new" /\ \E w \in Worker : pc[w] = "ask"
  /\ once' = "scan"
  /\ UNCHANGED <<table, page, items, cache, expires, clock, lookups>>

OnPage(p) == {[email |-> e, cfg |-> table[e]] : e \in {f \in Pages[p] : table[f] # None}}

(* Mutant: one page is taken for the table. *)
NoNextPage == Len(Pages) + 1
NextPage == page + 1

ScanPage ==
  /\ once = "scan" /\ page <= Len(Pages)
  /\ items' = items \cup OnPage(page) /\ page' = NextPage
  /\ UNCHANGED <<table, once, cache, expires, clock, lookups>>

(* The error of the preload goes nowhere: the Once is done, nothing cached. *)
ScanFails ==
  /\ once = "scan" /\ page <= Len(Pages)
  /\ Fault("scan") \/ passed
  /\ once' = "failed"
  /\ UNCHANGED <<table, page, items, cache, expires, clock, lookups>>

(* The lifetime left is computed once.  If none is left it is negative, *)
(* which go-cache takes for an item that never expires.                 *)
ScanDone ==
  /\ once = "scan" /\ page > Len(Pages)
  /\ expires' = (hasDeadline /\ ~passed)
  /\ once' = "fill"
  /\ UNCHANGED <<table, page, items, cache, clock, lookups>>

(* The items come in whatever order DynamoDB keeps them.  One that cannot *)
(* be decoded ends the preload; what is cached stays.                     *)
CacheItem ==
  /\ once = "fill"
  /\ \E item \in items :
       \/ /\ cache' = [cache EXCEPT ![item.email] = item.cfg]
          /\ items' = items \ {item}
          /\ UNCHANGED once
       \/ /\ Fault("malformed")
          /\ once' = "failed"
          /\ UNCHANGED <<cache, items>>
  /\ UNCHANGED <<table, page, expires, clock, lookups>>

LeaveOnce ==
  /\ once = "fill" /\ items = {}
  /\ once' = "done"
  /\ UNCHANGED <<table, page, items, cache, expires, clock, lookups>>

-----------------------------------------------------------------------------
(* The lookups. *)

Get(e) == IF expires /\ passed THEN None ELSE cache[e]

(* Mutant: a worker that finds the preload under way does not wait for it. *)
OnceEntered == once # "new"
OnceLeft == once \in {"done", "failed"}

(* One round of the loop over the recipients: the last one found is kept; *)
(* not to find one ends the lookup only if the context is done.           *)
Ask(w) ==
  LET e == Candidates[w][at[w]]
  IN  /\ pc[w] = "ask" /\ at[w] <= Len(Candidates[w]) /\ OnceLeft
      /\ \/ /\ Get(e) # None
            /\ userCfg' = [userCfg EXCEPT ![w] = [email |-> e, version |-> Get(e)]]
            /\ UNCHANGED pc
         \/ Get(e) = None /\ ~passed /\ UNCHANGED <<userCfg, pc>>
         \/ Get(e) = None /\ passed /\ pc' = [pc EXCEPT ![w] = "error"] /\ UNCHANGED userCfg
      /\ at' = [at EXCEPT ![w] = @ + 1]
      /\ UNCHANGED <<table, preload, clock>>

Return(w) ==
  /\ pc[w] = "ask" /\ at[w] > Len(Candidates[w])
  /\ pc' = [pc EXCEPT ![w] = IF userCfg[w] = NoConfig THEN "notFound" ELSE "found"]
  /\ UNCHANGED <<table, preload, clock, at, userCfg>>

-----------------------------------------------------------------------------
Returned == {"found", "notFound", "error"}

Preload == EnterOnce \/ ScanPage \/ ScanFails \/ ScanDone \/ CacheItem \/ LeaveOnce

Lookup(w) == Ask(w) \/ Return(w)

-----------------------------------------------------------------------------
(* Properties. *)

Addressed(w) == {Candidates[w][i] : i \in DOMAIN Candidates[w]}

(* One run, one view of the users: two transactions with the same           *)
(* recipients go to the same configuration, or to none, whatever is saved   *)
(* meanwhile and however far the preload got.  Otherwise two mails of one   *)
(* user could be entered in two ledgers, or in different accounts.          *)
LookupsAgree ==
  \A v, w \in Worker :
    /\ Candidates[v] = Candidates[w]
    /\ {pc[v], pc[w]} \subseteq {"found", "notFound"}
    => pc[v] = pc[w] /\ userCfg[v] = userCfg[w]

(* A mail to a registered user is refused for want of a configuration only  *)
(* when the preload failed: there is no second try in the run, every such   *)
(* mail becomes a failed one, and the stored date is held back for it.      *)
RegisteredIsFound ==
  \A w \in Worker :
    pc[w] = "notFound" /\ Addressed(w) \cap Registered # {} => once = "failed"
=============================================================================
