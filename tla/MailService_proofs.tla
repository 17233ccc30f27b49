------------------------- MODULE MailService_proofs -------------------------
(***************************************************************************)
(* The mail service as Sync.Run uses it, for any mails, number of workers  *)
(* and faults: the check of the mailboxes and the fetch pool.              *)
(***************************************************************************)
EXTENDS MailService, Buckets_proofs, FiniteSetTheorems, SequenceTheorems

(* The check of the mailboxes: what the loop has gathered and what List has *)
(* yet to send are all the mailboxes there are.                             *)
ListInv ==
  /\ verdict = "looking" => mailboxes \cup unlisted = exists
  /\ verdict = "looking" /\ lister # "list" /\ ~listErr => unlisted = {}
  /\ verdict # "looking" => lister = "left"
  /\ VerdictIsTrue

LEMMA RequiredNames ==
  /\ DOMAIN List!Required = 1..3 /\ \A i \in 1..3 : List!Required[i] \in List!Name
  /\ List!Name \cap {"looking", "passed", "listError", "cancelled"} = {}
BY DEF List!Required, List!Name

(* The check passes only if nothing is missing, or names what is missing. *)
LEMMA CheckNames ==
  /\ List!Check = "passed" => List!Name \subseteq mailboxes
  /\ List!Check # "passed" => List!Check \in List!Name \ mailboxes
<1>1. CASE List!Missing = {}
  <2>1. List!Name \subseteq mailboxes
    BY <1>1, RequiredNames DEF List!Missing, List!Name
  <2> QED
    BY <1>1, <2>1 DEF List!Check
<1>2. CASE List!Missing # {}
  <2> DEFINE first == CHOOSE i \in List!Missing : \A j \in List!Missing : i <= j
  <2>1. List!Missing \subseteq 1..3
    BY RequiredNames DEF List!Missing
  <2>2. \E i \in List!Missing : \A j \in List!Missing : i <= j
    <3>1. \A i \in List!Missing : i = 1 \/ i = 2 \/ i = 3
      BY <2>1
    <3>2. CASE 1 \in List!Missing
      BY <3>1, <3>2
    <3>3. CASE 1 \notin List!Missing /\ 2 \in List!Missing
      BY <3>1, <3>3
    <3>4. CASE List!Missing = {3}
      BY <3>4
    <3> QED
      BY <1>2, <3>1, <3>2, <3>3, <3>4
  <2>3. first \in List!Missing
    BY <2>2
  <2> HIDE DEF first
  <2>4. List!Required[first] \in List!Name \ mailboxes
    BY <2>1, <2>3, RequiredNames DEF List!Missing
  <2>5. List!Check = List!Required[first]
    BY <1>2 DEF List!Check, first
  <2> QED
    BY <2>4, <2>5, RequiredNames
<1> QED
  BY <1>1, <1>2

LEMMA ListInit == ServiceInit => ListInv
BY RequiredNames DEF ServiceInit, List!Init, ListInv, VerdictIsTrue, List!VerdictIsTrue

LEMMA ListNext == ListInv /\ [ServiceNext]_serviceVars => ListInv'
<1> SUFFICES ASSUME ListInv, [ServiceNext]_serviceVars PROVE ListInv'
  OBVIOUS
<1> USE DEF ListInv, VerdictIsTrue, List!VerdictIsTrue
<1>1. CASE List!ListSends
  BY <1>1 DEF List!ListSends
<1>2. CASE List!ListEnds
  BY <1>2 DEF List!ListEnds
<1>3. CASE List!NoErrorSeen
  BY <1>3 DEF List!NoErrorSeen
<1>4. CASE List!ErrorSeen
  BY <1>4, RequiredNames DEF List!ErrorSeen, List!Return
<1>5. CASE List!ClosedSeen
  BY <1>5, CheckNames, RequiredNames DEF List!ClosedSeen, List!Return
<1>6. CASE List!DoneSeen
  BY <1>6, RequiredNames DEF List!DoneSeen, List!Return, List!ContextError
<1>7. CASE List!Expire
  BY <1>7 DEF List!Expire, List!goroutine
<1>8. CASE UNCHANGED listVars
  BY <1>8 DEF listVars
<1> QED
  BY <1>1, <1>2, <1>3, <1>4, <1>5, <1>6, <1>7, <1>8
  DEF ServiceNext, ListLoop, ListServer, RunExpires, Search, Fetch, Stopped, serviceVars,
      List!Loop, List!Server

(* mailSanityCheck passes only with all three mailboxes and blames only one *)
(* that is missing, unless List failed: also when it sees the closed list   *)
(* before the error, or the context before either.                          *)
THEOREM CheckTellsTheTruth == ServiceSpec => []VerdictIsTrue
<1>1. ListInv => VerdictIsTrue
  BY DEF ListInv
<1> QED
  BY <1>1, ListInit, ListNext, PTL DEF ServiceSpec

-----------------------------------------------------------------------------
(* The fetch pool.  The service moves it by its own steps, and by the end   *)
(* of the run's context.                                                    *)

Expires ==
  /\ slotDone' = TRUE
  /\ UNCHANGED <<source, watcher, middle, poolDone, bucketDone, chan>>

FetchMoves == Next \/ Expires \/ UNCHANGED vars

LEMMA ServiceMoves == [ServiceNext]_serviceVars => FetchMoves
BY DEF ServiceNext, ListLoop, ListServer, RunExpires, Search, Fetch, Stopped, serviceVars,
       fetchVars, FetchMoves, Expires

(* The steps of one bucket's goroutines. *)
LEMMA Moves ==
  FetchMoves <=> \/ \E w \in Worker : BucketStep(w)
                 \/ Close \/ CancelPool \/ Receive \/ SlotExpires \/ Finished
                 \/ Expires \/ UNCHANGED vars
BY DEF FetchMoves, Next, BucketStep

(* The buckets hold every mail at one place, and nothing else. *)
LEMMA MailsDealt ==
  /\ \A w \in Worker : Bucket[w] \in Seq(Nat) /\ Len(Bucket[w]) \in Nat
  /\ \A w, v \in Worker : \A i \in 1..Len(Bucket[w]), j \in 1..Len(Bucket[v]) :
       Bucket[w][i] = Bucket[v][j] => w = v /\ i = j
  /\ \A m \in Id : \E w \in Worker : \E i \in 1..Len(Bucket[w]) : Bucket[w][i] = m
  /\ \A w \in Worker : \A i \in 1..Len(Bucket[w]) : Bucket[w][i] \in Id
<1>1. Ids \in Seq(Id) /\ Ids \in Seq(Nat) /\ Cpus \in Nat \ {0} /\ NoRepeats(Ids)
  BY FetchAssumption DEF NoRepeats, Id
<1>2. Exact(Worker, Bucket, Ids, Id) /\ Exact(Worker, Bucket, Ids, Nat)
  BY <1>1, DealtExactly DEF Worker, Bucket
<1>3. \A m \in Id : \E k \in DOMAIN Ids : Ids[k] = m
  BY DEF Id
<1> QED
  BY <1>2, <1>3 DEF Exact

-----------------------------------------------------------------------------
(* Type correctness.                                                       *)

StateTypes ==
  /\ fetcher \in [Worker -> {"off", "fetch", "report", "gone"}]
  /\ fetchErr \in [Worker -> BOOLEAN]
  /\ watcher \in [Worker -> {"off", "watch", "gone"}]
  /\ reader \in [Worker -> {"off", "take", "offer", "gone"}]
  /\ pc \in [Worker -> {"open", "take", "send", "failed", "done"}]
  /\ slotDone \in BOOLEAN /\ poolDone \in BOOLEAN /\ closed \in BOOLEAN
  /\ bucketDone \in [Worker -> BOOLEAN]

MailTypes ==
  /\ left \in [Worker -> Seq(Nat)] /\ read \in [Worker -> Nat] /\ hand \in [Worker -> Nat]
  /\ out \in Seq(Nat) /\ got \in Seq(Nat)

FetchTypeOK == StateTypes /\ MailTypes

LEMMA FetchTypeInit == Init => FetchTypeOK
<1> SUFFICES ASSUME Init PROVE FetchTypeOK
  OBVIOUS
<1>1. StateTypes
  BY DEF Init, StateTypes
<1>2. left \in [Worker -> Seq(Nat)]
  <2>1. left = Bucket /\ DOMAIN Bucket = Worker
    BY DEF Init, Bucket, Split, Worker
  <2>2. Bucket = [w \in Worker |-> Bucket[w]]
    BY DEF Bucket, Split, Worker
  <2> QED
    BY <2>1, <2>2, MailsDealt
<1>3. out \in Seq(Nat) /\ got \in Seq(Nat)
  BY DEF Init
<1>4. read \in [Worker -> Nat] /\ hand \in [Worker -> Nat]
  BY DEF Init, Nothing
<1> QED
  BY <1>1, <1>2, <1>3, <1>4 DEF FetchTypeOK, MailTypes

LEMMA StateTypesNext == FetchTypeOK /\ FetchMoves => StateTypes'
<1> SUFFICES ASSUME FetchTypeOK, FetchMoves PROVE StateTypes'
  OBVIOUS
<1> USE DEF StateTypes, Set, source, middle, ctxs, chan
<1>0. StateTypes
  BY DEF FetchTypeOK
<1>1. ASSUME NEW w \in Worker, BucketStep(w) PROVE StateTypes'
  <2>1. CASE Open(w)
    BY <1>0, <2>1 DEF Open, AfterFailure
  <2>2. CASE FetchStep(w)
    BY <1>0, <2>2 DEF FetchStep, FetchEnds, ReaderTakes
  <2>3. CASE Report(w)
    <3>1. bucketDone' \in [Worker -> BOOLEAN]
      BY <1>0, <2>3 DEF Report
    <3> QED
      BY <1>0, <2>3, <3>1 DEF Report
  <2>4. CASE WatcherLeaves(w)
    BY <1>0, <2>4 DEF WatcherLeaves
  <2>5. CASE ReaderEnds(w)
    BY <1>0, <2>5 DEF ReaderEnds, MsgsClosed
  <2>6. CASE WorkerStep(w)
    BY <1>0, <2>6 DEF WorkerStep, WorkerTakes, WorkerSends, WorkerEnds
  <2> QED
    BY <1>1, <2>1, <2>2, <2>3, <2>4, <2>5, <2>6 DEF BucketStep, WatchStep
<1>2. CASE Close \/ CancelPool \/ Receive
  BY <1>0, <1>2 DEF Close, CancelPool, Receive
<1>3. CASE SlotExpires \/ Expires
  BY <1>0, <1>3 DEF SlotExpires, Expires
<1>4. CASE UNCHANGED vars
  BY <1>0, <1>4 DEF vars
<1> QED
  BY <1>1, <1>2, <1>3, <1>4, Moves DEF Finished

LEMMA MailTypesNext == FetchTypeOK /\ FetchMoves => MailTypes'
<1> SUFFICES ASSUME FetchTypeOK, FetchMoves PROVE MailTypes'
  OBVIOUS
<1> USE DEF MailTypes, Set
<1>0. MailTypes /\ StateTypes
  BY DEF FetchTypeOK
<1>1. ASSUME NEW w \in Worker, ReaderTakes(w) PROVE MailTypes'
  <2>1. Head(left[w]) \in Nat /\ Tail(left[w]) \in Seq(Nat)
    BY <1>0, <1>1, HeadTailProperties DEF ReaderTakes
  <2>2. left' \in [Worker -> Seq(Nat)]
    BY <1>0, <1>1, <2>1 DEF ReaderTakes
  <2>3. read' \in [Worker -> Nat]
    BY <1>0, <1>1, <2>1 DEF ReaderTakes
  <2> QED
    BY <1>0, <1>1, <2>2, <2>3 DEF ReaderTakes, chan
<1>2. ASSUME NEW w \in Worker, WorkerTakes(w) PROVE MailTypes'
  BY <1>0, <1>2 DEF WorkerTakes, source, chan
<1>3. ASSUME NEW w \in Worker, WorkerSends(w) PROVE MailTypes'
  <2>1. out' \in Seq(Nat)
    BY <1>0, <1>3, AppendProperties DEF WorkerSends
  <2> QED
    BY <1>0, <1>3, <2>1 DEF WorkerSends, source
<1>4. CASE Receive
  <2>1. out' \in Seq(Nat) /\ got' \in Seq(Nat)
    BY <1>0, <1>4, AppendProperties, HeadTailProperties DEF Receive
  <2> QED
    BY <1>0, <1>4, <2>1 DEF Receive, source, middle
<1>5. CASE UNCHANGED <<left, read, hand, out, got>>
  BY <1>0, <1>5
<1>6. ASSUME NEW w \in Worker, BucketStep(w)
      PROVE  \/ UNCHANGED <<left, read, hand, out, got>>
             \/ ReaderTakes(w) \/ WorkerTakes(w) \/ WorkerSends(w)
  BY <1>6 DEF BucketStep, Open, AfterFailure, FetchStep, FetchEnds, WatchStep, Report, WatcherLeaves,
              ReaderEnds, WorkerStep, WorkerEnds, source, middle, chan
<1>7. CASE Close \/ CancelPool \/ SlotExpires \/ Expires \/ UNCHANGED vars
  BY <1>5, <1>7 DEF Close, CancelPool, SlotExpires, Expires, vars, source, middle, chan
<1> QED
  BY <1>1, <1>2, <1>3, <1>4, <1>5, <1>6, <1>7, Moves DEF Finished

(* A bucket's own variables are written by its own goroutines. *)
LEMMA OtherBuckets ==
  ASSUME FetchTypeOK, NEW v \in Worker, NEW w \in Worker, w # v, BucketStep(w)
  PROVE  UNCHANGED <<fetcher[v], left[v], fetchErr[v], watcher[v], reader[v], read[v],
                     pc[v], hand[v], bucketDone[v]>>
<1> USE DEF FetchTypeOK, StateTypes, MailTypes, Set, source, middle, ctxs, chan
<1>1. CASE Open(w)
  BY <1>1 DEF Open, AfterFailure
<1>2. CASE FetchStep(w)
  BY <1>2 DEF FetchStep, FetchEnds, ReaderTakes
<1>3. CASE Report(w)
  BY <1>3 DEF Report, CancelledBy
<1>4. CASE WatcherLeaves(w) \/ ReaderEnds(w)
  BY <1>4 DEF WatcherLeaves, ReaderEnds
<1>5. CASE WorkerStep(w)
  BY <1>5 DEF WorkerStep, WorkerTakes, WorkerSends, WorkerEnds
<1> QED
  BY <1>1, <1>2, <1>3, <1>4, <1>5 DEF BucketStep, WatchStep

LEMMA OwnBucket ==
  ASSUME FetchTypeOK, FetchMoves, NEW v \in Worker
  PROVE  \/ BucketStep(v)
         \/ UNCHANGED <<fetcher[v], left[v], fetchErr[v], watcher[v], reader[v], read[v],
                        pc[v], hand[v], bucketDone[v]>>
<1>1. CASE Close \/ CancelPool \/ Receive \/ SlotExpires \/ Expires \/ UNCHANGED vars
  BY <1>1 DEF Close, CancelPool, Receive, SlotExpires, Expires, vars, source, middle, ctxs
<1> QED
  BY <1>1, OtherBuckets, Moves DEF Finished

THEOREM FetchTypeCorrect == ServiceSpec => []FetchTypeOK
<1>1. ServiceInit => FetchTypeOK
  BY FetchTypeInit DEF ServiceInit
<1>2. FetchTypeOK /\ [ServiceNext]_serviceVars => FetchTypeOK'
  BY ServiceMoves, StateTypesNext, MailTypesNext DEF FetchTypeOK
<1> QED
  BY <1>1, <1>2, PTL DEF ServiceSpec

-----------------------------------------------------------------------------
(* What has been sent: only a send adds to it, and Run's taking a mail from *)
(* the channel changes nothing.                                             *)

Elements(o, g) == {(o \o g)[i] : i \in DOMAIN (o \o g)}
EntriesOf(s)   == {s[i] : i \in 1..Len(s)}

LEMMA TwoParts ==
  ASSUME NEW o \in Seq(Nat), NEW g \in Seq(Nat)
  PROVE  Elements(o, g) = EntriesOf(o) \cup EntriesOf(g)
<1>1. /\ DOMAIN (o \o g) = 1..(Len(o) + Len(g)) /\ Len(o) \in Nat /\ Len(g) \in Nat
      /\ \A i \in 1..(Len(o) + Len(g)) :
           (o \o g)[i] = IF i <= Len(o) THEN o[i] ELSE g[i - Len(o)]
  OBVIOUS
<1>2. ASSUME NEW i \in 1..(Len(o) + Len(g)) PROVE (o \o g)[i] \in EntriesOf(o) \cup EntriesOf(g)
  <2>1. CASE i <= Len(o)
    BY <1>1, <2>1 DEF EntriesOf
  <2>2. CASE ~(i <= Len(o))
    <3>1. i - Len(o) \in 1..Len(g)
      BY <1>1, <2>2
    <3> QED
      BY <1>1, <2>2, <3>1 DEF EntriesOf
  <2> QED
    BY <2>1, <2>2
<1>3. ASSUME NEW i \in 1..Len(o) PROVE o[i] \in Elements(o, g)
  <2>1. i \in 1..(Len(o) + Len(g)) /\ i <= Len(o)
    BY <1>1
  <2> QED
    BY <1>1, <2>1 DEF Elements
<1>4. ASSUME NEW i \in 1..Len(g) PROVE g[i] \in Elements(o, g)
  <2> DEFINE k == Len(o) + i
  <2>1. k \in 1..(Len(o) + Len(g)) /\ ~(k <= Len(o)) /\ k - Len(o) = i
    BY <1>1
  <2> HIDE DEF k
  <2>2. (o \o g)[k] = g[i]
    BY <1>1, <2>1
  <2> QED
    BY <1>1, <2>1, <2>2 DEF Elements
<1> QED
  BY <1>1, <1>2, <1>3, <1>4 DEF Elements, EntriesOf

LEMMA AppendAdds ==
  ASSUME NEW s \in Seq(Nat), NEW x \in Nat
  PROVE  EntriesOf(Append(s, x)) = EntriesOf(s) \cup {x}
<1>1. /\ Len(Append(s, x)) = Len(s) + 1 /\ Len(s) \in Nat
      /\ Append(s, x)[Len(s) + 1] = x
      /\ \A i \in 1..Len(s) : Append(s, x)[i] = s[i]
  BY AppendProperties
<1>2. 1..(Len(s) + 1) = (1..Len(s)) \cup {Len(s) + 1}
  BY <1>1
<1> QED
  BY <1>1, <1>2 DEF EntriesOf

LEMMA HeadAndTail ==
  ASSUME NEW s \in Seq(Nat), s # <<>>
  PROVE  /\ Head(s) \in Nat /\ Tail(s) \in Seq(Nat) /\ Len(Tail(s)) = Len(s) - 1
         /\ EntriesOf(s) = EntriesOf(Tail(s)) \cup {Head(s)}
<1>1. /\ Head(s) \in Nat /\ Tail(s) \in Seq(Nat) /\ Len(Tail(s)) = Len(s) - 1
      /\ \A i \in 1..Len(Tail(s)) : Tail(s)[i] = s[i + 1]
      /\ Head(s) = s[1] /\ Len(s) \in Nat \ {0}
  BY HeadTailProperties
<1>2. ASSUME NEW i \in 1..Len(s) PROVE s[i] \in EntriesOf(Tail(s)) \cup {Head(s)}
  <2>1. CASE i = 1
    BY <1>1, <2>1
  <2>2. CASE i # 1
    <3> DEFINE j == i - 1
    <3>1. j \in 1..Len(Tail(s)) /\ j + 1 = i
      BY <1>1, <2>2
    <3> HIDE DEF j
    <3> QED
      BY <1>1, <3>1 DEF EntriesOf
  <2> QED
    BY <2>1, <2>2
<1>3. ASSUME NEW i \in 1..Len(Tail(s)) PROVE Tail(s)[i] \in EntriesOf(s)
  <2>1. i + 1 \in 1..Len(s)
    BY <1>1
  <2> QED
    BY <1>1, <2>1 DEF EntriesOf
<1>4. Head(s) \in EntriesOf(s)
  BY <1>1 DEF EntriesOf
<1> QED
  BY <1>1, <1>2, <1>3, <1>4 DEF EntriesOf

LEMMA SeenParts == FetchTypeOK => Seen = EntriesOf(out) \cup EntriesOf(got)
<1> SUFFICES ASSUME FetchTypeOK PROVE Seen = EntriesOf(out) \cup EntriesOf(got)
  OBVIOUS
<1>1. Seen = Elements(out, got)
  BY DEF Seen, Delivered, Elements
<1>2. out \in Seq(Nat) /\ got \in Seq(Nat)
  BY DEF FetchTypeOK, MailTypes
<1> QED
  BY <1>1, <1>2, TwoParts

LEMMA SeenBefore ==
  ASSUME FetchTypeOK, FetchTypeOK'
  PROVE  /\ Seen = EntriesOf(out) \cup EntriesOf(got)
         /\ Seen' = EntriesOf(out') \cup EntriesOf(got')
<1>1. Seen = EntriesOf(out) \cup EntriesOf(got)
  BY SeenParts
<1>2. (Seen = EntriesOf(out) \cup EntriesOf(got))'
  BY SeenParts, PTL
<1> QED
  BY <1>1, <1>2 DEF EntriesOf

LEMMA SendAdds ==
  ASSUME FetchTypeOK, FetchTypeOK', NEW w \in Worker, WorkerSends(w)
  PROVE  /\ Seen' = Seen \cup {hand[w]}
         /\ Len(out') + Len(got') = Len(out) + Len(got) + 1
<1>1. out \in Seq(Nat) /\ got \in Seq(Nat) /\ hand[w] \in Nat
  BY DEF FetchTypeOK, MailTypes
<1>2. out' = Append(out, hand[w]) /\ got' = got
  BY DEF WorkerSends
<1>3. EntriesOf(out') = EntriesOf(out) \cup {hand[w]} /\ Len(out') = Len(out) + 1
  BY <1>1, <1>2, AppendAdds, AppendProperties
<1> QED
  BY <1>1, <1>2, <1>3, SeenBefore

LEMMA ReceiveKeeps ==
  ASSUME FetchTypeOK, FetchTypeOK', Receive
  PROVE  Seen' = Seen /\ Len(out') + Len(got') = Len(out) + Len(got)
<1>1. out \in Seq(Nat) /\ got \in Seq(Nat)
  BY DEF FetchTypeOK, MailTypes
<1>2. out # <<>> /\ got' = Append(got, Head(out)) /\ out' = Tail(out)
  BY DEF Receive
<1>3. /\ Head(out) \in Nat /\ Len(out') = Len(out) - 1
      /\ EntriesOf(out) = EntriesOf(out') \cup {Head(out)}
  BY <1>1, <1>2, HeadAndTail
<1>4. EntriesOf(got') = EntriesOf(got) \cup {Head(out)} /\ Len(got') = Len(got) + 1
  BY <1>1, <1>2, <1>3, AppendAdds, AppendProperties
<1>5. Len(out) \in Nat /\ Len(got) \in Nat
  BY <1>1
<1>6. Len(out') + Len(got') = Len(out) + Len(got)
  BY <1>3, <1>4, <1>5
<1>7. EntriesOf(out') \cup EntriesOf(got') = EntriesOf(out) \cup EntriesOf(got)
  BY <1>3, <1>4
<1> QED
  BY <1>6, <1>7, SeenBefore

LEMMA SeenStep ==
  ASSUME FetchTypeOK, FetchTypeOK', FetchMoves
  PROVE  \/ Seen' = Seen /\ Len(out') + Len(got') = Len(out) + Len(got)
         \/ \E w \in Worker : WorkerSends(w)
<1>1. CASE UNCHANGED <<out, got>>
  BY <1>1 DEF Seen, Delivered
<1>2. ASSUME NEW w \in Worker, BucketStep(w) PROVE UNCHANGED <<out, got>> \/ WorkerSends(w)
  BY <1>2 DEF BucketStep, Open, AfterFailure, FetchStep, FetchEnds, ReaderTakes, WatchStep, Report,
              WatcherLeaves, ReaderEnds, WorkerStep, WorkerTakes, WorkerEnds, chan
<1>3. CASE Close \/ CancelPool \/ SlotExpires \/ Expires \/ UNCHANGED vars
  BY <1>1, <1>3 DEF Close, CancelPool, SlotExpires, Expires, vars, chan
<1> QED
  BY <1>1, <1>2, <1>3, ReceiveKeeps, Moves DEF Finished

-----------------------------------------------------------------------------
(* Where the mails of a bucket are: the Fetch still has the end of it, and  *)
(* what lies before that has gone to the reader.  Of that, the last one may *)
(* be on offer; all others have gone on to the worker.                      *)

Taken(w)  == Len(Bucket[w]) - Len(left[w])
Passed(w) == IF reader[w] = "offer" THEN Taken(w) - 1 ELSE Taken(w)

(* The mail in hand has not been sent, and nothing is sent that the worker  *)
(* has not been handed.                                                     *)
Placed(w) ==
  /\ Len(left[w]) <= Len(Bucket[w])
  /\ \A j \in 1..Len(left[w]) : left[w][j] = Bucket[w][Taken(w) + j]
  /\ reader[w] = "offer" => Taken(w) >= 1 /\ read[w] = Bucket[w][Taken(w)]
  /\ pc[w] = "send" => /\ \E j \in 1..Passed(w) : hand[w] = Bucket[w][j]
                       /\ hand[w] \notin Seen
  /\ \A i \in 1..Len(Bucket[w]) : Bucket[w][i] \in Seen => i <= Passed(w)

AllPlaced == \A w \in Worker : Placed(w)

Counted == IsFiniteSet(Seen) /\ Len(out) + Len(got) = Cardinality(Seen)

LEMMA SeenAtFirst == Init => Seen = {}
BY DEF Init, Seen, Delivered

LEMMA PlacedInit == Init => AllPlaced
<1> SUFFICES ASSUME Init, NEW w \in Worker PROVE Placed(w)
  BY DEF AllPlaced
<1>1. /\ left[w] = Bucket[w] /\ reader[w] = "off" /\ pc[w] = "open"
      /\ Bucket[w] \in Seq(Nat) /\ Len(Bucket[w]) \in Nat
  BY MailsDealt DEF Init
<1>2. Taken(w) = 0 /\ Passed(w) = 0
  BY <1>1 DEF Taken, Passed
<1>3. \A j \in 1..Len(left[w]) : Taken(w) + j = j
  BY <1>1, <1>2
<1> QED
  BY <1>1, <1>2, <1>3, SeenAtFirst DEF Placed

(* A mail in a worker's hand is one of its own bucket. *)
LEMMA HandIsOwn ==
  ASSUME AllPlaced, FetchTypeOK, NEW w \in Worker, pc[w] = "send"
  PROVE  \E j \in 1..Len(Bucket[w]) : j <= Passed(w) /\ hand[w] = Bucket[w][j]
<1>1. PICK j \in 1..Passed(w) : hand[w] = Bucket[w][j]
  BY DEF AllPlaced, Placed
<1>2. Len(left[w]) \in Nat /\ Len(Bucket[w]) \in Nat
  BY MailsDealt DEF FetchTypeOK, MailTypes
<1>3. Taken(w) \in Int /\ Taken(w) <= Len(Bucket[w])
  <2>1. \A a, b \in Nat : a - b \in Int /\ a - b <= a
    OBVIOUS
  <2> QED
    BY <1>2, <2>1, Zenon DEF Taken
<1>4. Passed(w) <= Len(Bucket[w]) /\ Passed(w) \in Int
  BY <1>2, <1>3 DEF Passed
<1> QED
  BY <1>1, <1>2, <1>4

(* The steps of the bucket itself. *)
LEMMA PlacedOwn ==
  ASSUME FetchTypeOK, FetchTypeOK', AllPlaced, NEW w \in Worker, BucketStep(w)
  PROVE  Placed(w)'
<1> USE DEF Set
<1>0. /\ Placed(w) /\ Len(left[w]) \in Nat /\ left[w] \in Seq(Nat)
      /\ Bucket[w] \in Seq(Nat) /\ Len(Bucket[w]) \in Nat
      /\ w \in DOMAIN left /\ w \in DOMAIN read /\ w \in DOMAIN reader /\ w \in DOMAIN pc
      /\ w \in DOMAIN hand
  BY MailsDealt DEF FetchTypeOK, MailTypes, StateTypes, AllPlaced
<1>1. ASSUME ReaderTakes(w) PROVE Placed(w)'
  <2>1. /\ reader[w] = "take" /\ left[w] # <<>> /\ read'[w] = Head(left[w])
        /\ left'[w] = Tail(left[w]) /\ reader'[w] = "offer"
        /\ pc'[w] = pc[w] /\ hand'[w] = hand[w] /\ out' = out /\ got' = got
    BY <1>0, <1>1 DEF ReaderTakes, chan
  <2>2. /\ Len(left'[w]) = Len(left[w]) - 1 /\ Len(left[w]) >= 1
        /\ Head(left[w]) = left[w][1]
        /\ \A j \in 1..Len(left'[w]) : left'[w][j] = left[w][j + 1]
    BY <1>0, <2>1, HeadTailProperties
  <2>3. Taken(w)' = Taken(w) + 1 /\ Passed(w)' = Passed(w) /\ Taken(w) \in Nat
        /\ Passed(w) = Taken(w)
    BY <1>0, <2>1, <2>2 DEF Taken, Passed, Placed
  <2>4. Seen' = Seen
    BY <2>1 DEF Seen, Delivered
  <2>5. read'[w] = Bucket[w][Taken(w) + 1]
    BY <1>0, <2>1, <2>2 DEF Placed
  <2>6. ASSUME NEW j \in 1..Len(left'[w]) PROVE left'[w][j] = Bucket[w][Taken(w) + 1 + j]
    <3>1. j + 1 \in 1..Len(left[w]) /\ Taken(w) + (j + 1) = Taken(w) + 1 + j
      BY <1>0, <2>2, <2>3
    <3>2. left[w][j + 1] = Bucket[w][Taken(w) + (j + 1)]
      BY <1>0, <3>1 DEF Placed
    <3> QED
      BY <2>2, <3>1, <3>2
  <2>7. Len(left'[w]) <= Len(Bucket[w]) /\ Taken(w) + 1 >= 1
    BY <1>0, <2>2, <2>3 DEF Placed
  <2> QED
    BY <1>0, <2>1, <2>3, <2>4, <2>5, <2>6, <2>7 DEF Placed
<1>2. ASSUME WorkerTakes(w) PROVE Placed(w)'
  <2>1. /\ reader[w] = "offer" /\ hand'[w] = read[w] /\ pc'[w] = "send"
        /\ reader'[w] = "take" /\ left' = left /\ out' = out /\ got' = got
    BY <1>0, <1>2 DEF WorkerTakes, source, chan
  <2>2. /\ Taken(w)' = Taken(w) /\ Passed(w)' = Taken(w) /\ Passed(w) = Taken(w) - 1
        /\ Taken(w) \in 1..Len(Bucket[w]) /\ read[w] = Bucket[w][Taken(w)]
    BY <1>0, <2>1 DEF Taken, Passed, Placed
  <2>3. Seen' = Seen
    BY <2>1 DEF Seen, Delivered
  <2>4. hand'[w] = Bucket[w][Taken(w)] /\ Bucket[w][Taken(w)] \notin Seen
    BY <1>0, <2>1, <2>2 DEF Placed
  <2>5. ASSUME NEW i \in 1..Len(Bucket[w]), Bucket[w][i] \in Seen PROVE i <= Taken(w)
    BY <1>0, <2>2, <2>5 DEF Placed
  <2>6. Taken(w) \in 1..Taken(w)
    BY <2>2
  <2> QED
    BY <1>0, <2>1, <2>2, <2>3, <2>4, <2>5, <2>6 DEF Placed
<1>3. ASSUME WorkerSends(w) PROVE Placed(w)'
  <2>1. /\ pc'[w] = "take" /\ reader' = reader /\ read' = read /\ left' = left
        /\ pc[w] = "send"
    BY <1>0, <1>3 DEF WorkerSends, source
  <2>2. Taken(w)' = Taken(w) /\ Passed(w)' = Passed(w)
    BY <2>1 DEF Taken, Passed
  <2>3. Seen' = Seen \cup {hand[w]}
    BY <1>3, SendAdds
  <2>4. PICK j \in 1..Len(Bucket[w]) : j <= Passed(w) /\ hand[w] = Bucket[w][j]
    BY <2>1, HandIsOwn
  <2>5. ASSUME NEW i \in 1..Len(Bucket[w]), Bucket[w][i] \in Seen' PROVE i <= Passed(w)
    <3>1. CASE Bucket[w][i] \in Seen
      BY <1>0, <3>1 DEF Placed
    <3>2. CASE Bucket[w][i] = hand[w]
      <4>1. Bucket[w][i] = Bucket[w][j]
        BY <2>4, <3>2
      <4>2. i = j
        BY <4>1, MailsDealt
      <4> QED
        BY <2>4, <4>2
    <3> QED
      BY <2>3, <2>5, <3>1, <3>2
  <2> QED
    BY <1>0, <2>1, <2>2, <2>5 DEF Placed
<1>4. ASSUME ReaderEnds(w) PROVE Placed(w)'
  <2>1. /\ reader'[w] = "gone" /\ left' = left /\ out' = out /\ got' = got
        /\ pc' = pc /\ hand' = hand
    BY <1>0, <1>4 DEF ReaderEnds, ReaderMayEnd, MsgsClosed, source, chan
  <2>2. /\ Taken(w)' = Taken(w) /\ Passed(w)' = Taken(w) /\ Passed(w) <= Taken(w)
        /\ Taken(w) \in Int /\ Passed(w) \in Int
    BY <1>0, <2>1 DEF Taken, Passed
  <2>3. Seen' = Seen
    BY <2>1 DEF Seen, Delivered
  <2>4. \A j \in 1..Passed(w) : j \in 1..Taken(w)
    BY <2>2
  <2>5. \A i \in 1..Len(Bucket[w]) : i <= Passed(w) => i <= Taken(w)
    BY <1>0, <2>2
  <2> QED
    BY <1>0, <2>1, <2>2, <2>3, <2>4, <2>5 DEF Placed
<1>5. ASSUME UNCHANGED <<left[w], reader[w], read[w], out, got>>,
             (pc'[w] = pc[w] /\ hand'[w] = hand[w]) \/ pc'[w] # "send"
      PROVE  Placed(w)'
  <2>1. Taken(w)' = Taken(w) /\ Passed(w)' = Passed(w)
    BY <1>5 DEF Taken, Passed
  <2>2. Seen' = Seen
    BY <1>5 DEF Seen, Delivered
  <2> QED
    BY <1>0, <1>5, <2>1, <2>2 DEF Placed
<1>6. CASE FetchEnds(w) \/ WatchStep(w)
  BY <1>5, <1>6 DEF FetchEnds, WatchStep, Report, WatcherLeaves, source, middle, chan
<1>7. CASE Open(w)
  <2>1. UNCHANGED <<left, read, hand, out, got>> /\ pc'[w] # "send"
    BY <1>0, <1>7 DEF Open, AfterFailure, chan
  <2>2. pc[w] = "open" /\ (reader'[w] = "take" \/ reader'[w] = reader[w])
    BY <1>0, <1>7 DEF Open, AfterFailure
  <2>3. Taken(w)' = Taken(w) /\ Seen' = Seen
    BY <2>1 DEF Taken, Seen, Delivered
  <2>4. CASE reader'[w] = reader[w]
    BY <1>5, <2>1, <2>4
  <2>5. CASE reader'[w] = "take"
    <3>a. Taken(w) \in Int
      BY <1>0 DEF Taken
    <3>1. /\ Passed(w)' = Taken(w) /\ Passed(w) <= Taken(w)
          /\ Taken(w) \in Int /\ Passed(w) \in Int
      BY <2>3, <2>5, <3>a DEF Passed
    <3>2. \A i \in 1..Len(Bucket[w]) : i <= Passed(w) => i <= Taken(w)
      BY <1>0, <3>1
    <3> QED
      BY <1>0, <2>1, <2>3, <2>5, <3>1, <3>2 DEF Placed
  <2> QED
    BY <2>2, <2>4, <2>5
<1>8. CASE WorkerEnds(w)
  <2>1. pc'[w] = "done"
    BY <1>0, <1>8 DEF WorkerEnds, WorkerMayEnd
  <2> QED
    BY <1>5, <1>8, <2>1 DEF WorkerEnds, WorkerMayEnd, source, chan
<1> QED
  BY <1>1, <1>2, <1>3, <1>4, <1>6, <1>7, <1>8 DEF BucketStep, FetchStep, WorkerStep

LEMMA PlacedNext == FetchTypeOK /\ FetchTypeOK' /\ AllPlaced /\ FetchMoves => AllPlaced'
<1> SUFFICES ASSUME FetchTypeOK, FetchTypeOK', AllPlaced, FetchMoves, NEW v \in Worker
             PROVE  Placed(v)'
  BY DEF AllPlaced
<1>1. CASE BucketStep(v)
  BY <1>1, PlacedOwn
<1>2. ASSUME UNCHANGED <<left[v], reader[v], read[v], pc[v], hand[v]>>,
             ~ BucketStep(v)
      PROVE Placed(v)'
  <2>1. Placed(v) /\ Taken(v)' = Taken(v) /\ Passed(v)' = Passed(v)
    BY <1>2 DEF Taken, Passed, AllPlaced
  <2>2. CASE Seen' = Seen
    BY <1>2, <2>1, <2>2 DEF Placed
  <2>3. ASSUME NEW w \in Worker, WorkerSends(w) PROVE Placed(v)'
    <3>1. w # v
      BY <1>2, <2>3 DEF BucketStep, WorkerStep
    <3>2. PICK j \in 1..Len(Bucket[w]) : j <= Passed(w) /\ hand[w] = Bucket[w][j]
      BY <2>3, HandIsOwn DEF WorkerSends
    <3>3. \A i \in 1..Len(Bucket[v]) : Bucket[v][i] # hand[w]
      BY <3>1, <3>2, MailsDealt
    <3>4. pc[v] = "send" => hand[v] # hand[w]
      BY <3>3, HandIsOwn
    <3> QED
      BY <1>2, <2>1, <2>3, <3>3, <3>4, SendAdds DEF Placed
  <2> QED
    BY <2>2, <2>3, SeenStep
<1> QED
  BY <1>1, <1>2, OwnBucket

LEMMA CountedNext ==
  FetchTypeOK /\ FetchTypeOK' /\ AllPlaced /\ Counted /\ FetchMoves => Counted'
<1> SUFFICES ASSUME FetchTypeOK, FetchTypeOK', AllPlaced, Counted, FetchMoves PROVE Counted'
  OBVIOUS
<1>1. CASE Seen' = Seen /\ Len(out') + Len(got') = Len(out) + Len(got)
  BY <1>1 DEF Counted
<1>2. ASSUME NEW w \in Worker, WorkerSends(w) PROVE Counted'
  <2>1. hand[w] \notin Seen
    BY <1>2 DEF WorkerSends, AllPlaced, Placed
  <2>2. IsFiniteSet(Seen') /\ Cardinality(Seen') = Cardinality(Seen) + 1
    BY <1>2, <2>1, FS_AddElement, SendAdds DEF Counted
  <2> QED
    BY <1>2, <2>2, SendAdds DEF Counted
<1> QED
  BY <1>1, <1>2, SeenStep

(* No mail is sent twice: what Run has received and what waits for it in    *)
(* the channel are different mails.                                         *)
THEOREM MailsDeliveredOnce == ServiceSpec => []DeliveredOnce
<1>1. ServiceInit => FetchTypeOK /\ AllPlaced /\ Counted
  <2>1. Init => Counted
    <3> SUFFICES ASSUME Init PROVE Counted
      OBVIOUS
    <3>1. out = <<>> /\ got = <<>> /\ Len(out) + Len(got) = 0
      BY DEF Init
    <3>2. Seen = {}
      BY SeenAtFirst
    <3> QED
      BY <3>1, <3>2, FS_EmptySet DEF Counted
  <2> QED
    BY <2>1, FetchTypeInit, PlacedInit DEF ServiceInit
<1>2. FetchTypeOK /\ FetchTypeOK' /\ AllPlaced /\ Counted /\ [ServiceNext]_serviceVars
        => AllPlaced' /\ Counted'
  BY ServiceMoves, PlacedNext, CountedNext
<1>3. FetchTypeOK /\ Counted => DeliveredOnce
  <2> SUFFICES ASSUME FetchTypeOK, Counted PROVE DeliveredOnce
    OBVIOUS
  <2>1. Len(out \o got) = Len(out) + Len(got)
    BY DEF FetchTypeOK, MailTypes
  <2> QED
    BY <2>1 DEF Counted, DeliveredOnce, Delivered
<1> QED
  BY <1>1, <1>2, <1>3, FetchTypeCorrect, PTL DEF ServiceSpec

-----------------------------------------------------------------------------
(* Nothing is lost in a bucket whose own connection has not failed, while   *)
(* the time slot lasts: its context is cancelled by its own watcher only,   *)
(* and the pool's only after every worker has ended.                        *)

Good(w) == ~fetchErr[w] /\ ~slotDone

(* Whatever the worker has been handed is sent or in its hand, and the      *)
(* reader leaves it with nothing to come.                                   *)
Handed(w) ==
  /\ reader[w] = "gone" => left[w] = <<>>
  /\ \A i \in 1..Passed(w) : \/ Bucket[w][i] \in Seen
                             \/ pc[w] = "send" /\ hand[w] = Bucket[w][i]

Kept(w) ==
  /\ bucketDone[w] => fetchErr[w]
  /\ pc[w] = "failed" => fetchErr[w]
  /\ pc[w] = "open" => reader[w] = "off"
  /\ Good(w) => /\ fetcher[w] \in {"report", "gone"} => left[w] = <<>>
                /\ pc[w] = "done" => Dealt(w) \subseteq Seen
                /\ pc[w] # "done" => Handed(w)

AllKept == \A w \in Worker : Kept(w)

PoolEnds == (poolDone => closed) /\ (closed => AllDone)

PoolInv == FetchTypeOK /\ AllPlaced /\ PoolEnds /\ AllKept

LEMMA KeptInit == Init => PoolEnds /\ AllKept
<1> SUFFICES ASSUME Init PROVE PoolEnds /\ AllKept
  OBVIOUS
<1>1. PoolEnds
  BY DEF Init, PoolEnds
<1>2. ASSUME NEW w \in Worker PROVE Kept(w)
  <2>1. /\ ~bucketDone[w] /\ pc[w] = "open" /\ reader[w] = "off" /\ fetcher[w] = "off"
        /\ left[w] = Bucket[w] /\ Len(Bucket[w]) \in Nat
    BY <1>2, MailsDealt DEF Init
  <2>2. Passed(w) = 0
    BY <2>1 DEF Passed, Taken
  <2> QED
    BY <2>1, <2>2 DEF Kept, Handed
<1> QED
  BY <1>1, <1>2 DEF AllKept

(* Only the own failure or the time slot ends a bucket early. *)
LEMMA NotCancelled ==
  ASSUME PoolInv, NEW w \in Worker, Good(w), pc[w] # "done"
  PROVE  ~Done(w) /\ ~PoolDone
BY DEF PoolInv, PoolEnds, AllDone, AllKept, Kept, Good, Done, PoolDone

LEMMA GoodBefore ==
  ASSUME FetchTypeOK, FetchMoves, NEW w \in Worker, Good(w)'
  PROVE  Good(w)
<1> USE DEF Good
<1>1. slotDone => slotDone'
  <2>1. ASSUME NEW v \in Worker, BucketStep(v) PROVE slotDone' = slotDone
    BY <2>1 DEF BucketStep, Open, AfterFailure, FetchStep, FetchEnds, ReaderTakes, WatchStep, Report,
                WatcherLeaves, ReaderEnds, WorkerStep, WorkerTakes, WorkerSends, WorkerEnds,
                ctxs
  <2>2. CASE Close \/ CancelPool \/ Receive \/ SlotExpires \/ Expires \/ UNCHANGED vars
    BY <2>2 DEF Close, CancelPool, Receive, SlotExpires, Expires, vars, ctxs
  <2> QED
    BY <2>1, <2>2, Moves DEF Finished
<1>2. fetchErr[w] => fetchErr'[w]
  <2>1. CASE BucketStep(w)
    BY <2>1 DEF BucketStep, Open, AfterFailure, FetchStep, FetchEnds, ReaderTakes, WatchStep, Report,
                WatcherLeaves, ReaderEnds, WorkerStep, WorkerTakes, WorkerSends, WorkerEnds,
                source, Set, FetchTypeOK, StateTypes
  <2> QED
    BY <2>1, OwnBucket
<1> QED
  BY <1>1, <1>2

LEMMA SeenGrows ==
  ASSUME FetchTypeOK, FetchTypeOK', FetchMoves PROVE Seen \subseteq Seen'
BY SeenStep, SendAdds

(* What has been handed on when the Fetch has nothing left is the bucket. *)
LEMMA AllHanded ==
  ASSUME PoolInv, NEW w \in Worker, Good(w), pc[w] = "take", reader[w] = "gone"
  PROVE  Dealt(w) \subseteq Seen
<1>1. Kept(w) /\ Handed(w) /\ left[w] = <<>>
  BY DEF PoolInv, AllKept, Kept, Handed
<1>2. Bucket[w] \in Seq(Nat) /\ Len(Bucket[w]) \in Nat /\ Len(left[w]) = 0
  BY <1>1, MailsDealt
<1>3. Passed(w) = Len(Bucket[w])
  BY <1>2 DEF Passed, Taken
<1>4. \A i \in 1..Len(Bucket[w]) : Bucket[w][i] \in Seen
  BY <1>1, <1>3 DEF Handed
<1>5. DOMAIN Bucket[w] = 1..Len(Bucket[w])
  BY <1>2
<1> QED
  BY <1>4, <1>5 DEF Dealt

LEMMA KeptOwn ==
  ASSUME PoolInv, FetchTypeOK', NEW w \in Worker, BucketStep(w), FetchMoves
  PROVE  Kept(w)'
<1> USE DEF Set
<1>0. /\ Kept(w) /\ Placed(w)
      /\ fetcher[w] \in {"off", "fetch", "report", "gone"}
      /\ Len(left[w]) \in Nat /\ Len(Bucket[w]) \in Nat
  BY MailsDealt DEF PoolInv, AllKept, AllPlaced, FetchTypeOK, StateTypes, MailTypes
<1>a. /\ fetcher \in [Worker -> {"off", "fetch", "report", "gone"}]
      /\ fetchErr \in [Worker -> BOOLEAN]
      /\ reader \in [Worker -> {"off", "take", "offer", "gone"}]
      /\ pc \in [Worker -> {"open", "take", "send", "failed", "done"}]
      /\ w \in DOMAIN left /\ w \in DOMAIN read /\ w \in DOMAIN hand
  BY DEF PoolInv, FetchTypeOK, StateTypes, MailTypes
<1>b. Good(w)' => Good(w)
  BY GoodBefore DEF PoolInv
<1>c. Seen \subseteq Seen'
  BY SeenGrows DEF PoolInv
<1>d. Taken(w) \in Int /\ Passed(w) \in Int
  <2>1. Taken(w) \in Int
    BY <1>0 DEF Taken
  <2> QED
    BY <2>1 DEF Passed
<1>1. CASE Open(w)
  <2>1. /\ pc[w] = "open" /\ reader[w] = "off" /\ UNCHANGED <<left, hand, bucketDone>>
        /\ pc'[w] \in {"take", "failed"} /\ (pc'[w] = "failed" => fetchErr'[w])
        /\ (pc'[w] = "take" => /\ fetcher'[w] = "fetch" /\ reader'[w] = "take"
                               /\ fetchErr' = fetchErr)
        /\ (fetchErr[w] => fetchErr'[w])
    BY <1>0, <1>a, <1>1 DEF Open, AfterFailure, Kept, ctxs
  <2>2. pc'[w] = "take" => Passed(w)' = Passed(w)
    BY <2>1 DEF Passed, Taken
  <2>3. Good(w) => Handed(w)
    BY <1>0, <2>1 DEF Kept
  <2>4. pc'[w] = "take" /\ Good(w) => Handed(w)'
    BY <1>c, <2>1, <2>2, <2>3 DEF Handed
  <2> QED
    BY <1>0, <1>b, <2>1, <2>4 DEF Kept, Good
<1>2. CASE FetchEnds(w)
  <2>1. /\ fetcher[w] = "fetch" /\ fetcher'[w] = "report"
        /\ (left[w] = <<>> \/ fetchErr'[w]) /\ (fetchErr[w] => fetchErr'[w])
        /\ UNCHANGED <<left, reader, read, pc, hand, bucketDone, out, got>>
    BY <1>a, <1>2 DEF FetchEnds, middle, ctxs, chan
  <2>2. Handed(w)' <=> Handed(w)
    BY <2>1 DEF Handed, Passed, Taken, Seen, Delivered
  <2>3. Seen' = Seen
    BY <2>1 DEF Seen, Delivered
  <2> QED
    BY <1>0, <1>b, <2>1, <2>2, <2>3 DEF Kept, Good, Dealt
<1>3. CASE ReaderTakes(w)
  <2>1. /\ reader[w] = "take" /\ fetcher[w] = "fetch" /\ reader'[w] = "offer"
        /\ left'[w] = Tail(left[w]) /\ left[w] # <<>>
        /\ UNCHANGED <<fetcher, fetchErr, pc, hand, bucketDone, out, got>>
    BY <1>a, <1>3 DEF ReaderTakes, ctxs, chan
  <2>2. Len(left'[w]) = Len(left[w]) - 1
    BY <2>1, HeadTailProperties DEF PoolInv, FetchTypeOK, MailTypes
  <2>a. Taken(w)' = Taken(w) + 1
    BY <1>0, <2>2 DEF Taken
  <2>3. Passed(w)' = Passed(w)
    BY <1>d, <2>1, <2>a DEF Passed
  <2>4. Handed(w) => Handed(w)'
    BY <1>c, <2>1, <2>3 DEF Handed
  <2>5. Seen' = Seen
    BY <2>1 DEF Seen, Delivered
  <2> QED
    BY <1>0, <1>b, <2>1, <2>4, <2>5 DEF Kept, Good, Dealt
<1>4. CASE Report(w)
  <2>1. /\ fetcher[w] = "report" /\ fetcher'[w] = "gone"
        /\ bucketDone'[w] = (bucketDone[w] \/ fetchErr[w])
        /\ UNCHANGED <<left, fetchErr, reader, read, pc, hand, out, got>>
    BY <1>a, <1>4 DEF Report, CancelledBy, middle, chan
  <2>2. (Handed(w)' <=> Handed(w)) /\ Seen' = Seen
    BY <2>1 DEF Handed, Passed, Taken, Seen, Delivered
  <2> QED
    BY <1>0, <1>b, <2>1, <2>2 DEF Kept, Good, Dealt
<1>5. CASE WatcherLeaves(w)
  <2>1. UNCHANGED <<fetcher, bucketDone, left, fetchErr, reader, read, pc, hand, out, got>>
    BY <1>5 DEF WatcherLeaves, source, middle, ctxs, chan
  <2>2. (Handed(w)' <=> Handed(w)) /\ Seen' = Seen
    BY <2>1 DEF Handed, Passed, Taken, Seen, Delivered
  <2> QED
    BY <1>0, <1>b, <2>1, <2>2 DEF Kept, Good, Dealt
<1>6. CASE ReaderEnds(w)
  <2>1. /\ reader'[w] = "gone" /\ reader[w] \in {"take", "offer"}
        /\ (Done(w) \/ (reader[w] = "take" /\ fetcher[w] \in {"report", "gone"}))
        /\ UNCHANGED <<fetcher, bucketDone, left, fetchErr, pc, hand, out, got>>
    BY <1>0, <1>a, <1>6 DEF ReaderEnds, ReaderMayEnd, MsgsClosed, source, ctxs, chan
  <2>2. Seen' = Seen
    BY <2>1 DEF Seen, Delivered
  <2>3. ASSUME Good(w), pc[w] # "done" PROVE Handed(w)'
    <3>1. ~Done(w)
      BY <2>3, NotCancelled
    <3>2. reader[w] = "take" /\ left[w] = <<>> /\ Handed(w)
      BY <1>0, <2>1, <2>3, <3>1 DEF Kept
    <3>3. Passed(w)' = Passed(w)
      BY <2>1, <3>2 DEF Passed, Taken
    <3> QED
      BY <2>1, <2>2, <3>2, <3>3 DEF Handed
  <2> QED
    BY <1>0, <1>b, <2>1, <2>2, <2>3 DEF Kept, Good, Dealt
<1>7. CASE WorkerTakes(w)
  <2>1. /\ pc[w] = "take" /\ reader[w] = "offer" /\ hand'[w] = read[w] /\ pc'[w] = "send"
        /\ reader'[w] = "take"
        /\ UNCHANGED <<fetcher, bucketDone, left, fetchErr, out, got>>
    BY <1>a, <1>7 DEF WorkerTakes, source, ctxs, chan
  <2>2. /\ Passed(w)' = Taken(w) /\ Passed(w) = Taken(w) - 1
        /\ Taken(w) >= 1 /\ read[w] = Bucket[w][Taken(w)]
    BY <1>0, <2>1 DEF Passed, Taken, Placed
  <2>3. Seen' = Seen
    BY <2>1 DEF Seen, Delivered
  <2>4. ASSUME Handed(w) PROVE Handed(w)'
    <3>1. ASSUME NEW i \in 1..Taken(w)
          PROVE  Bucket[w][i] \in Seen \/ read[w] = Bucket[w][i]
      <4>1. CASE i = Taken(w)
        BY <2>2, <4>1
      <4>2. CASE i # Taken(w)
        <5>1. i \in 1..Passed(w)
          BY <1>d, <2>2, <4>2
        <5> QED
          BY <2>1, <2>4, <5>1 DEF Handed
      <4> QED
        BY <4>1, <4>2
    <3> QED
      BY <2>1, <2>2, <2>3, <3>1 DEF Handed
  <2> QED
    BY <1>0, <1>b, <2>1, <2>3, <2>4 DEF Kept, Good, Dealt
<1>8. CASE WorkerSends(w)
  <2>1. /\ pc[w] = "send" /\ pc'[w] = "take"
        /\ UNCHANGED <<fetcher, bucketDone, left, fetchErr, reader, hand>>
    BY <1>a, <1>8 DEF WorkerSends, source, ctxs
  <2>2. Passed(w)' = Passed(w) /\ Seen' = Seen \cup {hand[w]}
    BY <1>8, <2>1, SendAdds DEF Passed, Taken, PoolInv
  <2>3. Handed(w) => Handed(w)'
    BY <2>1, <2>2 DEF Handed
  <2> QED
    BY <1>0, <1>b, <2>1, <2>3 DEF Kept, Good
<1>9. CASE WorkerEnds(w)
  <2>1. /\ pc[w] # "open" /\ pc'[w] = "done"
        /\ UNCHANGED <<fetcher, bucketDone, left, fetchErr, reader, hand, out, got>>
        /\ pc[w] # "done"
        /\ PoolDone \/ (pc[w] = "take" /\ reader[w] = "gone") \/ pc[w] = "failed"
    BY <1>a, <1>9 DEF WorkerEnds, WorkerMayEnd, source, ctxs, chan
  <2>2. Seen' = Seen
    BY <2>1 DEF Seen, Delivered
  <2>3. ASSUME Good(w) PROVE Dealt(w) \subseteq Seen
    <3>1. ~PoolDone
      BY <2>1, <2>3, NotCancelled
    <3>2. pc[w] # "failed"
      BY <1>0, <2>3 DEF Kept, Good
    <3> QED
      BY <2>1, <2>3, <3>1, <3>2, AllHanded
  <2> QED
    BY <1>0, <1>b, <2>1, <2>2, <2>3 DEF Kept, Good, Dealt
<1> QED
  BY <1>1, <1>2, <1>3, <1>4, <1>5, <1>6, <1>7, <1>8, <1>9
  DEF BucketStep, FetchStep, WatchStep, WorkerStep

LEMMA KeptNext == PoolInv /\ FetchTypeOK' /\ FetchMoves => AllKept'
<1> SUFFICES ASSUME PoolInv, FetchTypeOK', FetchMoves, NEW w \in Worker PROVE Kept(w)'
  BY DEF AllKept
<1>1. CASE BucketStep(w)
  BY <1>1, KeptOwn
<1>2. CASE UNCHANGED <<fetcher[w], left[w], fetchErr[w], watcher[w], reader[w], read[w],
                       pc[w], hand[w], bucketDone[w]>>
  <2>1. Kept(w) /\ (Good(w)' => Good(w)) /\ Seen \subseteq Seen'
    BY GoodBefore, SeenGrows DEF PoolInv, AllKept
  <2>2. Passed(w)' = Passed(w)
    BY <1>2 DEF Passed, Taken
  <2>3. Handed(w) => Handed(w)'
    BY <1>2, <2>1, <2>2 DEF Handed
  <2> QED
    BY <1>2, <2>1, <2>3 DEF Kept, Good
<1> QED
  BY <1>1, <1>2, OwnBucket DEF PoolInv

(* The pool is closed when every worker has ended, which none undoes. *)
LEMMA PoolEndsNext == PoolInv /\ FetchTypeOK' /\ FetchMoves => PoolEnds'
<1> SUFFICES ASSUME PoolInv, FetchTypeOK', FetchMoves PROVE PoolEnds'
  OBVIOUS
<1>0. PoolEnds /\ pc \in [Worker -> {"open", "take", "send", "failed", "done"}]
  BY DEF PoolInv, FetchTypeOK, StateTypes
<1>1. ASSUME NEW w \in Worker, BucketStep(w) PROVE PoolEnds'
  <2>1. poolDone' = poolDone /\ closed' = closed
    BY <1>1 DEF BucketStep, Open, AfterFailure, FetchStep, FetchEnds, ReaderTakes, WatchStep, Report,
                WatcherLeaves, ReaderEnds, WorkerStep, WorkerTakes, WorkerSends, WorkerEnds, WorkerMayEnd,
                ctxs, chan
  <2>2. \A v \in Worker : pc[v] = "done" => pc'[v] = "done"
    BY <1>0, <1>1 DEF BucketStep, Open, AfterFailure, FetchStep, FetchEnds, ReaderTakes, WatchStep, Report,
                WatcherLeaves, ReaderEnds, WorkerStep, WorkerTakes, WorkerSends, WorkerEnds, WorkerMayEnd,
                middle, Set
  <2> QED
    BY <1>0, <2>1, <2>2 DEF PoolEnds, AllDone
<1>2. CASE Close
  BY <1>0, <1>2 DEF Close, PoolEnds, AllDone, middle, ctxs
<1>a. CASE CancelPool \/ Receive
  <2>1. pc' = pc /\ closed' = closed /\ (poolDone' = poolDone \/ closed)
    BY <1>a DEF CancelPool, Receive, middle, ctxs, chan
  <2> QED
    BY <1>0, <2>1 DEF PoolEnds, AllDone
<1>3. CASE SlotExpires \/ Expires \/ UNCHANGED vars
  BY <1>0, <1>3 DEF SlotExpires, Expires, PoolEnds, AllDone, middle, vars, ctxs, chan
<1> QED
  BY <1>1, <1>2, <1>a, <1>3, Moves DEF Finished

LEMMA PoolInvInit == ServiceInit => PoolInv
BY FetchTypeInit, PlacedInit, KeptInit DEF ServiceInit, PoolInv

LEMMA PoolInvNext == PoolInv /\ [ServiceNext]_serviceVars => PoolInv'
<1> SUFFICES ASSUME PoolInv, FetchMoves PROVE PoolInv'
  BY ServiceMoves
<1>1. FetchTypeOK'
  BY StateTypesNext, MailTypesNext DEF PoolInv, FetchTypeOK
<1>2. AllPlaced'
  BY <1>1, PlacedNext DEF PoolInv
<1> QED
  BY <1>1, <1>2, KeptNext, PoolEndsNext DEF PoolInv

(* When Run has ranged over the mails within the time slot, every bucket    *)
(* whose own connection did not fail has delivered all of its mails.        *)
THEOREM LossesStayInBucket == ServiceSpec => []LossStaysInBucket
<1>1. PoolInv => LossStaysInBucket
  BY DEF PoolInv, PoolEnds, AllDone, AllKept, Kept, Good, LossStaysInBucket, Ranged
<1> QED
  BY <1>1, PoolInvInit, PoolInvNext, PTL DEF ServiceSpec

-----------------------------------------------------------------------------
(* The pool keeps the promise of a result stream.                          *)

StillOpen == UNION {Underway(w) : w \in Worker}
Excused   == slotDone \/ \E w \in Worker : fetchErr[w]

LEMMA StreamInit == Init => Stream!Init
<1> SUFFICES ASSUME Init PROVE Stream!Init
  OBVIOUS
<1>1. Seen = {} /\ ~closed /\ ~Excused
  BY SeenAtFirst DEF Init, Excused
<1>2. ASSUME NEW w \in Worker PROVE Underway(w) = Dealt(w)
  BY <1>1 DEF Underway, Init
<1>3. ASSUME NEW w \in Worker, NEW m \in Dealt(w) PROVE m \in Id
  BY <1>3, MailsDealt DEF Dealt
<1>4. ASSUME NEW m \in Id PROVE \E w \in Worker : m \in Dealt(w)
  <2>1. PICK w \in Worker : \E i \in 1..Len(Bucket[w]) : Bucket[w][i] = m
    BY MailsDealt
  <2>2. DOMAIN Bucket[w] = 1..Len(Bucket[w])
    BY MailsDealt
  <2> QED
    BY <2>1, <2>2 DEF Dealt
<1>5. UNION {Underway(w) : w \in Worker} = Id
  BY <1>2, <1>3, <1>4
<1> QED
  BY <1>1, <1>5 DEF Stream!Init, Excused

(* Every mail is of one bucket. *)
LEMMA OneBucket ==
  ASSUME NEW w \in Worker, NEW v \in Worker, NEW m \in Dealt(w), m \in Dealt(v)
  PROVE  w = v
<1>1. DOMAIN Bucket[w] = 1..Len(Bucket[w]) /\ DOMAIN Bucket[v] = 1..Len(Bucket[v])
  BY MailsDealt
<1> QED
  BY <1>1, MailsDealt DEF Dealt

LEMMA OpenAt == \A m : m \in StillOpen <=> \E w \in Worker : m \in Underway(w)
BY DEF StillOpen

(* A step that ends no worker and sends nothing leaves open what is open. *)
LEMMA OpenStays ==
  ASSUME Seen' = Seen, \A w \in Worker : pc'[w] = "done" <=> pc[w] = "done"
  PROVE  StillOpen' = StillOpen
<1>1. \A w \in Worker : Underway(w)' = Underway(w)
  BY DEF Underway
<1> QED
  BY <1>1 DEF StillOpen

LEMMA SendStep ==
  ASSUME PoolInv, FetchTypeOK', NEW w \in Worker, WorkerSends(w)
  PROVE  Stream!Answer(hand[w]) /\ hand[w] \in Id
<1>1. /\ pc[w] = "send" /\ pc' = [pc EXCEPT ![w] = "take"]
      /\ UNCHANGED <<fetchErr, slotDone, closed>>
      /\ pc \in [Worker -> {"open", "take", "send", "failed", "done"}]
  BY DEF WorkerSends, source, ctxs, Set, PoolInv, FetchTypeOK, StateTypes
<1>2. PICK j \in 1..Len(Bucket[w]) : hand[w] = Bucket[w][j]
  BY <1>1, HandIsOwn DEF PoolInv
<1>3. hand[w] \in Dealt(w) /\ hand[w] \in Id
  BY <1>2, MailsDealt DEF Dealt
<1>4. hand[w] \in Underway(w)
  BY <1>1, <1>3 DEF Underway, PoolInv, AllPlaced, Placed
<1>5. Seen' = Seen \cup {hand[w]}
  BY SendAdds DEF PoolInv
<1>6. \A v \in Worker : Underway(v)' = Underway(v) \ {hand[w]}
  BY <1>1, <1>5 DEF Underway
<1>7. StillOpen' = StillOpen \ {hand[w]}
  BY <1>6 DEF StillOpen
<1>8. ~closed
  BY <1>1 DEF PoolInv, PoolEnds, AllDone
<1>9. hand[w] \in StillOpen
  BY <1>4, OpenAt
<1> QED
  BY <1>1, <1>3, <1>5, <1>7, <1>8, <1>9 DEF Stream!Answer, StillOpen

(* A worker that ends gives up what it has not sent: nothing, unless the    *)
(* slot is over or its connection has failed.                               *)
LEMMA EndStep ==
  ASSUME PoolInv, PoolInv', NEW w \in Worker, WorkerEnds(w)
  PROVE  [Stream!Next]_Stream!vars
<1>1. /\ pc' = [pc EXCEPT ![w] = "done"]
      /\ UNCHANGED <<fetchErr, slotDone, closed, out, got>>
      /\ pc \in [Worker -> {"open", "take", "send", "failed", "done"}]
  BY DEF WorkerEnds, WorkerMayEnd, source, ctxs, chan, Set, PoolInv, FetchTypeOK, StateTypes
<1>2. Seen' = Seen
  BY <1>1 DEF Seen, Delivered
<1>3. Underway(w)' = {} /\ \A v \in Worker : v # w => Underway(v)' = Underway(v)
  BY <1>1, <1>2 DEF Underway
<1>4. \A v \in Worker : v # w => Underway(v) \cap Underway(w) = {}
  BY OneBucket DEF Underway
<1>5. StillOpen' = StillOpen \ Underway(w)
  <2>1. ASSUME NEW m PROVE m \in StillOpen' <=> m \in StillOpen /\ m \notin Underway(w)
    <3>1. m \in StillOpen' <=> \E v \in Worker : m \in Underway(v)'
      BY DEF StillOpen
    <3> QED
      BY <1>3, <1>4, <3>1, OpenAt
  <2> QED
    BY <2>1
<1>6. CASE Excused
  <2>1. Underway(w) \subseteq StillOpen /\ Underway(w) \in SUBSET Id
    <3>1. \A m \in Dealt(w) : m \in Id
      BY MailsDealt DEF Dealt
    <3> QED
      BY <3>1, OpenAt DEF Underway
  <2>2. Stream!GiveUp(Underway(w))
    BY <1>1, <1>2, <1>5, <1>6, <2>1 DEF Stream!GiveUp, StillOpen, Excused
  <2> QED
    BY <2>1, <2>2 DEF Stream!Next
<1>7. CASE ~Excused
  <2>1. Kept(w)' /\ pc'[w] = "done" /\ Good(w)'
    BY <1>1, <1>7 DEF PoolInv, AllKept, Excused, Good
  <2>2. Dealt(w) \subseteq Seen
    BY <1>2, <2>1 DEF Kept, Dealt
  <2>3. Underway(w) = {}
    BY <2>2 DEF Underway
  <2>4. StillOpen' = StillOpen
    BY <1>5, <2>3
  <2> QED
    BY <1>1, <1>2, <2>4 DEF Stream!vars, StillOpen
<1> QED
  BY <1>6, <1>7

(* Any other step of a bucket is a stutter, or a failure. *)
LEMMA OtherStep ==
  ASSUME PoolInv, FetchTypeOK', FetchMoves,
         NEW w \in Worker, BucketStep(w), ~WorkerSends(w), ~WorkerEnds(w)
  PROVE  [Stream!Next]_Stream!vars
<1>0. /\ pc \in [Worker -> {"open", "take", "send", "failed", "done"}]
      /\ fetchErr \in [Worker -> BOOLEAN]
  BY DEF PoolInv, FetchTypeOK, StateTypes
<1>1. UNCHANGED <<out, got, closed, slotDone>>
  BY DEF BucketStep, Open, AfterFailure, FetchStep, FetchEnds, ReaderTakes, WatchStep, Report,
         WatcherLeaves, ReaderEnds, WorkerStep, WorkerTakes, ctxs, chan
<1>2. \A v \in Worker : pc'[v] = "done" <=> pc[v] = "done"
  BY <1>0 DEF BucketStep, Open, AfterFailure, FetchStep, FetchEnds, ReaderTakes, WatchStep, Report,
              WatcherLeaves, ReaderEnds, WorkerStep, WorkerTakes, middle, Set
<1>3. Seen' = Seen
  BY <1>1 DEF Seen, Delivered
<1>4. StillOpen' = StillOpen
  BY <1>2, <1>3, OpenStays
<1>5. fetchErr' = fetchErr \/ fetchErr' = [fetchErr EXCEPT ![w] = TRUE]
  BY DEF BucketStep, Open, AfterFailure, FetchStep, FetchEnds, ReaderTakes, WatchStep, Report,
         WatcherLeaves, ReaderEnds, WorkerStep, WorkerTakes, source, Set
<1>6. CASE fetchErr' = fetchErr
  BY <1>1, <1>3, <1>4, <1>6 DEF Stream!vars, StillOpen
<1>7. CASE fetchErr' = [fetchErr EXCEPT ![w] = TRUE]
  <2>1. fetchErr'[w]
    BY <1>0, <1>7
  <2>2. Stream!Excuse
    BY <1>1, <1>3, <1>4, <2>1 DEF Stream!Excuse, StillOpen
  <2> QED
    BY <2>2 DEF Stream!Next
<1> QED
  BY <1>5, <1>6, <1>7

LEMMA StreamStep ==
  ASSUME PoolInv, PoolInv', FetchMoves
  PROVE  [Stream!Next]_Stream!vars
<1>0. FetchTypeOK'
  BY DEF PoolInv
<1>1. ASSUME NEW w \in Worker, BucketStep(w) PROVE [Stream!Next]_Stream!vars
  <2>1. CASE WorkerSends(w)
    BY <1>0, <2>1, SendStep DEF Stream!Next
  <2>2. CASE WorkerEnds(w)
    BY <2>2, EndStep
  <2>3. CASE ~WorkerSends(w) /\ ~WorkerEnds(w)
    BY <1>0, <1>1, <2>3, OtherStep
  <2> QED
    BY <2>1, <2>2, <2>3
<1>2. CASE Close
  <2>1. UNCHANGED <<out, got, pc, fetchErr, slotDone>> /\ AllDone /\ closed' = TRUE
    BY <1>2 DEF Close, source, middle, ctxs
  <2>2. Seen' = Seen /\ StillOpen' = StillOpen
    BY <2>1, OpenStays DEF Seen, Delivered
  <2>3. StillOpen = {}
    BY <2>1 DEF AllDone, StillOpen, Underway
  <2> QED
    BY <2>1, <2>2, <2>3 DEF Stream!Close, Stream!Next, StillOpen
<1>3. CASE CancelPool \/ Receive \/ UNCHANGED vars
  <2>1. UNCHANGED <<pc, fetchErr, slotDone, closed>>
    BY <1>3 DEF CancelPool, Receive, vars, source, middle, ctxs, chan
  <2>2. Seen' = Seen
    BY <1>0, <1>3, ReceiveKeeps DEF CancelPool, vars, chan, Seen, Delivered, PoolInv
  <2>3. StillOpen' = StillOpen
    BY <2>1, <2>2, OpenStays
  <2> QED
    BY <2>1, <2>2, <2>3 DEF Stream!vars, StillOpen
<1>4. CASE SlotExpires \/ Expires
  <2>1. UNCHANGED <<out, got, pc, fetchErr, closed>> /\ slotDone'
    BY <1>4 DEF SlotExpires, Expires, source, middle, chan
  <2>2. Seen' = Seen /\ StillOpen' = StillOpen
    BY <2>1, OpenStays DEF Seen, Delivered
  <2> QED
    BY <2>1, <2>2 DEF Stream!Excuse, Stream!Next, StillOpen
<1> QED
  BY <1>1, <1>2, <1>3, <1>4, Moves DEF Finished

(* The channel of mails keeps the promise Run relies on, in every run of    *)
(* the service: no mail twice, none left out without a failure or the end   *)
(* of the slot, closed when all is settled and nothing sent thereafter.     *)
THEOREM FetchImplementsStream == ServiceSpec => StreamSpec
<1>1. ServiceInit => Stream!Init
  BY StreamInit DEF ServiceInit
<1>2. PoolInv /\ PoolInv' /\ [ServiceNext]_serviceVars => [Stream!Next]_Stream!vars
  BY ServiceMoves, StreamStep
<1> QED
  BY <1>1, <1>2, PoolInvInit, PoolInvNext, PTL DEF ServiceSpec, StreamSpec, Stream!Spec

-----------------------------------------------------------------------------
(* Nobody is stuck.                                                        *)

(* A worker that is under way has its reader and its fetcher. *)
Wired == \A w \in Worker : pc[w] \in {"take", "send"} => reader[w] # "off" /\ fetcher[w] # "off"

LEMMA WiredNext == FetchTypeOK /\ Wired /\ FetchMoves => Wired'
<1> SUFFICES ASSUME FetchTypeOK, Wired, FetchMoves, NEW w \in Worker, pc'[w] \in {"take", "send"}
             PROVE  reader'[w] # "off" /\ fetcher'[w] # "off"
  BY DEF Wired
<1> USE DEF StateTypes, Set, source, middle
<1>0. StateTypes /\ (pc[w] \in {"take", "send"} => reader[w] # "off" /\ fetcher[w] # "off")
  BY DEF FetchTypeOK, Wired
<1>1. CASE BucketStep(w)
  <2>1. CASE Open(w)
    BY <1>0, <2>1 DEF Open, AfterFailure
  <2>2. CASE FetchStep(w)
    BY <1>0, <2>2 DEF FetchStep, FetchEnds, ReaderTakes
  <2>3. CASE WatchStep(w)
    BY <1>0, <2>3 DEF WatchStep, Report, WatcherLeaves
  <2>4. CASE ReaderEnds(w)
    BY <1>0, <2>4 DEF ReaderEnds, ReaderMayEnd, MsgsClosed
  <2>5. CASE WorkerStep(w)
    BY <1>0, <2>5 DEF WorkerStep, WorkerTakes, WorkerSends, WorkerEnds, WorkerMayEnd
  <2> QED
    BY <1>1, <2>1, <2>2, <2>3, <2>4, <2>5 DEF BucketStep
<1>2. CASE UNCHANGED <<fetcher[w], left[w], fetchErr[w], watcher[w], reader[w], read[w],
                       pc[w], hand[w], bucketDone[w]>>
  BY <1>0, <1>2
<1> QED
  BY <1>1, <1>2, OwnBucket

LEMMA SomeRoom == ASSUME NEW w \in Worker, out = <<>> PROVE Room
<1>1. Routines(Cpus, Ids) \in Int
  BY FetchAssumption, RoutinesBound
<1> QED
  BY <1>1, FS_Interval DEF Room, Worker

(* For every number of workers and mails, and wherever a fetch or the time  *)
(* slot ends: until Run has all there is, it can receive, the channel can   *)
(* be closed, or a bucket has a step to take or waits for the server.       *)
THEOREM FetchNeverStuck == ServiceSpec => []NobodyStuck
<1>1. ServiceInit => Wired
  BY DEF ServiceInit, Init, Wired
<1>2. FetchTypeOK /\ Wired => NobodyStuck
  <2> SUFFICES ASSUME FetchTypeOK, Wired, ~Ranged, out = <<>>, closed \/ ~AllDone
               PROVE  \E w \in Worker : AwaitsServer(w) \/ CanGo(w)
    BY DEF NobodyStuck
  <2>1. PICK w \in Worker : pc[w] # "done"
    BY DEF Ranged, AllDone
  <2>2. /\ pc[w] \in {"open", "take", "send", "failed"}
        /\ reader[w] \in {"off", "take", "offer", "gone"}
        /\ fetcher[w] \in {"off", "fetch", "report", "gone"}
    BY <2>1 DEF FetchTypeOK, StateTypes
  <2>3. CASE pc[w] \in {"open", "failed"}
    BY <2>3 DEF AwaitsServer, CanGo, WorkerMayEnd
  <2>4. CASE pc[w] = "send"
    BY <2>4, SomeRoom DEF CanGo
  <2>5. CASE pc[w] = "take"
    <3>1. reader[w] \in {"take", "offer", "gone"} /\ fetcher[w] \in {"fetch", "report", "gone"}
      BY <2>2, <2>5 DEF Wired
    <3> QED
      BY <2>5, <3>1 DEF AwaitsServer, CanGo, WorkerMayEnd, ReaderMayEnd, PoolDone
  <2> QED
    BY <2>2, <2>3, <2>4, <2>5
<1>3. Wired /\ FetchTypeOK /\ [ServiceNext]_serviceVars => Wired'
  BY WiredNext, ServiceMoves
<1> QED
  BY <1>1, <1>2, <1>3, FetchTypeCorrect, PTL DEF ServiceSpec

(* A bucket's own steps bring it nearer to its end; others leave it alone.  *)
LEMMA Ranks ==
  /\ FetcherRank["off"] = 0 /\ FetcherRank["fetch"] = 2 /\ FetcherRank["report"] = 1
  /\ FetcherRank["gone"] = 0
  /\ WatcherRank["off"] = 0 /\ WatcherRank["watch"] = 1 /\ WatcherRank["gone"] = 0
  /\ ReaderRank["off"] = 0 /\ ReaderRank["take"] = 1 /\ ReaderRank["offer"] = 3
  /\ ReaderRank["gone"] = 0
  /\ WorkerRank["open"] = 6 /\ WorkerRank["take"] = 1 /\ WorkerRank["send"] = 2
  /\ WorkerRank["failed"] = 1 /\ WorkerRank["done"] = 0
BY DEF FetcherRank, WatcherRank, ReaderRank, WorkerRank

LEMMA StepsLeftType ==
  FetchTypeOK =>
    \A w \in Worker :
      /\ StepsLeft(w) \in Nat /\ Len(left[w]) \in Nat
      /\ FetcherRank[fetcher[w]] \in 0..2 /\ WatcherRank[watcher[w]] \in 0..1
      /\ ReaderRank[reader[w]] \in 0..3 /\ WorkerRank[pc[w]] \in 0..6
<1> SUFFICES ASSUME FetchTypeOK, NEW w \in Worker
             PROVE  /\ StepsLeft(w) \in Nat /\ Len(left[w]) \in Nat
                    /\ FetcherRank[fetcher[w]] \in 0..2 /\ WatcherRank[watcher[w]] \in 0..1
                    /\ ReaderRank[reader[w]] \in 0..3 /\ WorkerRank[pc[w]] \in 0..6
  OBVIOUS
<1>1. Len(left[w]) \in Nat
  BY DEF FetchTypeOK, MailTypes
<1>2. /\ FetcherRank[fetcher[w]] \in 0..2 /\ WatcherRank[watcher[w]] \in 0..1
      /\ ReaderRank[reader[w]] \in 0..3 /\ WorkerRank[pc[w]] \in 0..6
  <2>1. /\ fetcher[w] \in {"off", "fetch", "report", "gone"}
        /\ watcher[w] \in {"off", "watch", "gone"}
        /\ reader[w] \in {"off", "take", "offer", "gone"}
        /\ pc[w] \in {"open", "take", "send", "failed", "done"}
    BY DEF FetchTypeOK, StateTypes
  <2> QED
    BY <2>1, Ranks
<1>3. \A l \in Nat, f \in 0..2, v \in 0..1, r \in 0..3, p \in 0..6 : 3 * l + f + v + r + p \in Nat
  OBVIOUS
<1>4. StepsLeft(w) \in Nat
  BY <1>1, <1>2, <1>3, Zenon DEF StepsLeft
<1> QED
  BY <1>1, <1>2, <1>4

LEMMA OwnStepsRunOut ==
  ASSUME FetchTypeOK, NEW w \in Worker, BucketStep(w)
  PROVE  StepsLeft(w)' < StepsLeft(w)
<1> USE DEF Set, source, middle
<1>0. StateTypes /\ left \in [Worker -> Seq(Nat)]
  BY DEF FetchTypeOK, MailTypes
<1> DEFINE l == Len(left[w])
           f == FetcherRank[fetcher[w]]  f2 == FetcherRank[fetcher'[w]]
           v == WatcherRank[watcher[w]]  v2 == WatcherRank[watcher'[w]]
           r == ReaderRank[reader[w]]    r2 == ReaderRank[reader'[w]]
           p == WorkerRank[pc[w]]        p2 == WorkerRank[pc'[w]]
           l2 == Len(left'[w])
<1>l. l \in Nat /\ f \in Nat /\ v \in Nat /\ r \in Nat /\ p \in Nat
  BY StepsLeftType
<1>s. /\ StepsLeft(w) = 3 * l + f + v + r + p
      /\ StepsLeft(w)' = 3 * l2 + f2 + v2 + r2 + p2
  BY DEF StepsLeft
<1> SUFFICES 3 * l2 + f2 + v2 + r2 + p2 < 3 * l + f + v + r + p
  BY <1>s
<1>1. CASE Open(w)
  <2>1. /\ left'[w] = left[w] /\ pc[w] = "open"
        /\ \/ /\ pc'[w] = "take" /\ fetcher'[w] = "fetch" /\ watcher'[w] = "watch"
              /\ reader'[w] = "take"
           \/ /\ pc'[w] = "failed" /\ fetcher'[w] = fetcher[w] /\ watcher'[w] = watcher[w]
              /\ reader'[w] = reader[w]
    BY <1>0, <1>1 DEF Open, AfterFailure, StateTypes
  <2>9. /\ l2 = l /\ p = 6
        /\ \/ p2 = 1 /\ f2 = 2 /\ v2 = 1 /\ r2 = 1
           \/ p2 = 1 /\ f2 = f /\ v2 = v /\ r2 = r
    BY <2>1, Ranks
  <2> HIDE DEF l, f, v, r, p, l2, f2, v2, r2, p2
  <2> QED
    BY <1>l, <2>9
<1>2. CASE FetchEnds(w)
  <2>1. /\ left'[w] = left[w] /\ fetcher[w] = "fetch" /\ fetcher'[w] = "report"
        /\ watcher'[w] = watcher[w] /\ reader'[w] = reader[w] /\ pc'[w] = pc[w]
    BY <1>0, <1>2 DEF FetchEnds, StateTypes
  <2>9. l2 = l /\ f2 = f - 1 /\ v2 = v /\ r2 = r /\ p2 = p
    BY <2>1, Ranks
  <2> HIDE DEF l, f, v, r, p, l2, f2, v2, r2, p2
  <2> QED
    BY <1>l, <2>9
<1>3. CASE ReaderTakes(w)
  <2>1. /\ left[w] # <<>> /\ left'[w] = Tail(left[w]) /\ reader[w] = "take"
        /\ reader'[w] = "offer" /\ fetcher'[w] = fetcher[w] /\ watcher'[w] = watcher[w]
        /\ pc'[w] = pc[w]
    BY <1>0, <1>3 DEF ReaderTakes, StateTypes
  <2>2. Len(left'[w]) = Len(left[w]) - 1
    BY <1>0, <2>1, HeadTailProperties
  <2>9. l2 = l - 1 /\ f2 = f /\ v2 = v /\ r2 = r + 2 /\ p2 = p
    BY <2>1, <2>2, Ranks
  <2> HIDE DEF l, f, v, r, p, l2, f2, v2, r2, p2
  <2> QED
    BY <1>l, <2>9
<1>4. CASE Report(w)
  <2>1. /\ left'[w] = left[w] /\ fetcher[w] = "report" /\ fetcher'[w] = "gone"
        /\ watcher[w] = "watch" /\ watcher'[w] = "gone"
        /\ reader'[w] = reader[w] /\ pc'[w] = pc[w]
    BY <1>0, <1>4 DEF Report, StateTypes
  <2>9. l2 = l /\ f2 = f - 1 /\ v2 = v - 1 /\ r2 = r /\ p2 = p
    BY <2>1, Ranks
  <2> HIDE DEF l, f, v, r, p, l2, f2, v2, r2, p2
  <2> QED
    BY <1>l, <2>9
<1>5. CASE WatcherLeaves(w)
  <2>1. /\ left'[w] = left[w] /\ fetcher'[w] = fetcher[w] /\ watcher[w] = "watch"
        /\ watcher'[w] = "gone" /\ reader'[w] = reader[w] /\ pc'[w] = pc[w]
    BY <1>0, <1>5 DEF WatcherLeaves, StateTypes
  <2>9. l2 = l /\ f2 = f /\ v2 = v - 1 /\ r2 = r /\ p2 = p
    BY <2>1, Ranks
  <2> HIDE DEF l, f, v, r, p, l2, f2, v2, r2, p2
  <2> QED
    BY <1>l, <2>9
<1>6. CASE ReaderEnds(w)
  <2>1. /\ left'[w] = left[w] /\ fetcher'[w] = fetcher[w] /\ watcher'[w] = watcher[w]
        /\ reader[w] \in {"take", "offer"} /\ reader'[w] = "gone" /\ pc'[w] = pc[w]
    BY <1>0, <1>6 DEF ReaderEnds, ReaderMayEnd, MsgsClosed, StateTypes
  <2>9. l2 = l /\ f2 = f /\ v2 = v /\ r2 < r /\ r2 \in Int /\ p2 = p
    BY <2>1, Ranks
  <2> HIDE DEF l, f, v, r, p, l2, f2, v2, r2, p2
  <2> QED
    BY <1>l, <2>9
<1>7. CASE WorkerStep(w)
  <2>1. /\ left'[w] = left[w] /\ fetcher'[w] = fetcher[w] /\ watcher'[w] = watcher[w]
        /\ \/ /\ reader[w] = "offer" /\ reader'[w] = "take"
              /\ pc[w] = "take" /\ pc'[w] = "send"
           \/ reader'[w] = reader[w] /\ pc[w] = "send" /\ pc'[w] = "take"
           \/ /\ reader'[w] = reader[w] /\ pc[w] \in {"take", "send", "failed"}
              /\ pc'[w] = "done"
    BY <1>0, <1>7
    DEF WorkerStep, WorkerTakes, WorkerSends, WorkerEnds, WorkerMayEnd, StateTypes
  <2>9. /\ l2 = l /\ f2 = f /\ v2 = v
        /\ \/ r = 3 /\ r2 = 1 /\ p = 1 /\ p2 = 2
           \/ r2 = r /\ p = 2 /\ p2 = 1
           \/ r2 = r /\ p \in {1, 2} /\ p2 = 0
    BY <2>1, Ranks
  <2> HIDE DEF l, f, v, r, p, l2, f2, v2, r2, p2
  <2> QED
    BY <1>l, <2>9
<1> QED
  BY <1>1, <1>2, <1>3, <1>4, <1>5, <1>6, <1>7 DEF BucketStep, FetchStep, WatchStep

(* A fetch ends for every number of mails and workers: with FetchNeverStuck *)
(* this is why Run gets to the end of the mails, however the steps of the   *)
(* goroutines interleave.                                                   *)
THEOREM FetchStepsRunOut ==
  ServiceSpec => [](\A w \in Worker : StepsLeft(w) \in Nat) /\ StepsRunOut
<1>1. FetchTypeOK => \A w \in Worker : StepsLeft(w) \in Nat
  BY StepsLeftType
<1>t. (FetchTypeOK => \A w \in Worker : StepsLeft(w) \in Nat)'
  BY <1>1, PTL
<1>2. FetchTypeOK /\ FetchTypeOK' /\ [ServiceNext]_serviceVars =>
        [\A w \in Worker : /\ StepsLeft(w)' <= StepsLeft(w)
                           /\ BucketStep(w) => StepsLeft(w)' < StepsLeft(w)]_vars
  <2> SUFFICES ASSUME FetchTypeOK, FetchTypeOK', FetchMoves, NEW w \in Worker
               PROVE  /\ StepsLeft(w)' <= StepsLeft(w)
                      /\ BucketStep(w) => StepsLeft(w)' < StepsLeft(w)
    BY ServiceMoves
  <2>1. StepsLeft(w) \in Nat /\ StepsLeft(w)' \in Nat
    BY <1>1, <1>t
  <2>2. BucketStep(w) => StepsLeft(w)' < StepsLeft(w)
    BY OwnStepsRunOut
  <2>3. CASE UNCHANGED <<fetcher[w], left[w], fetchErr[w], watcher[w], reader[w], read[w],
                         pc[w], hand[w], bucketDone[w]>>
    <3>1. StepsLeft(w)' = StepsLeft(w)
      BY <2>3 DEF StepsLeft
    <3> QED
      BY <2>1, <2>2, <3>1
  <2> QED
    BY <2>1, <2>2, <2>3, OwnBucket
<1> QED
  BY <1>1, <1>2, FetchTypeCorrect, PTL DEF ServiceSpec, StepsRunOut
=============================================================================
