------------------------------ MODULE MailFetch ------------------------------
(***************************************************************************)
(* GetMessagesFromMailbox (internal/services/mailserv/service.go) after    *)
(* its search: the sequence numbers found are dealt out to workers, each   *)
(* with a connection of its own, and the mails reach Sync.Run through a    *)
(* chain of goroutines and channels:                                       *)
(*                                                                         *)
(*   fetcher --messages--> reader --msgs--> worker --out (buffered)--> Run *)
(*      |                                                                  *)
(*      +--errCh--> watcher                                                *)
(*                                                                         *)
(* An unbuffered channel is a step of sender and receiver together.  Three *)
(* contexts can end the chain: the mail time slot (slotDone), the one the  *)
(* closer cancels (poolDone) and one per bucket (bucketDone), which its    *)
(* watcher cancels.                                                        *)
(***************************************************************************)
EXTENDS Buckets, FiniteSets

CONSTANTS
  Ids,    \* what Search returned
  Cpus,   \* runtime.NumCPU()
  Faults

Kinds == {"slot",   \* the time slot runs out or the run is cancelled
          "list",   \* List fails
          "select", \* Select on a connection, or Search, fails
          "fetch"}  \* Fetch ends early with an error

Id     == {Ids[i] : i \in DOMAIN Ids}
Worker == 1..Routines(Cpus, Ids)
Bucket == Split(Routines(Cpus, Ids), Ids)

ASSUME FetchAssumption ==
  /\ Ids \in Seq(Nat)
  /\ \A i, j \in DOMAIN Ids : Ids[i] = Ids[j] => i = j
  /\ Cpus \in Nat \ {0} /\ Faults \subseteq Kinds

VARIABLES
  fetcher, left,  \* per bucket: state of the Fetch, mails it still has
  fetchErr,       \* per bucket: Select or Fetch failed
  watcher,
  reader, read,   \* per bucket: the reader and the result it offers
  pc, hand,       \* per bucket: the worker and the result it has taken
  slotDone, poolDone, bucketDone,
  out, closed, got

source == <<fetcher, left, fetchErr>>
middle == <<reader, read, pc, hand>>
ctxs   == <<slotDone, poolDone, bucketDone>>
chan   == <<out, closed, got>>
vars   == <<source, watcher, middle, ctxs, chan>>

PoolDone == slotDone \/ poolDone
Done(w)  == PoolDone \/ bucketDone[w]
Fault(k) == k \in Faults

Set(f, w, v) == [f EXCEPT ![w] = v]

Nothing == 0

Init ==
  /\ fetcher = [w \in Worker |-> "off"] /\ left = Bucket
  /\ fetchErr = [w \in Worker |-> FALSE]
  /\ watcher = [w \in Worker |-> "off"]
  /\ reader = [w \in Worker |-> "off"] /\ read = [w \in Worker |-> Nothing]
  /\ pc = [w \in Worker |-> "open"] /\ hand = [w \in Worker |-> Nothing]
  /\ slotDone = FALSE /\ poolDone = FALSE
  /\ bucketDone = [w \in Worker |-> FALSE]
  /\ out = <<>> /\ closed = FALSE /\ got = <<>>

-----------------------------------------------------------------------------
(* Opening the bucket's own connection; no context is looked at. *)

(* Mutant: a connection that cannot be opened is tried again. *)
Again == "open"
AfterFailure == "failed"

Open(w) ==
  /\ pc[w] = "open"
  /\ \/ /\ pc' = Set(pc, w, "take")
        /\ fetcher' = Set(fetcher, w, "fetch") /\ watcher' = Set(watcher, w, "watch")
        /\ reader' = Set(reader, w, "take")
        /\ UNCHANGED fetchErr
     \/ /\ Fault("select")
        /\ fetchErr' = Set(fetchErr, w, TRUE) /\ pc' = Set(pc, w, AfterFailure)
        /\ UNCHANGED <<fetcher, watcher, reader>>
  /\ UNCHANGED <<left, read, hand, ctxs, chan>>

(* Fetch closes messages when it ends, then its error is reported. *)
FetchEnds(w) ==
  /\ fetcher[w] = "fetch"
  /\ \/ left[w] = <<>> /\ UNCHANGED fetchErr
     \/ Fault("fetch") /\ fetchErr' = Set(fetchErr, w, TRUE)
  /\ fetcher' = Set(fetcher, w, "report")
  /\ UNCHANGED <<left, watcher, middle, ctxs, chan>>

(* Mutant: the watcher of a failed bucket cancels the context of them all. *)
AllCancelled(w) == Worker
CancelledBy(w) == {w}

Report(w) ==
  /\ fetcher[w] = "report" /\ watcher[w] = "watch"
  /\ fetcher' = Set(fetcher, w, "gone") /\ watcher' = Set(watcher, w, "gone")
  /\ bucketDone' = [v \in Worker |-> bucketDone[v] \/ (fetchErr[w] /\ v \in CancelledBy(w))]
  /\ UNCHANGED <<left, fetchErr, middle, slotDone, poolDone, chan>>

WatcherLeaves(w) ==
  /\ watcher[w] = "watch" /\ Done(w)
  /\ watcher' = Set(watcher, w, "gone")
  /\ UNCHANGED <<source, middle, ctxs, chan>>

-----------------------------------------------------------------------------
(* getCompleteMessages.  A mail whose body cannot be read travels on as an  *)
(* error result in the same way; here a result is the mail it is about.     *)

ReaderTakes(w) ==
  /\ reader[w] = "take" /\ fetcher[w] = "fetch" /\ left[w] # <<>>
  /\ read' = Set(read, w, Head(left[w]))
  /\ left' = Set(left, w, Tail(left[w]))
  /\ reader' = Set(reader, w, "offer")
  /\ UNCHANGED <<fetcher, fetchErr, watcher, pc, hand, ctxs, chan>>

(* Mutant: a cancelled reader does not close msgs. *)
LeftOpen(w) == IF Done(w) THEN "off" ELSE "gone"
MsgsClosed(w) == "gone"

ReaderMayEnd(w) ==
  \/ reader[w] \in {"take", "offer"} /\ Done(w)
  \/ reader[w] = "take" /\ fetcher[w] \notin {"off", "fetch"}

(* Either way msgs is closed. *)
ReaderEnds(w) ==
  /\ ReaderMayEnd(w)
  /\ reader' = Set(reader, w, MsgsClosed(w))
  /\ UNCHANGED <<source, watcher, read, pc, hand, ctxs, chan>>

WorkerTakes(w) ==
  /\ pc[w] = "take" /\ reader[w] = "offer"
  /\ hand' = Set(hand, w, read[w])
  /\ pc' = Set(pc, w, "send") /\ reader' = Set(reader, w, "take")
  /\ UNCHANGED <<source, watcher, read, ctxs, chan>>

-----------------------------------------------------------------------------
(* The workers, the closer, and the loop of Run. *)

Room == Len(out) < Cardinality(Worker)

WorkerSends(w) ==
  /\ pc[w] = "send" /\ Room
  /\ out' = Append(out, hand[w])
  /\ pc' = Set(pc, w, "take")
  /\ UNCHANGED <<source, watcher, reader, read, hand, ctxs, closed, got>>

WorkerMayEnd(w) ==
  \/ pc[w] \in {"take", "send"} /\ PoolDone
  \/ pc[w] = "take" /\ reader[w] = "gone"
  \/ pc[w] = "failed"

WorkerEnds(w) ==
  /\ WorkerMayEnd(w)
  /\ pc' = Set(pc, w, "done")
  /\ UNCHANGED <<source, watcher, reader, read, hand, ctxs, chan>>

(* Mutant: the closer waits for one worker only. *)
OneDone == \E w \in Worker : pc[w] = "done"
AllDone == \A w \in Worker : pc[w] = "done"

Close ==
  /\ ~closed /\ AllDone
  /\ closed' = TRUE
  /\ UNCHANGED <<source, watcher, middle, ctxs, out, got>>

CancelPool ==
  /\ closed /\ ~poolDone
  /\ poolDone' = TRUE
  /\ UNCHANGED <<source, watcher, middle, slotDone, bucketDone, chan>>

Receive ==
  /\ out # <<>>
  /\ got' = Append(got, Head(out)) /\ out' = Tail(out)
  /\ UNCHANGED <<source, watcher, middle, ctxs, closed>>

SlotExpires ==
  /\ Fault("slot") /\ ~slotDone
  /\ slotDone' = TRUE
  /\ UNCHANGED <<source, watcher, middle, poolDone, bucketDone, chan>>

-----------------------------------------------------------------------------
Ranged == closed /\ out = <<>>

Finished == Ranged /\ UNCHANGED vars

FetchStep(w)  == FetchEnds(w) \/ ReaderTakes(w)
WatchStep(w)  == Report(w) \/ WatcherLeaves(w)
WorkerStep(w) == WorkerTakes(w) \/ WorkerSends(w) \/ WorkerEnds(w)
BucketStep(w) == Open(w) \/ FetchStep(w) \/ WatchStep(w) \/ ReaderEnds(w) \/ WorkerStep(w)

Next ==
  \/ \E w \in Worker : BucketStep(w)
  \/ Close \/ CancelPool \/ Receive \/ SlotExpires \/ Finished

Spec == Init /\ [][Next]_vars

-----------------------------------------------------------------------------
(* Properties. *)

Delivered == out \o got
Seen      == {Delivered[i] : i \in DOMAIN Delivered}
Dealt(w)  == {Bucket[w][i] : i \in DOMAIN Bucket[w]}

(* Mails a worker may still send. *)
Underway(w) == IF pc[w] = "done" THEN {} ELSE Dealt(w) \ Seen

(* The channel keeps the promise Run relies on: no mail twice, none left    *)
(* out without a failure or a cancellation, closed when all is settled.     *)
Stream == INSTANCE ResultStream WITH
  Job      <- Id,
  open     <- UNION {Underway(w) : w \in Worker},
  answered <- Seen,
  excused  <- slotDone \/ \E w \in Worker : fetchErr[w],
  closed   <- closed
StreamSpec == Stream!Spec

(* When Run has ranged over the results, a bucket that did not fail itself  *)
(* has delivered every mail, whatever happened to the others: only the end  *)
(* of the time slot cuts across buckets.                                    *)
LossStaysInBucket ==
  Ranged /\ ~slotDone => \A w \in Worker : ~fetchErr[w] => Dealt(w) \subseteq Seen

(* The bucket waits for the server, or one of its goroutines has a step to  *)
(* take: a mail goes on along the chain, or the end of the chain does.      *)
AwaitsServer(w) == pc[w] = "open" \/ (fetcher[w] = "fetch" /\ reader[w] = "take" /\ ~slotDone)
CanGo(w) ==
  \/ ReaderMayEnd(w) \/ WorkerMayEnd(w)
  \/ pc[w] = "take" /\ reader[w] = "offer"
  \/ pc[w] = "send" /\ Room

(* Until Run has all there is, it or a bucket can go on: no goroutine waits *)
(* on a channel that nobody will close, or for a context that nobody will   *)
(* cancel.                                                                  *)
NobodyStuck ==
  Ranged \/ out # <<>> \/ (AllDone /\ ~closed) \/ \E w \in Worker : AwaitsServer(w) \/ CanGo(w)

(* The steps that the goroutines of a bucket have left at most. *)
FetcherRank == [off |-> 0, fetch |-> 2, report |-> 1, gone |-> 0]
WatcherRank == [off |-> 0, watch |-> 1, gone |-> 0]
ReaderRank == [off |-> 0, take |-> 1, offer |-> 3, gone |-> 0]
WorkerRank == [open |-> 6, take |-> 1, send |-> 2, failed |-> 1, done |-> 0]
StepsLeft(w) ==
  3 * Len(left[w]) + FetcherRank[fetcher[w]] + WatcherRank[watcher[w]] + ReaderRank[reader[w]]
    + WorkerRank[pc[w]]

(* Nor does a bucket go round in circles: whatever ends a fetch early, each *)
(* step of one of its goroutines brings it nearer to its end.               *)
StepsRunOut ==
  [][\A w \in Worker : /\ StepsLeft(w)' <= StepsLeft(w)
                       /\ BucketStep(w) => StepsLeft(w)' < StepsLeft(w)]_vars

(* No mail is delivered twice, so none is registered twice in one run. *)
DeliveredOnce == Len(Delivered) = Cardinality(Seen)
=============================================================================
