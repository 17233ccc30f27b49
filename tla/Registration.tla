---------------------------- MODULE Registration ----------------------------
(***************************************************************************)
(* The registering of a run as MailSync has it, one transaction after the  *)
(* other and each in one step: it is entered, it fails before an entry is  *)
(* made, or it is entered and the answer is an error.  In the program it   *)
(* is a pool of workers, a dozen calls for each transaction, caches and a  *)
(* channel (AccountingPool).                                               *)
(***************************************************************************)
EXTENDS Naturals

CONSTANTS
  Trx,
  Mail, MailOf,  \* per transaction: what has the entry
  DryRuns,
  MayFail,       \* a call before the entry may fail
  MayLoseAck     \* an entry may be made and the answer lost

VARIABLES
  trxs,        \* not decided yet
  ok, failed,
  entries,
  dryRun, ctxDone,
  over

vars == <<trxs, ok, failed, entries, dryRun, ctxDone, over>>

Init ==
  /\ trxs = Trx /\ ok = {} /\ failed = {} /\ entries = [m \in Mail |-> 0]
  /\ dryRun \in DryRuns /\ ctxDone = FALSE /\ over = FALSE

AddEntry(t) == entries' = [entries EXCEPT ![MailOf[t]] = @ + 1]

RegisterOk(t) ==
  /\ t \in trxs /\ trxs' = trxs \ {t}
  /\ ok' = ok \cup {t}
  /\ IF dryRun THEN UNCHANGED entries ELSE AddEntry(t)
  /\ UNCHANGED <<failed, dryRun, ctxDone, over>>

RegisterFail(t) ==
  /\ MayFail \/ ctxDone
  /\ t \in trxs /\ trxs' = trxs \ {t}
  /\ failed' = failed \cup {t}
  /\ UNCHANGED <<ok, entries, dryRun, ctxDone, over>>

RegisterLostAck(t) ==
  /\ MayLoseAck /\ ~dryRun
  /\ t \in trxs /\ trxs' = trxs \ {t}
  /\ failed' = failed \cup {t} /\ AddEntry(t)
  /\ UNCHANGED <<ok, dryRun, ctxDone, over>>

Cancel ==
  /\ ctxDone' = TRUE
  /\ UNCHANGED <<trxs, ok, failed, entries, dryRun, over>>

(* Only the end of the context leaves transactions without a result. *)
Abandon(left) ==
  /\ ctxDone /\ left \subseteq trxs
  /\ trxs' = trxs \ left
  /\ UNCHANGED <<ok, failed, entries, dryRun, ctxDone, over>>

RegisterDone ==
  /\ trxs = {} /\ over' = TRUE
  /\ UNCHANGED <<trxs, ok, failed, entries, dryRun, ctxDone>>

Next ==
  \/ \E t \in trxs : RegisterOk(t) \/ RegisterFail(t) \/ RegisterLostAck(t)
  \/ \E left \in SUBSET trxs : Abandon(left)
  \/ Cancel \/ RegisterDone

Spec == Init /\ [][Next]_vars
=============================================================================
