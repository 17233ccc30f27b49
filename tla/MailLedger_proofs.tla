--------------------------- MODULE MailLedger_proofs ---------------------------
(***************************************************************************)
(* Further proofs about MailSync: what a run leaves in the mailboxes, the  *)
(* ledger, the reports and the stored date, that the runs implement        *)
(* MailLedger where nothing fails between an entry and its archiving, and  *)
(* what it costs when something does.                                      *)
(***************************************************************************)
EXTENDS MailSync_proofs, MailRepeats

-----------------------------------------------------------------------------
(* A dry run leaves no trace. *)

(* Of the steps of a run only the moves, the registration, the saving and   *)
(* the reports write anything outside it, and each looks at dryRun.         *)
THEOREM DryRunIsTraceless == Spec => DryRunLeavesNoTrace
<1>1. ASSUME pc # "idle", dryRun, [Next]_vars
      PROVE  UNCHANGED <<successBox, errorBox, books>>
  <2>1. CASE Environment
    BY <2>1 DEF Environment, Arrive, Tick, ForeignExpunge, Deadline, Crash, boxes
  <2>2. CASE RunStarts
    BY <1>1, <2>2 DEF RunStarts, HandleRequest, Main, Start
  <2>3. CASE Configure \/ GetLastProcessedDate \/ MailSanityCheck \/ SetupError \/ Search
    BY <2>3 DEF Configure, GetLastProcessedDate, MailSanityCheck, SetupError, Search, boxes
  <2>4. CASE \E i \in pending : FetchOne(i) \/ FetchPanics(i) \/ FetchFail(i)
    BY <2>4 DEF FetchOne, FetchPanics, FetchFail, boxes
  <2>5. CASE FetchDone \/ RegisterDone
    BY <2>5 DEF FetchDone, RegisterDone, boxes
  <2>6. CASE \E t \in trxs : RegisterOk(t) \/ RegisterFail(t) \/ RegisterLostAck(t) \/ Abandon(t)
    BY <1>1, <2>6
    DEF RegisterOk, RegisterFail, NoteFailed, RegisterLostAck, Abandon, boxes, books
  <2>7. CASE MoveParseFailed \/ MoveSuccessful
    BY <1>1, <2>7 DEF MoveParseFailed, MoveSuccessful, ArchiveAll, ArchiveErrs, boxes
  <2>8. CASE Save \/ Notify
    BY <1>1, <2>8 DEF Save, MaySave, Notify, boxes, books
  <2>9. CASE UNCHANGED vars
    BY <2>9 DEF vars, boxes
  <2> QED
    BY <1>1, <2>1, <2>2, <2>3, <2>4, <2>5, <2>6, <2>7, <2>8, <2>9 DEF Next, RunStep
<1>2. [Next]_vars => [pc # "idle" /\ dryRun => UNCHANGED <<successBox, errorBox, books>>]_vars
  BY <1>1
<1> QED
  BY <1>2, PTL DEF Spec, DryRunLeavesNoTrace

-----------------------------------------------------------------------------
(* A report counts only what was entered, under every fault. *)

(* What a run that has not gone further yet has no result of. *)
BooksInv == TypeOK /\ Stages /\ OkIsEntered /\ ReportedIsEntered

(* Steps that leave results, ledger and reports alone. *)
LEMMA BooksFrame ==
  ASSUME OkIsEntered, ReportedIsEntered, UNCHANGED <<dryRun, ok, entries, reported>>
  PROVE  OkIsEntered' /\ ReportedIsEntered'
BY DEF OkIsEntered, ReportedIsEntered

(* The phases in which nothing is collected, for every step of a run. *)
LEMMA StagesNext == Stages /\ [Next]_vars => Stages'
<1> SUFFICES ASSUME Stages, [Next]_vars PROVE Stages'
  OBVIOUS
<1> USE DEF Stages
<1>1. CASE Environment
  BY <1>1, EndRunInv DEF Environment, Arrive, Tick, ForeignExpunge, Deadline, Crash, work
<1>2. CASE RunStarts
  BY <1>2 DEF RunStarts, HandleRequest, Main, Start, work
<1>3. CASE Configure \/ GetLastProcessedDate \/ MailSanityCheck
  BY <1>3 DEF Configure, GetLastProcessedDate, MailSanityCheck, work
<1>4. CASE Search
  BY <1>4 DEF Search
<1>5. CASE SetupError \/ Notify \/ \E i \in pending : FetchPanics(i)
  BY <1>5 DEF SetupError, Notify, FetchPanics, EndRun
<1>6. CASE \E i \in pending : FetchOne(i) \/ FetchFail(i)
  BY <1>6 DEF FetchOne, FetchFail
<1>7. CASE FetchDone \/ RegisterDone \/ Save \/ MoveSuccessful
  BY <1>7 DEF FetchDone, RegisterDone, Save, MoveSuccessful, ArchiveAll, ArchiveErrs, work
<1>8. CASE MoveParseFailed
  BY <1>8 DEF MoveParseFailed, EndRun, work
<1>9. CASE \E t \in trxs : RegisterOk(t) \/ RegisterFail(t) \/ RegisterLostAck(t) \/ Abandon(t)
  BY <1>9 DEF RegisterOk, RegisterFail, RegisterLostAck, Abandon
<1>10. CASE UNCHANGED vars
  BY <1>10 DEF vars, work
<1> QED
  BY <1>1, <1>2, <1>3, <1>4, <1>5, <1>6, <1>7, <1>8, <1>9, <1>10 DEF Next, RunStep

(* What registering one transaction does to the ledger. *)
LEMMA RegisterEntries ==
  ASSUME TypeOK, NEW t \in trxs,
         RegisterOk(t) \/ RegisterFail(t) \/ RegisterLostAck(t) \/ Abandon(t)
  PROVE  /\ t.msg \in Msg
         /\ entries' = entries \/ (~dryRun /\ entries' = [entries EXCEPT ![t.msg] = @ + 1])
         /\ \A m \in Msg : entries[m] \in Nat /\ entries'[m] \in Nat /\ entries'[m] >= entries[m]
         /\ ok' = ok \/ (RegisterOk(t) /\ ok' = ok \cup {t})
         /\ RegisterOk(t) /\ ~dryRun => entries'[t.msg] = entries[t.msg] + 1
<1>1. t.msg \in Msg
  BY DEF TypeOK, WorkTypeOK, Handle
<1>2. entries \in [Msg -> Nat]
  BY DEF TypeOK, BookTypeOK
<1>3. entries' = entries \/ (~dryRun /\ entries' = [entries EXCEPT ![t.msg] = @ + 1])
  BY DEF RegisterOk, RegisterFail, NoteFailed, RegisterLostAck, Abandon, books
<1>4. ok' = ok \/ (RegisterOk(t) /\ ok' = ok \cup {t})
  BY DEF RegisterOk, RegisterFail, NoteFailed, RegisterLostAck, Abandon
<1>5. RegisterOk(t) /\ ~dryRun => entries'[t.msg] = entries[t.msg] + 1
  BY <1>1, <1>2 DEF RegisterOk
<1> QED
  BY <1>1, <1>2, <1>3, <1>4, <1>5

LEMMA BooksNext == BooksInv /\ [Next]_vars => BooksInv'
<1> SUFFICES ASSUME BooksInv, [Next]_vars PROVE OkIsEntered' /\ ReportedIsEntered'
  BY StagesNext, TypeEnvironment, TypeRunStep, TypeStutter, StartsAre DEF BooksInv, Next
<1> USE DEF BooksInv
<1>1. CASE EndRun /\ UNCHANGED <<entries, reported>>
  BY <1>1 DEF EndRun, OkIsEntered, ReportedIsEntered
<1>2. CASE RunStarts
  <2>1. ok' = {} /\ UNCHANGED <<entries, reported>>
    BY <1>2 DEF RunStarts, HandleRequest, Main, Start, Stages, work, books
  <2> QED
    BY <2>1 DEF OkIsEntered, ReportedIsEntered
<1>3. ASSUME NEW t \in trxs,
             RegisterOk(t) \/ RegisterFail(t) \/ RegisterLostAck(t) \/ Abandon(t)
      PROVE  OkIsEntered' /\ ReportedIsEntered'
  <2>1. UNCHANGED <<dryRun, reported>>
    BY <1>3 DEF RegisterOk, RegisterFail, RegisterLostAck, Abandon, head, books
  <2>2. reported \subseteq Msg /\ \A h \in ok : h.msg \in Msg
    BY DEF TypeOK, BookTypeOK, WorkTypeOK, Handle
  <2>3. ReportedIsEntered'
    BY <1>3, <2>1, <2>2, RegisterEntries DEF ReportedIsEntered
  <2>4. ASSUME ~dryRun, NEW h \in ok' PROVE entries'[h.msg] >= 1
    <3>1. CASE h \in ok
      BY <1>3, <2>2, <2>4, <3>1, RegisterEntries DEF OkIsEntered
    <3>2. CASE RegisterOk(t) /\ h = t
      BY <1>3, <2>4, <3>2, RegisterEntries
    <3> QED
      BY <1>3, <2>4, <3>1, <3>2, RegisterEntries
  <2> QED
    BY <2>1, <2>3, <2>4 DEF OkIsEntered
<1>4. CASE Notify
  <2>1. EndRun /\ UNCHANGED entries
    BY <1>4 DEF Notify
  <2>2. reported' = reported \/ (~dryRun /\ reported' \subseteq reported \cup Msgs(ok))
    BY <1>4 DEF Notify, Registries
  <2>3. \A m \in reported' : entries[m] >= 1
    BY <2>2 DEF OkIsEntered, ReportedIsEntered, Msgs
  <2> QED
    BY <2>1, <2>3 DEF EndRun, OkIsEntered, ReportedIsEntered
<1>5. CASE UNCHANGED <<dryRun, ok, entries, reported>>
  BY <1>5, BooksFrame
<1>6. CASE Environment
  BY <1>1, <1>5, <1>6
  DEF Environment, Arrive, Tick, ForeignExpunge, Deadline, Crash, books, head, work
<1>7. CASE Configure \/ GetLastProcessedDate \/ MailSanityCheck \/ SetupError \/ Search
  BY <1>1, <1>5, <1>7
  DEF Configure, GetLastProcessedDate, MailSanityCheck, SetupError, Search, books, head, work
<1>8. CASE \E i \in pending : FetchOne(i) \/ FetchPanics(i) \/ FetchFail(i)
  BY <1>1, <1>5, <1>8 DEF FetchOne, FetchPanics, FetchFail, books, head
<1>9. CASE FetchDone \/ RegisterDone \/ MoveParseFailed \/ MoveSuccessful \/ Save
  BY <1>1, <1>5, <1>9
  DEF FetchDone, RegisterDone, MoveParseFailed, MoveSuccessful, ArchiveAll, ArchiveErrs, Save,
      books, head, work
<1>10. CASE UNCHANGED vars
  BY <1>5, <1>10 DEF vars, books, head, work
<1> QED
  BY <1>2, <1>3, <1>4, <1>6, <1>7, <1>8, <1>9, <1>10 DEF Next, RunStep

(* No report counts a mail without an entry, whatever fails: the list of    *)
(* successful results is only ever extended together with the ledger.       *)
THEOREM ReportsAreTrue == Spec => []ReportedIsEntered
<1>1. Init => BooksInv
  BY TypeInit DEF Init, BooksInv, Stages, OkIsEntered, ReportedIsEntered
<1>2. BooksInv => ReportedIsEntered
  BY DEF BooksInv
<1> QED
  BY <1>1, <1>2, BooksNext, PTL DEF Spec

-----------------------------------------------------------------------------
(* No mail is entered twice where nothing fails after the entry. *)

(* The instances in which a mail that was entered is archived by the same   *)
(* run: no move fails or names another mail, no answer is lost, the process *)
(* does not die.  Deadlines, lost fetches, refusals, an override of the     *)
(* date and deletions between two runs are allowed.                         *)
OnceInstance ==
  /\ ~Fault("moveFail") /\ ~Fault("lostAck") /\ ~Fault("crash") /\ ~Fault("expunge")
  /\ Unparsable = {}

(* A mail with an entry has left the INBOX, or is about to. *)
EnteredIsGone ==
  \A m \in inbox : entries[m] >= 1 =>
    ~dryRun /\ pc \in {"register", "moveSuccess"} /\ m \in Msgs(ok)

(* What is still to be registered has no result yet. *)
NoneTwice == \A t \in trxs, h \in ok : t.msg # h.msg

(* Only mails that arrived are entered. *)
EnteredArrived == \A m \in Msg : entries[m] >= 1 => m <= arrived

OnceInv ==
  /\ BooksInv /\ HandlesFresh
  /\ EnteredIsGone /\ NoneTwice /\ EnteredArrived /\ AtMostOnce

(* Sequence numbers stay good for as long as a run uses them. *)
LEMMA FreshNext ==
  ASSUME ~Fault("expunge"), Unparsable = {}, TypeOK, Stages, HandlesFresh, [Next]_vars
  PROVE  HandlesFresh'
<1>1. CASE EndRun
  BY <1>1, EndRunInv
<1>2. CASE UNCHANGED <<inbox, parseFailed>> /\ Handles' \subseteq Handles
           /\ (pc \in {"save", "notify"} => pc' \in {"save", "notify"})
  BY <1>2, FrameFresh
<1>3. CASE Environment
  <2>1. CASE Arrive
    <3>1. \A m \in inbox : m \in inbox' /\ SeqNum(m)' = SeqNum(m)
      BY <2>1, SeqNumArrive DEF Arrive
    <3> QED
      BY <2>1, <3>1 DEF Arrive, HandlesFresh, Handles, work
  <2>2. CASE ForeignExpunge
    <3>1. pc' = "idle" /\ Handles' = {} /\ parseFailed' = {}
      BY <2>2 DEF ForeignExpunge, Stages, Handles, HandlesFresh, work
    <3> QED
      BY <3>1 DEF HandlesFresh
  <2> QED
    BY <1>1, <1>2, <1>3, <2>1, <2>2
    DEF Environment, Tick, Deadline, Crash, boxes, work, Handles
<1>4. CASE RunStarts \/ Configure \/ GetLastProcessedDate \/ MailSanityCheck \/ SetupError \/ Search
  BY <1>1, <1>2, <1>4
  DEF RunStarts, HandleRequest, Main, Start, Configure, GetLastProcessedDate,
      MailSanityCheck, SetupError, Search, boxes, work, Handles
<1>5. ASSUME NEW i \in pending, FetchOne(i) PROVE HandlesFresh'
  <2> DEFINE caught == {[id |-> i, msg |-> m] : m \in Named({i}) \cap Parsable}
  <2>1. trxs' = trxs \cup caught /\ UNCHANGED <<ok, failed, parseFailed, inbox>>
        /\ pc = "fetch" /\ pc' = "fetch"
    BY <1>5 DEF FetchOne, boxes
  <2>2. \A h \in caught : h.msg \in inbox /\ h.id = SeqNum(h.msg)
    BY DEF Named
  <2> QED
    BY <2>1, <2>2, SeqNumSame DEF HandlesFresh, Handles
<1>6. CASE (\E i \in pending : FetchPanics(i) \/ FetchFail(i)) \/ FetchDone \/ RegisterDone
  BY <1>1, <1>2, <1>6
  DEF FetchPanics, FetchFail, FetchDone, RegisterDone, boxes, work, Handles
<1>7. CASE MoveParseFailed
  BY <1>2, <1>7 DEF MoveParseFailed, HandlesFresh, boxes, work, Handles
<1>8. CASE \E t \in trxs : RegisterOk(t) \/ RegisterFail(t) \/ RegisterLostAck(t) \/ Abandon(t)
  BY <1>2, <1>8
  DEF RegisterOk, RegisterFail, NoteFailed, RegisterLostAck, Abandon, boxes, Handles
<1>9. CASE MoveSuccessful
  BY <1>9 DEF MoveSuccessful, ArchiveAll, ArchiveErrs, HandlesFresh, work
<1>10. CASE Save \/ Notify \/ UNCHANGED vars
  BY <1>1, <1>2, <1>10 DEF Save, Notify, vars, boxes, work, Handles
<1> QED
  BY <1>3, <1>4, <1>5, <1>6, <1>7, <1>8, <1>9, <1>10 DEF Next, RunStep

(* Steps that make no entry, add no mail to the INBOX and do not turn back  *)
(* from registering.                                                        *)
LEMMA OnceFrame ==
  ASSUME EnteredIsGone, NoneTwice, EnteredArrived, AtMostOnce,
         UNCHANGED <<entries, arrived>>, inbox' \subseteq inbox,
         \/ trxs' \subseteq trxs /\ ok' \subseteq ok
         \/ ok' = {},
         \/ pc \notin {"register", "moveSuccess"}
         \/ pc' \in {"register", "moveSuccess"} /\ UNCHANGED <<dryRun, ok>>
  PROVE  EnteredIsGone' /\ NoneTwice' /\ EnteredArrived' /\ AtMostOnce'
<1>1. EnteredIsGone'
  <2> SUFFICES ASSUME NEW m \in inbox', entries[m] >= 1
               PROVE  ~dryRun' /\ pc' \in {"register", "moveSuccess"} /\ m \in Msgs(ok')
    BY DEF EnteredIsGone, Msgs
  <2>1. ~dryRun /\ pc \in {"register", "moveSuccess"} /\ m \in Msgs(ok)
    BY DEF EnteredIsGone
  <2> QED
    BY <2>1
<1>2. NoneTwice'
  BY DEF NoneTwice
<1>3. EnteredArrived' /\ AtMostOnce'
  BY DEF EnteredArrived, AtMostOnce
<1> QED
  BY <1>1, <1>2, <1>3

(* Registering one transaction of a run whose handles are fresh. *)
LEMMA OnceRegister ==
  ASSUME OnceInstance, OnceInv, NEW t \in trxs,
         RegisterOk(t) \/ RegisterFail(t) \/ RegisterLostAck(t) \/ Abandon(t)
  PROVE  EnteredIsGone' /\ NoneTwice' /\ EnteredArrived' /\ AtMostOnce'
<1> USE DEF OnceInv, BooksInv
<1>1. pc = "register" /\ UNCHANGED <<pc, dryRun, inbox, arrived>> /\ trxs' = trxs \ {t}
  BY DEF RegisterOk, RegisterFail, RegisterLostAck, Abandon, head, boxes, mail
<1>2. CASE UNCHANGED <<entries, ok>>
  BY <1>1, <1>2, OnceFrame
<1>3. CASE RegisterOk(t)
  <2>1. ok' = ok \cup {t} /\ entries \in [Msg -> Nat] /\ t.msg \in Msg /\ arrived \in Nat
    BY <1>3, ParameterAssumption
    DEF RegisterOk, TypeOK, BookTypeOK, MailTypeOK, WorkTypeOK, Handle
  <2>2. t.msg \in inbox /\ t.msg \in 1..arrived
    BY <1>1 DEF HandlesFresh, Handles, TypeOK, BoxTypeOK
  <2>3. \A u \in trxs : u.msg = t.msg => u = t
    <3>1. \A u \in trxs : u \in Handle /\ u.id = SeqNum(u.msg)
      BY <1>1 DEF HandlesFresh, Handles, TypeOK, WorkTypeOK
    <3> QED
      BY <3>1 DEF Handle
  <2>4. NoneTwice'
    BY <1>1, <2>1, <2>3 DEF NoneTwice
  <2>5. CASE dryRun
    <3>1. entries' = entries
      BY <1>3, <2>5 DEF RegisterOk
    <3> QED
      BY <1>1, <2>4, <2>5, <3>1 DEF EnteredIsGone, EnteredArrived, AtMostOnce
  <2>6. CASE ~dryRun
    <3>1. entries' = [entries EXCEPT ![t.msg] = @ + 1]
      BY <1>3, <2>6 DEF RegisterOk
    <3>2. entries[t.msg] = 0
      <4>1. t.msg \notin Msgs(ok)
        BY DEF NoneTwice, Msgs
      <4> QED
        BY <2>1, <2>2, <4>1 DEF EnteredIsGone
    <3>3. AtMostOnce' /\ EnteredArrived'
      BY <1>1, <2>1, <2>2, <3>1, <3>2 DEF AtMostOnce, EnteredArrived
    <3>4. EnteredIsGone'
      <4> SUFFICES ASSUME NEW m \in inbox, entries'[m] >= 1 PROVE m \in Msgs(ok')
        BY <1>1, <2>6 DEF EnteredIsGone, Msgs
      <4>1. m \in Msg
        BY <1>1, ParameterAssumption DEF TypeOK, MailTypeOK, BoxTypeOK, Msg
      <4>2. CASE m = t.msg
        BY <2>1, <4>2 DEF Msgs
      <4>3. CASE m # t.msg
        BY <2>1, <3>1, <4>1, <4>3 DEF EnteredIsGone, Msgs
      <4> QED
        BY <4>2, <4>3
    <3> QED
      BY <2>4, <3>3, <3>4
  <2> QED
    BY <2>5, <2>6
<1> QED
  BY <1>2, <1>3 DEF RegisterFail, NoteFailed, RegisterLostAck, Abandon, OnceInstance, books

LEMMA OnceNext == OnceInstance /\ OnceInv /\ [Next]_vars => OnceInv'
<1> SUFFICES ASSUME OnceInstance, OnceInv, [Next]_vars
             PROVE  EnteredIsGone' /\ NoneTwice' /\ EnteredArrived' /\ AtMostOnce'
  BY BooksNext, FreshNext DEF OnceInv, BooksInv, OnceInstance
<1> USE DEF OnceInv, BooksInv
<1>1. CASE Environment
  <2>1. CASE Arrive
    <3>1. arrived \in Nat /\ inbox \subseteq 1..arrived /\ entries[arrived + 1] = 0
      BY <2>1, ParameterAssumption
      DEF Arrive, TypeOK, MailTypeOK, BoxTypeOK, BookTypeOK, EnteredArrived, Msg
    <3>2. inbox' = inbox \cup {arrived + 1} /\ arrived' = arrived + 1
          /\ UNCHANGED <<entries, trxs, ok, pc, dryRun>>
      BY <2>1 DEF Arrive, books, work, head
    <3>3. EnteredArrived'
      BY <3>1, <3>2 DEF EnteredArrived, Msg
    <3>4. EnteredIsGone'
      <4>1. \A m \in inbox' : m \in inbox \/ ~(entries'[m] >= 1)
        BY <3>1, <3>2
      <4>2. UNCHANGED <<entries, dryRun, pc, Msgs(ok)>>
        BY <3>2 DEF Msgs
      <4> QED
        BY <4>1, <4>2 DEF EnteredIsGone
    <3>5. NoneTwice' /\ AtMostOnce'
      BY <3>2 DEF NoneTwice, AtMostOnce
    <3> QED
      BY <3>3, <3>4, <3>5
  <2>2. CASE Tick \/ ForeignExpunge \/ Deadline
    BY <2>2, OnceFrame
    DEF Tick, ForeignExpunge, Deadline, mail, boxes, books, head, work
  <2> QED
    BY <1>1, <2>1, <2>2 DEF Environment, Crash, OnceInstance
<1>2. CASE RunStarts \/ Configure \/ GetLastProcessedDate \/ MailSanityCheck \/ SetupError \/ Search
  BY <1>2, OnceFrame
  DEF RunStarts, HandleRequest, Main, Start, Configure, GetLastProcessedDate, MailSanityCheck,
      SetupError, EndRun, Search, mail, boxes, books, head, work
<1>3. CASE (\E i \in pending : FetchOne(i) \/ FetchPanics(i) \/ FetchFail(i)) \/ FetchDone
  <2>1. pc = "fetch" /\ ok' = {} /\ UNCHANGED <<inbox, entries, arrived>>
    BY <1>3 DEF FetchOne, FetchPanics, FetchFail, FetchDone, EndRun, Stages,
                mail, boxes, books, work
  <2> QED
    BY <2>1, OnceFrame
<1>4. CASE MoveParseFailed
  BY <1>4, OnceFrame DEF MoveParseFailed, HandlesFresh, mail, boxes, books, work
<1>5. CASE \E t \in trxs : RegisterOk(t) \/ RegisterFail(t) \/ RegisterLostAck(t) \/ Abandon(t)
  BY <1>5, OnceRegister
<1>6. CASE RegisterDone
  BY <1>6, OnceFrame DEF RegisterDone, mail, boxes, books, work, head
<1>7. CASE MoveSuccessful
  <2>1. pc = "moveSuccess" /\ pc' = "save" /\ UNCHANGED <<arrived, entries, trxs, ok, dryRun>>
    BY <1>7 DEF MoveSuccessful, ArchiveAll, ArchiveErrs, mail, books, work, head
  <2>2. \/ (dryRun \/ ok = {}) /\ inbox' = inbox
        \/ inbox' = inbox \ Named(Ids(ok))
    BY <1>7 DEF MoveSuccessful, ArchiveAll, ArchiveErrs, Without, Archivable, OnceInstance, boxes
  <2>3. \A m \in inbox' : ~(entries[m] >= 1)
    <3>1. \A h \in ok : h.id = SeqNum(h.msg)
      BY <2>1 DEF HandlesFresh, Handles
    <3> QED
      BY <2>2, <3>1 DEF EnteredIsGone, Named, Ids, Msgs
  <2> QED
    BY <2>1, <2>3 DEF EnteredIsGone, NoneTwice, EnteredArrived, AtMostOnce
<1>8. CASE Save \/ Notify
  BY <1>8, OnceFrame DEF Save, Notify, EndRun, mail, boxes, books, work, head
<1>9. CASE UNCHANGED vars
  BY <1>9, OnceFrame DEF vars, mail, boxes, books, work, head
<1> QED
  BY <1>1, <1>2, <1>3, <1>4, <1>5, <1>6, <1>7, <1>8, <1>9 DEF Next, RunStep

THEOREM OnceInvariant == OnceInstance => (Spec => []OnceInv)
<1> SUFFICES ASSUME OnceInstance PROVE Spec => []OnceInv
  OBVIOUS
<1>1. Init => OnceInv
  BY TypeInit
  DEF Init, OnceInv, BooksInv, Stages, OkIsEntered, ReportedIsEntered, HandlesFresh, Handles,
      EnteredIsGone, NoneTwice, EnteredArrived, AtMostOnce
<1> QED
  BY <1>1, OnceNext, PTL DEF Spec

(* Each mail has at most one entry, for every number of mails and runs and  *)
(* whatever is refused, lost in the fetch or cut off by a deadline, as long *)
(* as the fault does not strike between the entry and the archiving.        *)
THEOREM EnteredAtMostOnce == OnceInstance => (Spec => []AtMostOnce)
<1>1. OnceInv => AtMostOnce
  BY DEF OnceInv
<1> QED
  BY <1>1, OnceInvariant, PTL

(* When a run goes on to save its date, what it registered has left the     *)
(* INBOX: the second move names the mails that were fetched.                *)
THEOREM RegisteredIsAlwaysArchived == OnceInstance => (Spec => []RegisteredIsArchived)
<1>1. OnceInv => RegisteredIsArchived
  BY DEF OnceInv, BooksInv, OkIsEntered, EnteredIsGone, RegisteredIsArchived, Msgs
<1> QED
  BY <1>1, OnceInvariant, PTL

-----------------------------------------------------------------------------
(* The runs implement the abstract ledger. *)

(* A mail deleted before it is entered leaves the mails MailLedger promises *)
(* to enter, so nothing is deleted here.                                    *)
LedgerInstance == OnceInstance /\ ~Fault("expungeIdle")

(* Only mails that parse are registered. *)
HandlesParsable == \A h \in Handles : h.msg \in Parsable

LedgerInv == OnceInv /\ HandlesParsable

LEMMA ParsableNext == HandlesParsable /\ [Next]_vars => HandlesParsable'
<1> SUFFICES ASSUME HandlesParsable, [Next]_vars PROVE HandlesParsable'
  OBVIOUS
<1>1. CASE Handles' \subseteq Handles
  BY <1>1 DEF HandlesParsable
<1>2. CASE EndRun \/ UNCHANGED <<trxs, ok, failed>>
  BY <1>1, <1>2 DEF EndRun, Handles
<1>3. CASE Environment \/ RunStarts
  BY <1>2, <1>3
  DEF Environment, Arrive, Tick, ForeignExpunge, Deadline, Crash, RunStarts, HandleRequest,
      Main, Start, work
<1>4. CASE Configure \/ GetLastProcessedDate \/ MailSanityCheck \/ SetupError \/ Search
  BY <1>2, <1>4
  DEF Configure, GetLastProcessedDate, MailSanityCheck, SetupError, Search, work
<1>5. CASE \E i \in pending : FetchOne(i) \/ FetchPanics(i) \/ FetchFail(i)
  BY <1>2, <1>5 DEF FetchOne, FetchPanics, FetchFail, HandlesParsable, Handles
<1>6. CASE FetchDone \/ MoveParseFailed \/ RegisterDone \/ MoveSuccessful \/ Save \/ Notify
  BY <1>2, <1>6
  DEF FetchDone, MoveParseFailed, RegisterDone, MoveSuccessful, ArchiveAll, ArchiveErrs, Save, Notify, work
<1>7. CASE \E t \in trxs : RegisterOk(t) \/ RegisterFail(t) \/ RegisterLostAck(t) \/ Abandon(t)
  BY <1>1, <1>7
  DEF RegisterOk, RegisterFail, NoteFailed, RegisterLostAck, Abandon, Handles
<1>8. CASE UNCHANGED vars
  BY <1>2, <1>8 DEF vars, work
<1> QED
  BY <1>3, <1>4, <1>5, <1>6, <1>7, <1>8 DEF Next, RunStep

(* Steps that the ledger does not notice. *)
LEMMA LedgerStutters ==
  UNCHANGED <<inbox, entries, successBox>> => UNCHANGED Ledger!vars
BY DEF Ledger!vars

(* A mail that arrives is received, if it is one the ledger is to have. *)
LEMMA LedgerReceives ==
  ASSUME OnceInv, Arrive, NEW m, m = arrived + 1
  PROVE  [Ledger!Next]_Ledger!vars
<1> DEFINE W == {n \in inbox \cap Parsable : entries[n] = 0}
           E == {n \in Parsable : entries[n] >= 1}
<1>1. arrived \in Nat /\ inbox \subseteq 1..arrived /\ m \in Msg /\ entries[m] = 0
  BY ParameterAssumption
  DEF OnceInv, BooksInv, Arrive, TypeOK, MailTypeOK, BoxTypeOK, BookTypeOK, EnteredArrived, Msg
<1>2. inbox' = inbox \cup {m} /\ UNCHANGED <<entries, successBox>>
  BY DEF Arrive, books
<1>3. CASE m \in Parsable
  <2>1. m \notin W \cup E
    BY <1>1
  <2>2. W' = W \cup {m} /\ E' = E
    BY <1>1, <1>2, <1>3
  <2>3. Ledger!Receive(m)
    BY <1>2, <2>1, <2>2 DEF Ledger!Receive
  <2> QED
    BY <1>3, <2>3 DEF Ledger!Next
<1>4. CASE m \notin Parsable
  <2>1. W' = W /\ E' = E
    BY <1>2, <1>4
  <2> QED
    BY <1>2, <2>1 DEF Ledger!vars
<1> QED
  BY <1>3, <1>4

(* A transaction that is registered is entered, the first time. *)
LEMMA LedgerEnters ==
  ASSUME LedgerInstance, LedgerInv, AtMostOnce', NEW t \in trxs,
         RegisterOk(t) \/ RegisterFail(t) \/ RegisterLostAck(t) \/ Abandon(t)
  PROVE  [Ledger!Next]_Ledger!vars
<1>1. pc = "register" /\ UNCHANGED <<inbox, successBox>>
  BY DEF RegisterOk, RegisterFail, RegisterLostAck, Abandon, boxes
<1>2. CASE UNCHANGED entries
  BY <1>1, <1>2, LedgerStutters
<1>3. CASE entries' = [entries EXCEPT ![t.msg] = @ + 1]
  <2> DEFINE m == t.msg
             W == {n \in inbox \cap Parsable : entries[n] = 0}
             E == {n \in Parsable : entries[n] >= 1}
  <2>1. entries \in [Msg -> Nat] /\ m \in Parsable /\ m \in inbox /\ Parsable \subseteq Msg
    BY <1>1, ParameterAssumption
    DEF LedgerInv, OnceInv, BooksInv, TypeOK, BookTypeOK, HandlesFresh, HandlesParsable, Handles
  <2>2. entries[m] = 0 /\ entries'[m] = 1
    BY <1>3, <2>1 DEF AtMostOnce
  <2>3. m \in W /\ W' = W \ {m} /\ E' = E \cup {m}
    BY <1>1, <1>3, <2>1, <2>2
  <2>4. Ledger!Enter(m)
    BY <1>1, <2>3 DEF Ledger!Enter
  <2> QED
    BY <2>1, <2>4 DEF Ledger!Next
<1> QED
  BY <1>2, <1>3
  DEF RegisterOk, RegisterFail, NoteFailed, RegisterLostAck, Abandon, books

(* The second move archives mails with an entry and no others. *)
LEMMA LedgerArchives ==
  ASSUME LedgerInstance, LedgerInv, MoveSuccessful
  PROVE  [Ledger!Next]_Ledger!vars
<1>1. pc = "moveSuccess" /\ UNCHANGED entries
  BY DEF MoveSuccessful, ArchiveAll, ArchiveErrs, books
<1>2. CASE UNCHANGED boxes
  BY <1>1, <1>2, LedgerStutters DEF boxes
<1>3. CASE ~dryRun /\ inbox' = inbox \ Named(Ids(ok)) /\ successBox' = successBox \cup Named(Ids(ok))
  <2> DEFINE S == Named(Ids(ok))
             W == {n \in inbox \cap Parsable : entries[n] = 0}
             E == {n \in Parsable : entries[n] >= 1}
  <2>1. ASSUME NEW n \in S PROVE n \in E
    <3>1. PICK h \in ok : h.id = SeqNum(n)
      BY DEF Named, Ids
    <3>2. h.msg \in inbox /\ h.id = SeqNum(h.msg) /\ h.msg \in Parsable /\ entries[h.msg] >= 1
      BY <1>1, <1>3
      DEF LedgerInv, OnceInv, BooksInv, HandlesFresh, Handles, HandlesParsable, OkIsEntered
    <3>3. n \in inbox /\ TypeOK
      BY DEF Named, LedgerInv, OnceInv, BooksInv
    <3>4. n = h.msg
      BY <3>1, <3>2, <3>3, SeqNumInjective
    <3> QED
      BY <3>2, <3>4
  <2>2. W' = W /\ E' = E
    <3>1. \A n \in W : n \notin S
      BY <2>1
    <3> QED
      BY <1>1, <1>3, <3>1
  <2>3. Ledger!Archive(S)
    BY <1>3, <2>1, <2>2 DEF Ledger!Archive
  <2>4. S \in SUBSET Parsable
    BY <2>1
  <2> QED
    BY <2>3, <2>4 DEF Ledger!Next
<1> QED
  BY <1>2, <1>3
  DEF MoveSuccessful, ArchiveAll, ArchiveErrs, Without, Archivable, LedgerInstance, OnceInstance

LEMMA LedgerStep ==
  ASSUME LedgerInstance, LedgerInv, AtMostOnce', [Next]_vars
  PROVE  [Ledger!Next]_Ledger!vars
<1>1. CASE UNCHANGED <<inbox, entries, successBox>>
  BY <1>1, LedgerStutters
<1>2. CASE Environment
  BY <1>1, <1>2, LedgerReceives
  DEF Environment, Tick, ForeignExpunge, Deadline, Crash, LedgerInstance, LedgerInv,
      OnceInstance,
      boxes, books
<1>3. CASE RunStarts \/ Configure \/ GetLastProcessedDate \/ MailSanityCheck \/ SetupError \/ Search
  BY <1>1, <1>3
  DEF RunStarts, HandleRequest, Main, Start, Configure, GetLastProcessedDate, MailSanityCheck,
      SetupError, Search, boxes, books
<1>4. CASE (\E i \in pending : FetchOne(i) \/ FetchPanics(i) \/ FetchFail(i)) \/ FetchDone
  BY <1>1, <1>4 DEF FetchOne, FetchPanics, FetchFail, FetchDone, boxes, books
<1>5. CASE MoveParseFailed
  BY <1>1, <1>5 DEF MoveParseFailed, LedgerInv, OnceInv, HandlesFresh, boxes, books
<1>6. CASE \E t \in trxs : RegisterOk(t) \/ RegisterFail(t) \/ RegisterLostAck(t) \/ Abandon(t)
  BY <1>6, LedgerEnters
<1>7. CASE MoveSuccessful
  BY <1>7, LedgerArchives
<1>8. CASE RegisterDone \/ Save \/ Notify \/ UNCHANGED vars
  BY <1>1, <1>8 DEF RegisterDone, Save, Notify, vars, boxes, books
<1> QED
  BY <1>2, <1>3, <1>4, <1>5, <1>6, <1>7, <1>8 DEF Next, RunStep

(* Run implements MailLedger: a mail received is entered once, and only     *)
(* mails with an entry are archived.  Sequence numbers, dates, deadlines,   *)
(* refusals and lost fetches do not show.                                   *)
THEOREM RunsImplementLedger == LedgerInstance => (Spec => LedgerSpec)
<1> SUFFICES ASSUME LedgerInstance PROVE Spec => LedgerSpec
  OBVIOUS
<1>1. Init => Ledger!Init
  <2> SUFFICES ASSUME Init PROVE Ledger!Init
    OBVIOUS
  <2>1. inbox = {} /\ successBox = {} /\ \A m \in Parsable : entries[m] = 0
    BY ParameterAssumption DEF Init
  <2> QED
    BY <2>1 DEF Ledger!Init
<1>2. Init => HandlesParsable
  BY DEF Init, HandlesParsable, Handles
<1>3. Spec => []HandlesParsable
  BY <1>2, ParsableNext, PTL DEF Spec
<1>4. Spec => []OnceInv
  BY OnceInvariant DEF LedgerInstance
<1>5. OnceInv => AtMostOnce
  BY DEF OnceInv
<1>6. OnceInv /\ HandlesParsable /\ AtMostOnce' /\ [Next]_vars => [Ledger!Next]_Ledger!vars
  BY LedgerStep DEF LedgerInv
<1> QED
  BY <1>1, <1>3, <1>4, <1>5, <1>6, PTL DEF Spec, LedgerSpec, Ledger!Spec

-----------------------------------------------------------------------------
(* The first move of a run names the mails it means. *)

(* What did not parse is in the INBOX under its number until it is moved. *)
UnparsedFresh ==
  /\ pc \in {"idle", "configure", "lastDate", "sanity", "search"} => parseFailed = {}
  /\ pc \in {"fetch", "moveFailed"} =>
        \A h \in parseFailed : h.msg \in inbox \cap Unparsable /\ h.id = SeqNum(h.msg)

ErrorInv == TypeOK /\ UnparsedFresh /\ ErrorBoxIsUnparsable

LEMMA UnparsedFrame ==
  ASSUME UnparsedFresh, ErrorBoxIsUnparsable, UNCHANGED <<inbox, errorBox, parseFailed>>,
         \/ pc \in {"idle", "configure", "lastDate", "sanity", "search"}
         \/ pc' = pc
         \/ pc' \notin {"idle", "configure", "lastDate", "sanity", "search"}
            /\ (pc' \in {"fetch", "moveFailed"} => pc = "fetch")
  PROVE  UnparsedFresh' /\ ErrorBoxIsUnparsable'
BY SeqNumSame DEF UnparsedFresh, ErrorBoxIsUnparsable

LEMMA FirstMoveNames ==
  ASSUME TypeOK, UnparsedFresh, pc = "moveFailed"
  PROVE  Named(Ids(parseFailed)) \subseteq Unparsable
<1> SUFFICES ASSUME NEW n \in Named(Ids(parseFailed)) PROVE n \in Unparsable
  OBVIOUS
<1>1. PICK h \in parseFailed : h.id = SeqNum(n)
  BY DEF Named, Ids
<1>2. h.msg \in inbox /\ h.msg \in Unparsable /\ h.id = SeqNum(h.msg)
  BY DEF UnparsedFresh
<1>3. n \in inbox
  BY DEF Named
<1> QED
  BY <1>1, <1>2, <1>3, SeqNumInjective

LEMMA ErrorNext == ~Fault("expunge") /\ ErrorInv /\ [Next]_vars => ErrorInv'
<1> SUFFICES ASSUME ~Fault("expunge"), ErrorInv, [Next]_vars
             PROVE  UnparsedFresh' /\ ErrorBoxIsUnparsable'
  BY TypeEnvironment, TypeRunStep, TypeStutter, StartsAre DEF ErrorInv, Next
<1> USE DEF ErrorInv
<1>1. CASE EndRun /\ errorBox' = errorBox
  BY <1>1 DEF EndRun, UnparsedFresh, ErrorBoxIsUnparsable
<1>2. CASE Environment
  <2>1. CASE Arrive
    <3>1. \A m \in inbox : m \in inbox' /\ SeqNum(m)' = SeqNum(m)
      BY <2>1, SeqNumArrive DEF Arrive
    <3> QED
      BY <2>1, <3>1 DEF Arrive, UnparsedFresh, ErrorBoxIsUnparsable, work
  <2>2. CASE ForeignExpunge
    BY <2>2 DEF ForeignExpunge, UnparsedFresh, ErrorBoxIsUnparsable, work
  <2> QED
    BY <1>1, <1>2, <2>1, <2>2, UnparsedFrame
    DEF Environment, Tick, Deadline, Crash, boxes, work
<1>3. CASE RunStarts \/ Configure \/ GetLastProcessedDate \/ MailSanityCheck
  BY <1>3, UnparsedFrame
  DEF RunStarts, HandleRequest, Main, Start, Configure, GetLastProcessedDate, MailSanityCheck,
      boxes, work
<1>4. CASE Search
  <2>1. parseFailed' = {} /\ pc' = "fetch" /\ errorBox' = errorBox
    BY <1>4 DEF Search, UnparsedFresh, boxes
  <2> QED
    BY <2>1 DEF UnparsedFresh, ErrorBoxIsUnparsable
<1>5. CASE SetupError \/ Notify \/ \E i \in pending : FetchPanics(i)
  BY <1>1, <1>5 DEF SetupError, Notify, FetchPanics, boxes
<1>6. ASSUME NEW i \in pending, FetchOne(i) PROVE UnparsedFresh' /\ ErrorBoxIsUnparsable'
  <2> DEFINE caught == {[id |-> i, msg |-> m] : m \in Named({i}) \cap Unparsable}
  <2>1. parseFailed' = parseFailed \cup caught /\ UNCHANGED <<inbox, errorBox>>
        /\ pc = "fetch" /\ pc' = "fetch"
    BY <1>6 DEF FetchOne, boxes
  <2>2. \A h \in caught : h.msg \in inbox \cap Unparsable /\ h.id = SeqNum(h.msg)
    BY DEF Named
  <2> QED
    BY <2>1, <2>2, SeqNumSame DEF UnparsedFresh, ErrorBoxIsUnparsable
<1>7. CASE (\E i \in pending : FetchFail(i)) \/ FetchDone \/ RegisterDone \/ Save \/ UNCHANGED vars
  BY <1>7, UnparsedFrame DEF FetchFail, FetchDone, RegisterDone, Save, vars, boxes, work
<1>8. CASE \E t \in trxs : RegisterOk(t) \/ RegisterFail(t) \/ RegisterLostAck(t) \/ Abandon(t)
  BY <1>8, UnparsedFrame DEF RegisterOk, RegisterFail, RegisterLostAck, Abandon, boxes
<1>9. CASE MoveSuccessful
  BY <1>9 DEF MoveSuccessful, ArchiveAll, ArchiveErrs, UnparsedFresh, ErrorBoxIsUnparsable, boxes
<1>10. CASE MoveParseFailed
  <2>1. pc = "moveFailed" /\ (pc' = "register" \/ EndRun)
    BY <1>10 DEF MoveParseFailed
  <2>2. UnparsedFresh'
    BY <2>1 DEF UnparsedFresh, EndRun
  <2>3. Named(Ids(parseFailed)) \subseteq Unparsable
    BY <2>1, FirstMoveNames
  <2>4. errorBox' \subseteq errorBox \cup Named(Ids(parseFailed))
    BY <1>10 DEF MoveParseFailed, boxes
  <2> QED
    BY <2>2, <2>3, <2>4 DEF ErrorBoxIsUnparsable
<1> QED
  BY <1>2, <1>3, <1>4, <1>5, <1>6, <1>7, <1>8, <1>9, <1>10 DEF Next, RunStep

(* The parse error mailbox gets the mails that did not parse and no others, *)
(* whatever arrives, fails or dies, as long as nobody deletes a mail while  *)
(* a run is going on.                                                       *)
THEOREM ErrorBoxIsAlwaysUnparsable == ~Fault("expunge") => (Spec => []ErrorBoxIsUnparsable)
<1> SUFFICES ASSUME ~Fault("expunge") PROVE Spec => []ErrorBoxIsUnparsable
  OBVIOUS
<1>1. Init => ErrorInv
  BY TypeInit DEF Init, ErrorInv, UnparsedFresh, ErrorBoxIsUnparsable
<1>2. ErrorInv => ErrorBoxIsUnparsable
  BY DEF ErrorInv
<1> QED
  BY <1>1, <1>2, ErrorNext, PTL DEF Spec

-----------------------------------------------------------------------------
(* What a mishap costs. *)

(* The transactions of a run are of different mails of the INBOX, and their *)
(* numbers are good until the first move.                                   *)
TrxsSound ==
  /\ \A t \in trxs : t.msg \in inbox \cap Parsable
  /\ \A t, u \in trxs : t.msg = u.msg => t = u
  /\ pc \in {"fetch", "moveFailed"} => \A t \in trxs : t.id = SeqNum(t.msg)

(* A mail with an entry that is still in the INBOX is about to leave it, or *)
(* a mishap has left it there, one for each of its entries.                 *)
LeftHasCause ==
  \A m \in inbox :
    \/ entries[m] <= mishaps
    \/ ~dryRun /\ pc \in {"register", "moveSuccess"} /\ m \in Msgs(ok)

RepeatInv ==
  /\ ErrorInv /\ Stages /\ TrxsSound /\ mishaps \in Nat
  /\ LeftHasCause /\ NoneTwice /\ EnteredArrived /\ RepeatsHaveCause

LEMMA SoundNext ==
  ASSUME ~Fault("expunge"), TypeOK, Stages, UnparsedFresh, TrxsSound, [Next]_vars
  PROVE  TrxsSound'
<1>1. CASE trxs' = {}
  BY <1>1 DEF TrxsSound
<1>2. CASE UNCHANGED inbox /\ trxs' \subseteq trxs
           /\ (pc' \in {"fetch", "moveFailed"} => pc \in {"fetch", "moveFailed"})
  BY <1>2, SeqNumSame DEF TrxsSound
<1>3. CASE Environment
  <2>1. CASE Arrive
    <3>1. \A m \in inbox : m \in inbox' /\ SeqNum(m)' = SeqNum(m)
      BY <2>1, SeqNumArrive DEF Arrive
    <3> QED
      BY <2>1, <3>1 DEF Arrive, TrxsSound, work
  <2>2. CASE ForeignExpunge
    BY <1>1, <2>2 DEF ForeignExpunge, Stages, work
  <2>3. CASE Tick \/ Deadline \/ Crash
    BY <1>1, <1>2, <2>3 DEF Tick, Deadline, Crash, EndRun, boxes, work
  <2> QED
    BY <1>3, <2>1, <2>2, <2>3 DEF Environment
<1>4. CASE RunStarts \/ Configure \/ GetLastProcessedDate \/ MailSanityCheck \/ SetupError \/ Search
  BY <1>1, <1>4
  DEF RunStarts, HandleRequest, Main, Start, Configure, GetLastProcessedDate, MailSanityCheck,
      SetupError, EndRun, Search, Stages, work
<1>5. ASSUME NEW i \in pending, FetchOne(i) PROVE TrxsSound'
  <2> DEFINE caught == {[id |-> i, msg |-> m] : m \in Named({i}) \cap Parsable}
  <2>1. trxs' = trxs \cup caught /\ UNCHANGED inbox /\ pc = "fetch" /\ pc' = "fetch"
    BY <1>5 DEF FetchOne, boxes
  <2>2. \A t \in trxs' : t.msg \in inbox \cap Parsable /\ t.id = SeqNum(t.msg)
    BY <2>1 DEF Named, TrxsSound
  <2>3. \A t \in trxs' : t = [id |-> t.id, msg |-> t.msg]
    BY <2>1 DEF TypeOK, WorkTypeOK, Handle
  <2>4. \A t, u \in trxs' : t.msg = u.msg => t = u
    BY <2>2, <2>3
  <2> QED
    BY <2>1, <2>2, <2>4, SeqNumSame DEF TrxsSound
<1>6. CASE (\E i \in pending : FetchPanics(i) \/ FetchFail(i)) \/ FetchDone \/ RegisterDone
  BY <1>1, <1>2, <1>6
  DEF FetchPanics, FetchFail, FetchDone, RegisterDone, EndRun, boxes, work
<1>7. CASE MoveParseFailed
  <2>1. CASE pc' = "register" /\ trxs' = trxs
    <3>1. \A t \in trxs : t.msg \notin Named(Ids(parseFailed))
      BY <1>7, FirstMoveNames, ParameterAssumption DEF MoveParseFailed, TrxsSound
    <3>2. inbox \ Named(Ids(parseFailed)) \subseteq inbox'
      BY <1>7, <2>1 DEF MoveParseFailed, EndRun, Without, boxes
    <3> QED
      BY <2>1, <3>1, <3>2 DEF TrxsSound
  <2> QED
    BY <1>1, <1>7, <2>1 DEF MoveParseFailed, EndRun, work
<1>8. CASE \E t \in trxs : RegisterOk(t) \/ RegisterFail(t) \/ RegisterLostAck(t) \/ Abandon(t)
  BY <1>2, <1>8 DEF RegisterOk, RegisterFail, RegisterLostAck, Abandon, boxes
<1>9. CASE MoveSuccessful \/ Save \/ Notify
  BY <1>1, <1>9 DEF MoveSuccessful, ArchiveAll, ArchiveErrs, Save, Notify, EndRun, Stages, work
<1>10. CASE UNCHANGED vars
  BY <1>2, <1>10 DEF vars, boxes, work
<1> QED
  BY <1>3, <1>4, <1>5, <1>6, <1>7, <1>8, <1>9, <1>10 DEF Next, RunStep

(* The history variable allows the steps of MailSync and no others. *)
LEMMA RepeatsAreRuns == [RepeatNext]_repeatVars => [Next]_vars
<1>1. Mishap => Next
  BY DEF Mishap, Next, RunStep, Environment, MoveSuccessful
<1>2. Smooth => Next
  BY DEF Smooth, Next, RunStep, Environment, MoveSuccessful
<1> QED
  BY <1>1, <1>2 DEF RepeatNext, repeatVars

(* Steps that make no entry, add no mail to the INBOX and do not turn back  *)
(* from registering.                                                        *)
LEMMA RepeatFrame ==
  ASSUME RepeatInv, UNCHANGED <<entries, arrived, mishaps>>, inbox' \subseteq inbox,
         \/ trxs' \subseteq trxs /\ ok' \subseteq ok
         \/ ok' = {},
         \/ pc \notin {"register", "moveSuccess"}
         \/ dryRun \/ ok = {}
         \/ pc' \in {"register", "moveSuccess"} /\ UNCHANGED <<dryRun, ok>>
  PROVE  LeftHasCause' /\ NoneTwice' /\ EnteredArrived' /\ RepeatsHaveCause'
<1> USE DEF RepeatInv
<1>1. LeftHasCause'
  <2> SUFFICES ASSUME NEW m \in inbox', ~(entries[m] <= mishaps)
               PROVE  ~dryRun' /\ pc' \in {"register", "moveSuccess"} /\ m \in Msgs(ok')
    BY DEF LeftHasCause, Msgs
  <2>1. ~dryRun /\ pc \in {"register", "moveSuccess"} /\ m \in Msgs(ok)
    BY DEF LeftHasCause
  <2> QED
    BY <2>1 DEF Msgs
<1>2. NoneTwice'
  BY DEF NoneTwice
<1>3. EnteredArrived' /\ RepeatsHaveCause'
  BY DEF EnteredArrived, RepeatsHaveCause
<1> QED
  BY <1>1, <1>2, <1>3

(* A step at the end of which every mail of the INBOX has a mishap for each *)
(* of its entries.                                                          *)
LEMMA RepeatExcused ==
  ASSUME RepeatInv, UNCHANGED <<entries, arrived>>, inbox' \subseteq inbox,
         mishaps' = mishaps + 1, ok' = {} \/ UNCHANGED <<trxs, ok>>
  PROVE  LeftHasCause' /\ NoneTwice' /\ EnteredArrived' /\ RepeatsHaveCause'
<1> USE DEF RepeatInv, ErrorInv
<1>1. inbox \subseteq Msg /\ \A m \in Msg : entries[m] \in Nat
  BY ParameterAssumption DEF TypeOK, MailTypeOK, BoxTypeOK, BookTypeOK, Msg
<1>2. LeftHasCause' /\ RepeatsHaveCause'
  BY <1>1 DEF LeftHasCause, RepeatsHaveCause
<1>3. NoneTwice' /\ EnteredArrived'
  BY DEF NoneTwice, EnteredArrived
<1> QED
  BY <1>2, <1>3

(* Registering: the entry that is made is of a mail that this run has not   *)
(* entered before, so that a mishap has been counted for each it has.       *)
LEMMA RepeatRegister ==
  ASSUME RepeatInv, NEW t \in trxs,
         \/ (RegisterOk(t) \/ RegisterFail(t) \/ Abandon(t)) /\ UNCHANGED mishaps
         \/ RegisterLostAck(t) /\ mishaps' = mishaps + 1
  PROVE  LeftHasCause' /\ NoneTwice' /\ EnteredArrived' /\ RepeatsHaveCause'
<1> USE DEF RepeatInv, ErrorInv
<1>1. pc = "register" /\ UNCHANGED <<pc, dryRun, inbox, arrived>> /\ trxs' = trxs \ {t}
  BY DEF RegisterOk, RegisterFail, RegisterLostAck, Abandon, head, boxes, mail
<1>2. /\ inbox \subseteq Msg /\ t.msg \in inbox /\ t.msg \in Msg /\ t.msg \in 1..arrived
      /\ entries \in [Msg -> Nat]
  <2>1. inbox \subseteq 1..arrived /\ arrived \in 0..LastUID /\ entries \in [Msg -> Nat]
    BY DEF TypeOK, MailTypeOK, BoxTypeOK, BookTypeOK
  <2>2. t.msg \in inbox
    BY DEF TrxsSound
  <2>3. 1..arrived \subseteq Msg
    BY <2>1, ParameterAssumption DEF Msg
  <2>4. t.msg \in 1..arrived
    BY <2>1, <2>2
  <2> QED
    BY <2>1, <2>2, <2>3, <2>4
<1>3. \A u \in trxs : u.msg = t.msg => u = t
  BY DEF TrxsSound
<1>4. entries[t.msg] <= mishaps
  <2>1. t.msg \notin Msgs(ok)
    BY DEF NoneTwice, Msgs
  <2> QED
    BY <1>2, <2>1 DEF LeftHasCause
<1>5. CASE UNCHANGED <<entries, ok, mishaps>>
  BY <1>1, <1>5, RepeatFrame
<1>6. CASE RegisterOk(t) /\ UNCHANGED mishaps
  <2>1. ok' = ok \cup {t}
    BY <1>6 DEF RegisterOk
  <2>2. entries' = IF dryRun THEN entries ELSE [entries EXCEPT ![t.msg] = @ + 1]
    BY <1>6 DEF RegisterOk
  <2>3. NoneTwice'
    BY <1>1, <1>3, <2>1 DEF NoneTwice
  <2>4. EnteredArrived' /\ RepeatsHaveCause'
    BY <1>1, <1>2, <1>4, <1>6, <2>2 DEF EnteredArrived, RepeatsHaveCause
  <2>5. LeftHasCause'
    <3> SUFFICES ASSUME NEW m \in inbox, ~(entries'[m] <= mishaps)
                 PROVE  ~dryRun /\ m \in Msgs(ok')
      BY <1>1, <1>6 DEF LeftHasCause, Msgs
    <3>1. CASE m = t.msg
      BY <1>4, <2>1, <2>2, <3>1 DEF Msgs
    <3>2. CASE m # t.msg
      BY <1>2, <2>1, <2>2, <3>2 DEF LeftHasCause, Msgs
    <3> QED
      BY <3>1, <3>2
  <2> QED
    BY <2>3, <2>4, <2>5
<1>7. CASE RegisterLostAck(t) /\ mishaps' = mishaps + 1
  <2>1. ok' = ok /\ entries' = [entries EXCEPT ![t.msg] = @ + 1]
    BY <1>7 DEF RegisterLostAck
  <2>2. NoneTwice'
    BY <1>1, <2>1 DEF NoneTwice
  <2>3. EnteredArrived' /\ RepeatsHaveCause'
    BY <1>1, <1>2, <1>4, <1>7, <2>1 DEF EnteredArrived, RepeatsHaveCause
  <2>4. LeftHasCause'
    BY <1>1, <1>2, <1>4, <1>7, <2>1 DEF LeftHasCause, RepeatsHaveCause, Msgs
  <2> QED
    BY <2>2, <2>3, <2>4
<1> QED
  BY <1>5, <1>6, <1>7 DEF RegisterFail, NoteFailed, Abandon, books

LEMMA RepeatStep == ~Fault("expunge") /\ RepeatInv /\ [RepeatNext]_repeatVars => RepeatInv'
<1> SUFFICES ASSUME ~Fault("expunge"), RepeatInv, [RepeatNext]_repeatVars PROVE RepeatInv'
  OBVIOUS
<1> USE DEF RepeatInv, ErrorInv
<1>0. ErrorInv' /\ Stages' /\ TrxsSound'
  BY RepeatsAreRuns, ErrorNext, StagesNext, SoundNext
<1>1. mishaps' \in Nat
  BY DEF RepeatNext, repeatVars
<1> SUFFICES LeftHasCause' /\ NoneTwice' /\ EnteredArrived' /\ RepeatsHaveCause'
  BY <1>0, <1>1
<1>2. CASE Mishap /\ mishaps' = mishaps + 1
  <2>1. CASE ArchiveErrs
    BY <1>2, <2>1, RepeatExcused DEF ArchiveErrs, mail, books, work
  <2>3. CASE Renumbered /\ ArchiveAll
    BY <1>2, <2>3, RepeatExcused DEF ArchiveAll, Without, mail, books, work, boxes
  <2>2. CASE Crash
    BY <1>2, <2>2, RepeatExcused DEF Crash, EndRun, mail, boxes, books
  <2> QED
    BY <1>2, <2>1, <2>2, <2>3, RepeatRegister DEF Mishap
<1>3. CASE Arrive /\ UNCHANGED mishaps
  <2>1. arrived \in Nat /\ inbox \subseteq 1..arrived /\ entries[arrived + 1] = 0
    BY <1>3, ParameterAssumption
    DEF Arrive, TypeOK, MailTypeOK, BoxTypeOK, BookTypeOK, EnteredArrived, Msg
  <2>2. inbox' = inbox \cup {arrived + 1} /\ arrived' = arrived + 1
        /\ UNCHANGED <<entries, trxs, ok, pc, dryRun>>
    BY <1>3 DEF Arrive, books, work, head
  <2>3. EnteredArrived'
    BY <2>1, <2>2 DEF EnteredArrived, Msg
  <2>4. LeftHasCause'
    <3>1. LeftHasCause /\ mishaps' = mishaps /\ mishaps \in Nat
      BY <1>3
    <3> QED
      BY <2>1, <2>2, <3>1 DEF LeftHasCause, Msgs
  <2>5. NoneTwice' /\ RepeatsHaveCause'
    BY <1>3, <2>2 DEF NoneTwice, RepeatsHaveCause
  <2> QED
    BY <2>3, <2>4, <2>5
<1>4. CASE (Tick \/ ForeignExpunge \/ Deadline \/ (~DiesBetween /\ Crash)) /\ UNCHANGED mishaps
  BY <1>4, RepeatFrame
  DEF Tick, ForeignExpunge, Deadline, Crash, EndRun, DiesBetween, mail, boxes, books, head, work
<1>5. CASE /\ RunStarts \/ Configure \/ GetLastProcessedDate \/ MailSanityCheck \/ SetupError
              \/ Search
           /\ UNCHANGED mishaps
  BY <1>5, RepeatFrame
  DEF RunStarts, HandleRequest, Main, Start, Configure, GetLastProcessedDate, MailSanityCheck,
      SetupError, EndRun, Search, mail, boxes, books, head, work
<1>6. CASE /\ (\E i \in pending : FetchOne(i) \/ FetchPanics(i) \/ FetchFail(i)) \/ FetchDone
           /\ UNCHANGED mishaps
  <2>1. pc = "fetch" /\ ok' = {} /\ UNCHANGED <<inbox, entries, arrived>>
    BY <1>6 DEF FetchOne, FetchPanics, FetchFail, FetchDone, EndRun, Stages,
                mail, boxes, books, work
  <2> QED
    BY <1>6, <2>1, RepeatFrame
<1>7. CASE MoveParseFailed /\ UNCHANGED mishaps
  BY <1>7, RepeatFrame DEF MoveParseFailed, EndRun, Without, Stages, mail, boxes, books, work
<1>8. CASE /\ \E t \in trxs : RegisterOk(t) \/ RegisterFail(t) \/ Abandon(t)
           /\ UNCHANGED mishaps
  BY <1>8, RepeatRegister
<1>9. CASE RegisterDone /\ UNCHANGED mishaps
  BY <1>9, RepeatFrame DEF RegisterDone, mail, boxes, books, work, head
<1>10. CASE ~Renumbered /\ ArchiveAll /\ UNCHANGED mishaps
  <2>1. pc = "moveSuccess" /\ pc' = "save" /\ UNCHANGED <<arrived, entries, trxs, ok, dryRun>>
    BY <1>10 DEF ArchiveAll, mail, books, work, head
  <2>2. \/ (dryRun \/ ok = {}) /\ inbox' = inbox
        \/ inbox' = inbox \ Named(Ids(ok))
    BY <1>10 DEF ArchiveAll, Without, Archivable, boxes
  <2>3. \A m \in inbox' : m \in inbox /\ entries[m] <= mishaps
    <3>1. dryRun \/ \A h \in ok : h.id = SeqNum(h.msg)
      BY <1>10 DEF Renumbered
    <3> QED
      BY <2>2, <3>1 DEF LeftHasCause, Named, Ids, Msgs
  <2> QED
    BY <1>10, <2>1, <2>3 DEF LeftHasCause, NoneTwice, EnteredArrived, RepeatsHaveCause
<1>11. CASE (Save \/ Notify) /\ UNCHANGED mishaps
  BY <1>11, RepeatFrame DEF Save, Notify, EndRun, mail, boxes, books, head, work
<1>12. CASE UNCHANGED repeatVars
  BY <1>12, RepeatFrame DEF repeatVars, vars, mail, boxes, books, head, work
<1> QED
  BY <1>2, <1>3, <1>4, <1>5, <1>6, <1>7, <1>8, <1>9, <1>10, <1>11, <1>12
  DEF RepeatNext, Smooth

(* A mail is entered once and once more for each mishap between an entry    *)
(* and its archiving, for every number of mails, days and runs and under    *)
(* every fault but a deletion during a run: registerTrxsIntoAccounting and  *)
(* moveSuccessfulMessages make no repeat of their own.                      *)
THEOREM RepeatsAlwaysHaveCause == ~Fault("expunge") => (RepeatSpec => []RepeatsHaveCause)
<1> SUFFICES ASSUME ~Fault("expunge") PROVE RepeatSpec => []RepeatsHaveCause
  OBVIOUS
<1>1. RepeatInit => RepeatInv
  BY TypeInit
  DEF RepeatInit, Init, RepeatInv, ErrorInv, UnparsedFresh, ErrorBoxIsUnparsable, Stages,
      TrxsSound, LeftHasCause, NoneTwice, EnteredArrived, RepeatsHaveCause
<1>2. RepeatInv => RepeatsHaveCause
  BY DEF RepeatInv
<1> QED
  BY <1>1, <1>2, RepeatStep, PTL DEF RepeatSpec

-----------------------------------------------------------------------------
(* How far the stored date may go back. *)

(* The instances in which a run searches from the stored date: the other    *)
(* two dates, from the environment and for a table that cannot be read, may *)
(* lie as far back as anyone likes.                                         *)
RewindInstance == ~Fault("override") /\ ~Fault("readFail")

(* Mails are numbered as they come in, and none was under way for longer    *)
(* than Delay.                                                              *)
MailOrder ==
  /\ watermark <= today
  /\ \A m \in Msg : received[m] <= today /\ sent[m] >= received[m] - Delay
  /\ \A m, n \in 1..arrived : m <= n => received[m] <= received[n]

SearchedFrom ==
  ~ctxDone /\ pc \in {"sanity", "search", "fetch", "moveFailed", "register", "moveSuccess", "save"}
    => since = watermark - GraceDays

(* A number the search found, and every one above it, names a mail of the   *)
(* days searched.  So it does after a deletion, which moves later mails to  *)
(* lower numbers.                                                           *)
FoundInRange ==
  ~ctxDone /\ pc = "fetch" =>
     \A i \in pending : \A m \in inbox : SeqNum(m) >= i => received[m] >= since

KeptInRange == ~ctxDone => \A h \in trxs \cup failed : received[h.msg] >= since

RewindInv == TypeOK /\ Stages /\ MailOrder /\ SearchedFrom /\ FoundInRange /\ KeptInRange

(* Numbers follow the order in which mails came in. *)
LEMMA SeqNumOrder ==
  ASSUME TypeOK, NEW m \in inbox, NEW n \in inbox, SeqNum(m) >= SeqNum(n)
  PROVE  m >= n
<1> SUFFICES ASSUME m < n PROVE FALSE
  BY ParameterAssumption DEF TypeOK, MailTypeOK, BoxTypeOK
<1>1. m \in Int /\ n \in Int /\ \A k \in inbox : k \in Int
  BY ParameterAssumption DEF TypeOK, MailTypeOK, BoxTypeOK
<1>2. {k \in inbox : k <= m} \subseteq {k \in inbox : k <= n}
  <2>1. \A k \in inbox : k <= m => k <= n
    BY <1>1
  <2> QED
    BY <2>1
<1>3. SeqNum(m) <= SeqNum(n) /\ SeqNum(m) \in Nat /\ SeqNum(n) \in Nat
  BY <1>1, <1>2, SeqNumType, FS_Subset DEF SeqNum
<1>4. SeqNum(m) = SeqNum(n)
  BY <1>3
<1>5. m = n
  BY <1>4, SeqNumInjective
<1> QED
  BY <1>1, <1>5

(* A deletion moves no mail to a higher number. *)
LEMMA SeqNumRemove ==
  ASSUME TypeOK, inbox' \subseteq inbox, NEW m \in inbox
  PROVE  SeqNum(m)' \in Nat /\ SeqNum(m)' <= SeqNum(m)
<1>1. m \in Int
  BY ParameterAssumption DEF TypeOK, MailTypeOK, BoxTypeOK
<1>2. {k \in inbox' : k <= m} \subseteq {k \in inbox : k <= m}
  OBVIOUS
<1>3. IsFiniteSet({k \in inbox : k <= m})
  BY <1>1, SeqNumType
<1> QED
  BY <1>2, <1>3, FS_Subset, FS_CardinalityType DEF SeqNum

(* Steps that neither bring mail nor turn the clock nor store a date. *)
LEMMA OrderFrame ==
  ASSUME MailOrder, UNCHANGED <<mail, watermark>>
  PROVE  MailOrder'
BY DEF MailOrder, mail

(* The rest of the invariant speaks of a run that is still searching in     *)
(* time: it survives the end of the run, and steps that neither find nor    *)
(* keep anything new.                                                       *)
LEMMA RangeFrame ==
  ASSUME Stages, SearchedFrom, FoundInRange, KeptInRange,
         \/ EndRun
         \/ pc' \in {"configure", "lastDate"} /\ pc \in {"idle", "configure"} /\ UNCHANGED work
         \/ /\ UNCHANGED <<received, watermark, since, inbox>>
            /\ ctxDone => ctxDone'
            /\ pending' \subseteq pending /\ trxs' \cup failed' \subseteq trxs \cup failed
            /\ pc' = pc \/ (/\ pc \in {"sanity", "fetch", "moveFailed", "register", "moveSuccess"}
                           /\ pc' \in {"search", "moveFailed", "register", "moveSuccess"})
  PROVE  SearchedFrom' /\ FoundInRange' /\ KeptInRange'
<1>1. CASE EndRun
  BY <1>1 DEF EndRun, SearchedFrom, FoundInRange, KeptInRange
<1>2. CASE pc' \in {"configure", "lastDate"} /\ pc \in {"idle", "configure"} /\ UNCHANGED work
  BY <1>2 DEF Stages, SearchedFrom, FoundInRange, KeptInRange, work
<1>3. CASE /\ UNCHANGED <<received, watermark, since, inbox>>
           /\ ctxDone => ctxDone'
           /\ pending' \subseteq pending /\ trxs' \cup failed' \subseteq trxs \cup failed
           /\ pc' = pc \/ (/\ pc \in {"sanity", "fetch", "moveFailed", "register", "moveSuccess"}
                          /\ pc' \in {"search", "moveFailed", "register", "moveSuccess"})
  <2>1. SearchedFrom'
    BY <1>3 DEF SearchedFrom
  <2>2. KeptInRange'
    BY <1>3 DEF KeptInRange
  <2>3. FoundInRange'
    BY <1>3, SeqNumSame DEF FoundInRange
  <2> QED
    BY <2>1, <2>2, <2>3
<1> QED
  BY <1>1, <1>2, <1>3

LEMMA OrderNext ==
  ASSUME TypeOK, MailOrder, [Next]_vars,
         Save => watermark' = watermark \/ watermark' \in EarliestUnfinished
  PROVE  MailOrder'
<1>1. CASE Arrive
  <2>1. /\ arrived \in Nat /\ arrived' = arrived + 1 /\ arrived + 1 \in Msg
        /\ received \in [Msg -> 0..LastDay] /\ sent \in [Msg -> Int]
        /\ today \in Nat /\ watermark' = watermark /\ today' = today
        /\ Delay \in Nat /\ Skew \in Nat
    BY <1>1, ParameterAssumption DEF Arrive, TypeOK, MailTypeOK, books, Msg
  <2>2. PICK d \in (today - Delay)..(today + Skew) :
          /\ received' = [received EXCEPT ![arrived + 1] = today]
          /\ sent' = [sent EXCEPT ![arrived + 1] = d]
    BY <1>1 DEF Arrive
  <2>3. \A m \in Msg : received'[m] <= today /\ sent'[m] >= received'[m] - Delay
    <3> SUFFICES ASSUME NEW m \in Msg
                 PROVE  received'[m] <= today /\ sent'[m] >= received'[m] - Delay
      OBVIOUS
    <3>1. CASE m = arrived + 1
      BY <2>1, <2>2, <3>1
    <3>2. CASE m # arrived + 1
      BY <2>1, <2>2, <3>2 DEF MailOrder
    <3> QED
      BY <3>1, <3>2
  <2>4. \A m, n \in 1..(arrived + 1) : m <= n => received'[m] <= received'[n]
    <3> SUFFICES ASSUME NEW m \in 1..(arrived + 1), NEW n \in 1..(arrived + 1), m <= n
                 PROVE  received'[m] <= received'[n]
      OBVIOUS
    <3>1. m \in Msg /\ n \in Msg
      BY <2>1, ParameterAssumption DEF Msg
    <3>2. CASE n = arrived + 1
      BY <2>1, <2>2, <2>3, <3>1, <3>2
    <3>3. CASE n # arrived + 1
      BY <2>1, <2>2, <3>1, <3>3 DEF MailOrder
    <3> QED
      BY <3>2, <3>3
  <2> QED
    BY <2>1, <2>3, <2>4 DEF MailOrder
<1>2. CASE Tick
  BY <1>2, ParameterAssumption DEF Tick, MailOrder, TypeOK, MailTypeOK, BookTypeOK, books
<1>3. CASE Save
  <2>1. watermark' <= today
    BY <1>3, ParameterAssumption
    DEF MailOrder, EarliestUnfinished, Msgs, TypeOK, MailTypeOK
  <2> QED
    BY <1>3, <2>1 DEF Save, MailOrder, mail
<1>4. CASE ForeignExpunge \/ Deadline \/ Crash \/ RunStarts
  BY <1>4, OrderFrame
  DEF ForeignExpunge, Deadline, Crash, RunStarts, HandleRequest, Main, Start, books
<1>5. CASE Configure \/ GetLastProcessedDate \/ MailSanityCheck \/ SetupError \/ Search
  BY <1>5, OrderFrame
  DEF Configure, GetLastProcessedDate, MailSanityCheck, SetupError, Search, books
<1>6. CASE \E i \in pending : FetchOne(i) \/ FetchPanics(i) \/ FetchFail(i)
  BY <1>6, OrderFrame DEF FetchOne, FetchPanics, FetchFail, books
<1>7. CASE \E t \in trxs : RegisterOk(t) \/ RegisterFail(t) \/ RegisterLostAck(t) \/ Abandon(t)
  BY <1>7, OrderFrame DEF RegisterOk, RegisterFail, RegisterLostAck, Abandon, books
<1>8. CASE FetchDone \/ RegisterDone \/ MoveParseFailed \/ MoveSuccessful \/ Notify \/ UNCHANGED vars
  BY <1>8, OrderFrame
  DEF FetchDone, RegisterDone, MoveParseFailed, MoveSuccessful, ArchiveAll, ArchiveErrs, Notify, vars, books
<1> QED
  BY <1>1, <1>2, <1>3, <1>4, <1>5, <1>6, <1>7, <1>8 DEF Next, RunStep, Environment

LEMMA RangeNext ==
  ASSUME RewindInstance, RewindInv, [Next]_vars
  PROVE  SearchedFrom' /\ FoundInRange' /\ KeptInRange'
<1> USE DEF RewindInv
<1>1. CASE Arrive
  <2>1. /\ UNCHANGED <<pc, ctxDone, watermark, since, pending, trxs, failed>>
        /\ inbox' = inbox \cup {arrived + 1}
        /\ received' = [received EXCEPT ![arrived + 1] = today]
    BY <1>1 DEF Arrive, books, head, work
  <2>2. /\ arrived \in Nat /\ inbox \subseteq 1..arrived /\ today \in Nat
        /\ received \in [Msg -> 0..LastDay] /\ watermark \in Int /\ GraceDays \in Nat
        /\ inbox \subseteq Msg /\ arrived + 1 \in Msg
        /\ \A h \in trxs \cup failed : h.msg \in Msg
    <3>1. /\ arrived \in 0..LastUID /\ arrived < LastUID /\ LastUID \in Nat /\ inbox \subseteq 1..arrived
          /\ today \in Nat /\ received \in [Msg -> 0..LastDay] /\ watermark \in Int /\ GraceDays \in Nat
      BY <1>1, ParameterAssumption DEF Arrive, TypeOK, MailTypeOK, BoxTypeOK, BookTypeOK
    <3>2. arrived \in Nat /\ inbox \subseteq Msg /\ arrived + 1 \in Msg
      BY <3>1 DEF Msg
    <3>3. \A h \in trxs \cup failed : h.msg \in Msg
      BY DEF TypeOK, WorkTypeOK, Handle
    <3> QED
      BY <3>1, <3>2, <3>3
  <2>3. \A m \in Msg : received'[m] = received[m] \/ received'[m] = today
    BY <2>1, <2>2
  <2>4. ~ctxDone /\ pc \in {"sanity", "search", "fetch", "moveFailed", "register", "moveSuccess"}
           => since <= today
    BY <2>2 DEF SearchedFrom, MailOrder
  <2>5. \A m \in inbox : SeqNum(m)' = SeqNum(m) /\ received'[m] = received[m]
    BY <2>1, <2>2, SeqNumArrive
  <2>6. received'[arrived + 1] = today
    BY <2>1, <2>2
  <2>7. FoundInRange'
    BY <2>1, <2>4, <2>5, <2>6 DEF FoundInRange
  <2>8. \A m \in Msg : received'[m] >= received[m]
    BY <2>1, <2>2 DEF MailOrder
  <2>9. KeptInRange'
    <3>1. \A m \in Msg : received[m] \in Int /\ received'[m] \in Int
      BY <2>2, <2>3
    <3>2. since \in Int
      BY DEF TypeOK, HeadTypeOK
    <3> QED
      BY <2>1, <2>2, <2>8, <3>1, <3>2 DEF KeptInRange
  <2> QED
    BY <2>1, <2>7, <2>9 DEF SearchedFrom
<1>2. CASE ForeignExpunge
  <2>1. /\ UNCHANGED <<pc, ctxDone, watermark, since, pending, trxs, failed, received>>
        /\ inbox' \subseteq inbox
    BY <1>2 DEF ForeignExpunge, mail, books, head, work
  <2>2. \A m \in inbox : SeqNum(m) \in Nat /\ SeqNum(m)' \in Nat /\ SeqNum(m)' <= SeqNum(m)
    <3>1. inbox \subseteq Int
      BY ParameterAssumption DEF TypeOK, MailTypeOK, BoxTypeOK
    <3> QED
      BY <2>1, <3>1, SeqNumRemove, SeqNumType
  <2>3. \A i \in pending : i \in Nat
    BY DEF TypeOK, WorkTypeOK
  <2>4. FoundInRange'
    BY <2>1, <2>2, <2>3 DEF FoundInRange
  <2> QED
    BY <2>1, <2>4 DEF SearchedFrom, KeptInRange
<1>3. CASE Tick \/ Deadline \/ Crash \/ RunStarts \/ Configure
  <2>1. CASE Tick \/ Deadline
    BY <2>1, RangeFrame DEF Tick, Deadline, mail, boxes, books, head, work
  <2>2. CASE Crash
    BY <2>2, RangeFrame DEF Crash
  <2>3. CASE RunStarts \/ Configure
    BY <2>3, RangeFrame DEF RunStarts, HandleRequest, Main, Start, Configure
  <2> QED
    BY <1>3, <2>1, <2>2, <2>3
<1>4. CASE GetLastProcessedDate
  <2>1. /\ pc = "lastDate" /\ pc' = "sanity" /\ UNCHANGED <<ctxDone, watermark, trxs, failed>>
        /\ ~ctxDone => since' = watermark - GraceDays
    BY <1>4 DEF GetLastProcessedDate, SinceDates, RewindInstance, books, head, work
  <2> QED
    BY <2>1 DEF SearchedFrom, FoundInRange, KeptInRange, Stages
<1>5. CASE Search
  <2>1. /\ pc = "search" /\ pc' = "fetch"
        /\ UNCHANGED <<ctxDone, watermark, since, trxs, failed, received, inbox>>
        /\ pending' = {SeqNum(m) : m \in {n \in inbox : received[n] >= since}}
    BY <1>5 DEF Search, mail, boxes, books, head
  <2>2. ASSUME NEW k \in inbox, received[k] >= since, NEW m \in inbox, SeqNum(m) >= SeqNum(k)
        PROVE  received[m] >= since
    <3>1. m >= k
      BY <2>2, SeqNumOrder
    <3>2. inbox \subseteq 1..arrived /\ arrived \in Nat /\ inbox \subseteq Msg
          /\ received \in [Msg -> 0..LastDay] /\ since \in Int
      BY ParameterAssumption DEF TypeOK, MailTypeOK, BoxTypeOK, HeadTypeOK, Msg
    <3>3. received[k] <= received[m]
      BY <3>1, <3>2 DEF MailOrder
    <3> QED
      BY <2>2, <3>2, <3>3
  <2>3. FoundInRange'
    BY <2>1, <2>2, SeqNumSame DEF FoundInRange
  <2> QED
    BY <2>1, <2>3 DEF SearchedFrom, KeptInRange
<1>6. ASSUME NEW i \in pending, FetchOne(i)
      PROVE  SearchedFrom' /\ FoundInRange' /\ KeptInRange'
  <2>1. /\ pc = "fetch"
        /\ UNCHANGED <<pc, ctxDone, watermark, since, failed, received, inbox>>
        /\ pending' \subseteq pending
        /\ trxs' = trxs \cup {[id |-> i, msg |-> m] : m \in Named({i}) \cap Parsable}
    BY <1>6 DEF FetchOne, mail, boxes, books, head
  <2>2. ~ctxDone => \A m \in Named({i}) : received[m] >= since
    <3>1. \A m \in Named({i}) : m \in inbox /\ SeqNum(m) = i
      BY DEF Named
    <3>2. i >= i
      BY DEF TypeOK, WorkTypeOK
    <3> QED
      BY <2>1, <3>1, <3>2 DEF FoundInRange
  <2>3. KeptInRange'
    <3> SUFFICES ASSUME ~ctxDone, NEW h \in trxs' \cup failed PROVE received[h.msg] >= since
      BY <2>1 DEF KeptInRange
    <3>1. CASE h \in trxs \cup failed
      BY <3>1 DEF KeptInRange
    <3>2. ASSUME NEW m \in Named({i}), h = [id |-> i, msg |-> m] PROVE received[h.msg] >= since
      BY <2>2, <3>2
    <3> QED
      BY <2>1, <3>1, <3>2
  <2>4. FoundInRange'
    BY <2>1, SeqNumSame DEF FoundInRange
  <2> QED
    BY <2>1, <2>3, <2>4 DEF SearchedFrom
<1>7. CASE \E i \in pending : FetchPanics(i) \/ FetchFail(i)
  BY <1>7, RangeFrame DEF FetchPanics, FetchFail, mail, boxes, books, head
<1>8. CASE MailSanityCheck \/ SetupError \/ FetchDone \/ RegisterDone \/ Notify \/ UNCHANGED vars
  BY <1>8, RangeFrame
  DEF MailSanityCheck, SetupError, FetchDone, RegisterDone, Notify, vars, mail, boxes, books,
      head, work
<1>9. CASE MoveParseFailed \/ MoveSuccessful
  <2>1. EndRun \/ (/\ pc \in {"moveFailed", "moveSuccess"} /\ pc' \in {"register", "save"}
                   /\ pc' = "save" <=> pc = "moveSuccess"
                   /\ UNCHANGED <<ctxDone, watermark, since, received, trxs, failed>>)
    BY <1>9 DEF MoveParseFailed, MoveSuccessful, ArchiveAll, ArchiveErrs, mail, books, head, work
  <2>2. CASE EndRun
    BY <2>2, RangeFrame
  <2> QED
    BY <2>1, <2>2 DEF SearchedFrom, FoundInRange, KeptInRange
<1>10. CASE \E t \in trxs : RegisterOk(t) \/ RegisterFail(t) \/ RegisterLostAck(t) \/ Abandon(t)
  <2>1. /\ UNCHANGED <<received, watermark, since, inbox, ctxDone, pc, pending>>
        /\ trxs' \cup failed' \subseteq trxs \cup failed
    BY <1>10 DEF RegisterOk, RegisterFail, NoteFailed, RegisterLostAck, Abandon, mail, boxes,
       books, head
  <2> QED
    BY <2>1, RangeFrame
<1>11. CASE Save
  BY <1>11 DEF Save, SearchedFrom, FoundInRange, KeptInRange, mail, head, work
<1> QED
  BY <1>1, <1>2, <1>3, <1>4, <1>5, <1>6, <1>7, <1>8, <1>9, <1>10, <1>11
  DEF Next, RunStep, Environment

(* The stored date goes back by at most the grace period and the delay of a *)
(* mail in one step: what failed was found by a search from the stored date *)
(* itself, however the mailbox was renumbered meanwhile.                    *)
THEOREM RewindIsBounded == RewindInstance => (Spec => BoundedRewind)
<1> SUFFICES ASSUME RewindInstance PROVE Spec => BoundedRewind
  OBVIOUS
<1>1. Init => RewindInv
  BY TypeInit, ParameterAssumption
  DEF Init, RewindInv, Stages, MailOrder, SearchedFrom, FoundInRange, KeptInRange, Msg
<1>2. ASSUME RewindInv, Save
      PROVE  watermark' = watermark \/ (watermark' \in EarliestUnfinished /\ ~ctxDone)
  BY <1>2 DEF Save, MaySave
<1>3. RewindInv /\ [Next]_vars => RewindInv'
  BY <1>2, StagesNext, OrderNext, RangeNext, TypeEnvironment, TypeRunStep, TypeStutter,
     StartsAre
  DEF RewindInv, Next
<1>4. ASSUME RewindInv, [Next]_vars PROVE watermark' >= watermark - (GraceDays + Delay)
  <2>1. watermark \in Int /\ today \in Int /\ GraceDays \in Nat /\ Delay \in Nat /\ since \in Int
    BY <1>4, ParameterAssumption DEF RewindInv, TypeOK, MailTypeOK, BookTypeOK, HeadTypeOK
  <2>2. CASE watermark' = watermark
    BY <2>1, <2>2
  <2>3. CASE Save /\ watermark' \in EarliestUnfinished /\ ~ctxDone
    <3>1. watermark <= today /\ since = watermark - GraceDays
      BY <1>4, <2>3 DEF Save, RewindInv, MailOrder, SearchedFrom
    <3>2. ASSUME NEW h \in failed PROVE sent[h.msg] >= watermark - (GraceDays + Delay)
      <4>1. h.msg \in Msg /\ sent[h.msg] \in Int /\ received[h.msg] \in Int
        BY <1>4 DEF RewindInv, TypeOK, MailTypeOK, WorkTypeOK, Handle
      <4>2. received[h.msg] >= since /\ sent[h.msg] >= received[h.msg] - Delay
        BY <1>4, <2>3, <4>1 DEF RewindInv, MailOrder, KeptInRange
      <4> QED
        BY <2>1, <3>1, <4>1, <4>2
    <3>3. watermark' = today \/ \E h \in failed : watermark' = sent[h.msg]
      BY <2>3 DEF EarliestUnfinished, Msgs
    <3> QED
      BY <2>1, <3>1, <3>2, <3>3
  <2>4. Save \/ watermark' = watermark
    BY <1>4 DEF Next, RunStep, Environment, Arrive, Tick, ForeignExpunge, Deadline, Crash,
       RunStarts,
       HandleRequest, Main, Start, Configure, GetLastProcessedDate, MailSanityCheck, SetupError,
       Search, FetchOne, FetchPanics, FetchFail, FetchDone, MoveParseFailed, RegisterOk, RegisterFail,
       RegisterLostAck, Abandon, RegisterDone, MoveSuccessful, ArchiveAll, ArchiveErrs, Notify, vars, books
  <2> QED
    BY <1>2, <1>4, <2>2, <2>3, <2>4
<1>5. RewindInv /\ [Next]_vars => [watermark' >= watermark - (GraceDays + Delay)]_vars
  BY <1>4
<1> QED
  BY <1>1, <1>3, <1>5, PTL DEF Spec, BoundedRewind
-----------------------------------------------------------------------------
(* The registering of a run and Registration, which the pool implements.   *)

Registers == INSTANCE Registration WITH
  Trx        <- Handle,
  Mail       <- Msg,
  MailOf     <- [h \in Handle |-> h.msg],
  DryRuns    <- BOOLEAN,
  MayFail    <- Fault("registerFail"),
  MayLoseAck <- Fault("lostAck"),
  over       <- pc # "register"

(* What a run does while it registers is what Registration lets the pool    *)
(* do, action by action, when the rest of the world holds still; what the   *)
(* context leaves undone a run loses one by one.                            *)
THEOREM RegisteringIsRegistration ==
  ASSUME TypeOK, pc = "register",
         UNCHANGED <<mail, boxes, watermark, reported, startDay, since, pending, parseFailed>>
  PROVE  /\ UNCHANGED pc => \A t \in trxs :
              /\ RegisterOk(t) <=> Registers!RegisterOk(t)
              /\ RegisterFail(t) <=> Registers!RegisterFail(t)
              /\ RegisterLostAck(t) <=> Registers!RegisterLostAck(t)
              /\ Abandon(t) <=> Registers!Abandon({t})
         /\ pc' = "moveSuccess" => (RegisterDone <=> Registers!RegisterDone)
<1>1. ASSUME UNCHANGED pc, NEW t \in trxs
      PROVE  /\ RegisterOk(t) <=> Registers!RegisterOk(t)
             /\ RegisterFail(t) <=> Registers!RegisterFail(t)
             /\ RegisterLostAck(t) <=> Registers!RegisterLostAck(t)
             /\ Abandon(t) <=> Registers!Abandon({t})
  <2>1. [h \in Handle |-> h.msg][t] = t.msg
    BY DEF TypeOK, WorkTypeOK
  <2>2. RegisterOk(t) <=> Registers!RegisterOk(t)
    BY <1>1, <2>1
    DEF RegisterOk, Registers!RegisterOk, Registers!AddEntry, mail, boxes, head
  <2>3. RegisterFail(t) <=> Registers!RegisterFail(t)
    BY <1>1 DEF RegisterFail, NoteFailed, Registers!RegisterFail, mail, boxes, head
  <2>4. RegisterLostAck(t) <=> Registers!RegisterLostAck(t)
    BY <1>1, <2>1
    DEF RegisterLostAck, Registers!RegisterLostAck, Registers!AddEntry, mail, boxes, head
  <2>5. Abandon(t) <=> Registers!Abandon({t})
    BY <1>1 DEF Abandon, Registers!Abandon, mail, boxes, books, head
  <2> QED
    BY <2>2, <2>3, <2>4, <2>5
<1>2. ASSUME pc' = "moveSuccess" PROVE RegisterDone <=> Registers!RegisterDone
  BY <1>2 DEF RegisterDone, Registers!RegisterDone, mail, boxes, books, head, work
<1> QED
  BY <1>1, <1>2

=============================================================================
