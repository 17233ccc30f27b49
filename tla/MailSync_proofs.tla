--------------------------- MODULE MailSync_proofs ---------------------------
(***************************************************************************)
(* Proofs about MailSync: type correctness for every value of the          *)
(* constants, and that no mail is lost when the faults that lose mail are  *)
(* left out.                                                               *)
(***************************************************************************)
EXTENDS MailSync, FiniteSetTheorems, TLAPS

-----------------------------------------------------------------------------
(* Sequence numbers. *)

(* A sequence number is a natural number. *)
LEMMA SeqNumType ==
  ASSUME TypeOK, NEW m \in Int
  PROVE  /\ IsFiniteSet({n \in inbox : n <= m})
         /\ SeqNum(m) \in Nat
<1>1. arrived \in Nat /\ inbox \subseteq 1..arrived
  BY ParameterAssumption DEF TypeOK, MailTypeOK, BoxTypeOK
<1>2. IsFiniteSet(1..arrived)
  BY <1>1, FS_Interval
<1>3. IsFiniteSet({n \in inbox : n <= m})
  BY <1>1, <1>2, FS_Subset
<1> QED
  BY <1>3, FS_CardinalityType DEF SeqNum

(* Two mails of the INBOX have different sequence numbers: the position of *)
(* a mail names it as long as nothing is removed.                          *)
LEMMA SeqNumInjective ==
  ASSUME TypeOK, NEW m \in inbox, NEW n \in inbox, SeqNum(m) = SeqNum(n)
  PROVE  m = n
<1>1. inbox \subseteq Int
  BY ParameterAssumption DEF TypeOK, MailTypeOK, BoxTypeOK
<1>2. ASSUME NEW a \in inbox, NEW b \in inbox, a < b
      PROVE  SeqNum(a) # SeqNum(b)
  <2> DEFINE A == {k \in inbox : k <= a}
             B == {k \in inbox : k <= b}
  <2>1. IsFiniteSet(A) /\ IsFiniteSet(B)
    BY <1>1, SeqNumType
  <2>0. a \in Int /\ b \in Int /\ \A k \in inbox : k \in Int
    BY <1>1
  <2>2. A \subseteq B /\ b \in B /\ b \notin A
    <3>1. \A k \in inbox : k <= a => k <= b
      BY <2>0, <1>2
    <3>2. b <= b /\ ~(b <= a)
      BY <2>0, <1>2
    <3> QED
      BY <3>1, <3>2
  <2>3. A # B
    BY <2>2
  <2>4. Cardinality(A) # Cardinality(B)
    BY <2>1, <2>2, <2>3, FS_Subset
  <2> QED
    BY <2>4 DEF SeqNum
<1>3. m < n \/ n < m \/ m = n
  BY <1>1
<1> QED
  BY <1>2, <1>3

(* A mail that arrives comes last: it renumbers nothing. *)
LEMMA SeqNumArrive ==
  ASSUME TypeOK, inbox' = inbox \cup {arrived + 1}, NEW m \in inbox
  PROVE  SeqNum(m)' = SeqNum(m)
<1>1. inbox \subseteq 1..arrived /\ arrived \in Nat
  BY ParameterAssumption DEF TypeOK, MailTypeOK, BoxTypeOK
<1>2. {n \in inbox' : n <= m} = {n \in inbox : n <= m}
  BY <1>1
<1> QED
  BY <1>2 DEF SeqNum

-----------------------------------------------------------------------------
(* Type correctness. *)

LEMMA TypeInit == Init => TypeOK
<1> SUFFICES ASSUME Init PROVE TypeOK
  OBVIOUS
<1> USE ParameterAssumption DEF Init
<1>1. MailTypeOK
  BY DEF MailTypeOK, Msg
<1>2. BoxTypeOK /\ BookTypeOK
  BY DEF BoxTypeOK, BookTypeOK, Msg
<1>3. HeadTypeOK
  <2>1. pc \in Phases
    BY DEF Phases
  <2>2. startDay \in 0..LastDay /\ since \in Int
    OBVIOUS
  <2> QED
    BY <2>1, <2>2 DEF HeadTypeOK
<1>4. WorkTypeOK
  BY DEF WorkTypeOK
<1> QED
  BY <1>1, <1>2, <1>3, <1>4 DEF TypeOK

(* What the parts of the state that a step leaves alone are typed by. *)
LEMMA TypeFrame ==
  ASSUME TypeOK
  PROVE  /\ UNCHANGED mail => MailTypeOK'
         /\ UNCHANGED boxes /\ arrived' = arrived => BoxTypeOK'
         /\ UNCHANGED books => BookTypeOK'
         /\ UNCHANGED <<pc, head, since>> => HeadTypeOK'
         /\ UNCHANGED work => WorkTypeOK'
<1>1. UNCHANGED mail => MailTypeOK'
  BY DEF TypeOK, MailTypeOK, mail
<1>2. UNCHANGED boxes /\ arrived' = arrived => BoxTypeOK'
  BY DEF TypeOK, BoxTypeOK, boxes
<1>3. UNCHANGED books => BookTypeOK'
  BY DEF TypeOK, BookTypeOK, books
<1>4. UNCHANGED <<pc, head, since>> => HeadTypeOK'
  BY DEF TypeOK, HeadTypeOK, head
<1>5. UNCHANGED work => WorkTypeOK'
  BY DEF TypeOK, WorkTypeOK, work
<1> QED
  BY <1>1, <1>2, <1>3, <1>4, <1>5

LEMMA TypeEndRun == EndRun => HeadTypeOK' /\ WorkTypeOK'
<1>1. EndRun => pc' \in Phases
  BY DEF EndRun, Phases
<1>2. EndRun => dryRun' \in BOOLEAN /\ ctxDone' \in BOOLEAN
  BY DEF EndRun
<1>3. EndRun => startDay' \in 0..LastDay /\ since' \in Int
  BY ParameterAssumption DEF EndRun
<1>4. EndRun => WorkTypeOK'
  BY DEF EndRun, WorkTypeOK
<1> QED
  BY <1>1, <1>2, <1>3, <1>4 DEF HeadTypeOK

LEMMA TypeEnvironment == TypeOK /\ Environment => TypeOK'
<1> SUFFICES ASSUME TypeOK, Environment PROVE TypeOK'
  OBVIOUS
<1> USE ParameterAssumption, TypeFrame
<1>1. CASE Arrive
  <2>1. MailTypeOK'
    BY <1>1 DEF Arrive, TypeOK, MailTypeOK, Msg
  <2>2. BoxTypeOK'
    BY <1>1 DEF Arrive, TypeOK, MailTypeOK, BoxTypeOK
  <2> QED
    BY <1>1, <2>1, <2>2 DEF Arrive, TypeOK
<1>2. CASE Tick
  <2>1. MailTypeOK'
    BY <1>2 DEF Tick, TypeOK, MailTypeOK
  <2> QED
    BY <1>2, <2>1 DEF Tick, TypeOK
<1>3. CASE ForeignExpunge
  <2>1. BoxTypeOK'
    BY <1>3 DEF ForeignExpunge, TypeOK, BoxTypeOK, mail
  <2> QED
    BY <1>3, <2>1 DEF ForeignExpunge, TypeOK
<1>4. CASE Deadline
  <2>1. HeadTypeOK'
    BY <1>4 DEF Deadline, TypeOK, HeadTypeOK
  <2> QED
    BY <1>4, <2>1 DEF Deadline, TypeOK, mail
<1>5. CASE Crash
  BY <1>5, TypeEndRun DEF Crash, TypeOK, mail
<1> QED
  BY <1>1, <1>2, <1>3, <1>4, <1>5 DEF Environment

LEMMA TypeRunStep == TypeOK /\ (RunStep \/ \E d \in BOOLEAN : Start(d)) => TypeOK'
<1> SUFFICES ASSUME TypeOK, RunStep \/ \E d \in BOOLEAN : Start(d) PROVE TypeOK'
  OBVIOUS
<1> USE TypeFrame DEF TypeOK
<1>1. ASSUME NEW d \in BOOLEAN, Start(d) PROVE TypeOK'
  <2>1. pc' \in Phases /\ dryRun' \in BOOLEAN /\ ctxDone' \in BOOLEAN
    BY <1>1, ParameterAssumption DEF Start, Phases
  <2>2. startDay' \in 0..LastDay /\ since' \in Int
    BY <1>1 DEF Start, MailTypeOK, HeadTypeOK
  <2> QED
    BY <1>1, <2>1, <2>2 DEF Start, HeadTypeOK, mail
<1>15. CASE Configure
  <2>1. HeadTypeOK'
    BY <1>15 DEF Configure, HeadTypeOK, Phases, head
  <2> QED
    BY <1>15, <2>1 DEF Configure, mail
<1>2. CASE GetLastProcessedDate
  <2>1. \A x \in SinceDates : x \in Int
    BY ParameterAssumption DEF SinceDates, BookTypeOK, HeadTypeOK
  <2>2. HeadTypeOK'
    BY <1>2, <2>1 DEF GetLastProcessedDate, HeadTypeOK, Phases, head
  <2> QED
    BY <1>2, <2>2 DEF GetLastProcessedDate, mail
<1>3. CASE MailSanityCheck
  <2>1. HeadTypeOK'
    BY <1>3 DEF MailSanityCheck, HeadTypeOK, Phases, head
  <2> QED
    BY <1>3, <2>1 DEF MailSanityCheck, mail
<1>4. CASE SetupError
  BY <1>4, TypeEndRun DEF SetupError, mail
<1>5. CASE Search
  <2>1. HeadTypeOK'
    BY <1>5 DEF Search, HeadTypeOK, Phases, head
  <2>2. \A m \in inbox : SeqNum(m) \in Nat
    <3>1. inbox \subseteq Int
      BY ParameterAssumption DEF MailTypeOK, BoxTypeOK
    <3> QED
      BY <3>1, SeqNumType
  <2>3. WorkTypeOK'
    BY <1>5, <2>2 DEF Search, WorkTypeOK
  <2> QED
    BY <1>5, <2>1, <2>3 DEF Search, mail
<1>6. ASSUME NEW i \in pending, FetchOne(i) PROVE TypeOK'
  <2>1. \A m \in Parsable \cup Unparsable : [id |-> i, msg |-> m] \in Handle
    BY ParameterAssumption DEF WorkTypeOK, Handle
  <2>2. WorkTypeOK'
    BY <1>6, <2>1 DEF FetchOne, WorkTypeOK
  <2> QED
    BY <1>6, <2>2 DEF FetchOne, mail
<1>7. ASSUME NEW i \in pending, FetchFail(i) PROVE TypeOK'
  <2>1. WorkTypeOK'
    BY <1>7 DEF FetchFail, WorkTypeOK
  <2> QED
    BY <1>7, <2>1 DEF FetchFail, mail
<1>16. ASSUME NEW i \in pending, FetchPanics(i) PROVE TypeOK'
  BY <1>16, TypeEndRun DEF FetchPanics, mail
<1>8. CASE FetchDone
  <2>1. HeadTypeOK'
    BY <1>8 DEF FetchDone, HeadTypeOK, Phases, head
  <2> QED
    BY <1>8, <2>1 DEF FetchDone, mail
<1>9. CASE MoveParseFailed
  <2>1. MailTypeOK' /\ BookTypeOK'
    BY <1>9 DEF MoveParseFailed, Without
  <2>2. BoxTypeOK'
    BY <1>9 DEF MoveParseFailed, Without, BoxTypeOK, Named, boxes, mail
  <2>3. HeadTypeOK' /\ WorkTypeOK'
    <3>1. (pc' = "register" /\ UNCHANGED <<head, since, work>>) \/ EndRun
      BY <1>9 DEF MoveParseFailed, Without
    <3>2. CASE pc' = "register" /\ UNCHANGED <<head, since, work>>
      BY <3>2 DEF HeadTypeOK, Phases, head
    <3> QED
      BY <3>1, <3>2, TypeEndRun
  <2> QED
    BY <2>1, <2>2, <2>3
<1>10. CASE MoveSuccessful
  <2>1. HeadTypeOK'
    BY <1>10 DEF MoveSuccessful, ArchiveAll, ArchiveErrs, Without, Archivable, HeadTypeOK, Phases, head
  <2>2. BoxTypeOK'
    BY <1>10 DEF MoveSuccessful, ArchiveAll, ArchiveErrs, Without, Archivable, BoxTypeOK, Named, boxes, mail
  <2> QED
    BY <1>10, <2>1, <2>2 DEF MoveSuccessful, ArchiveAll, ArchiveErrs, Without, Archivable
<1>11. ASSUME NEW t \in trxs,
              RegisterOk(t) \/ RegisterFail(t) \/ RegisterLostAck(t) \/ Abandon(t)
       PROVE  TypeOK'
  <2>1. t.msg \in Msg
    BY DEF WorkTypeOK, Handle
  <2>2. WorkTypeOK'
    BY <1>11 DEF RegisterOk, RegisterFail, NoteFailed, RegisterLostAck, Abandon, WorkTypeOK
  <2>3. BookTypeOK'
    <3>1. CASE UNCHANGED books
      BY <3>1
    <3>2. CASE UNCHANGED <<watermark, reported>>
               /\ entries' = [entries EXCEPT ![t.msg] = @ + 1]
      BY <3>2, <2>1 DEF BookTypeOK
    <3> QED
      BY <1>11, <3>1, <3>2
      DEF RegisterOk, RegisterFail, NoteFailed, RegisterLostAck, Abandon, books
  <2> QED
    BY <1>11, <2>2, <2>3
    DEF RegisterOk, RegisterFail, NoteFailed, RegisterLostAck, Abandon, mail
<1>12. CASE RegisterDone
  <2>1. HeadTypeOK'
    BY <1>12 DEF RegisterDone, HeadTypeOK, Phases, head
  <2> QED
    BY <1>12, <2>1 DEF RegisterDone, mail
<1>13. CASE Save
  <2>1. \A d \in EarliestUnfinished : d \in Int
    BY DEF EarliestUnfinished, Msgs, MailTypeOK, WorkTypeOK, Handle
  <2>2. BookTypeOK'
    BY <1>13, <2>1 DEF Save, MaySave, BookTypeOK
  <2>3. HeadTypeOK'
    BY <1>13 DEF Save, MaySave, HeadTypeOK, Phases, head
  <2> QED
    BY <1>13, <2>2, <2>3 DEF Save, MaySave, mail
<1>14. CASE Notify
  <2>1. Msgs(ok) \subseteq Msg
    BY DEF Msgs, WorkTypeOK, Handle
  <2>2. BookTypeOK'
    BY <1>14, <2>1 DEF Notify, Registries, BookTypeOK
  <2> QED
    BY <1>14, <2>2, TypeEndRun DEF Notify, Registries, mail
<1> QED
  BY <1>1, <1>2, <1>3, <1>4, <1>5, <1>6, <1>7, <1>8, <1>9, <1>10, <1>11, <1>12,
     <1>13, <1>14, <1>15, <1>16 DEF RunStep

(* Every way to begin a run is a Start. *)
LEMMA StartsAre == RunStarts => \E d \in BOOLEAN : Start(d)
BY DEF RunStarts, HandleRequest, Main

LEMMA TypeStutter == TypeOK /\ UNCHANGED vars => TypeOK'
BY TypeFrame DEF vars, mail, TypeOK

(* The state keeps its types for every number of mails and days, every      *)
(* choice of what parses and every set of faults.                           *)
THEOREM TypeCorrect == Spec => []TypeOK
<1>1. TypeOK /\ [Next]_vars => TypeOK'
  BY TypeEnvironment, TypeRunStep, TypeStutter, StartsAre DEF Next
<1> QED
  BY <1>1, TypeInit, PTL DEF Spec

-----------------------------------------------------------------------------
(* No mail is lost.  Parts of the invariant that a step does not disturb. *)

LEMMA SeqNumSame == UNCHANGED inbox => \A m : SeqNum(m)' = SeqNum(m)
BY DEF SeqNum

LEMMA FrameClock ==
  Clock /\ UNCHANGED <<mail, watermark, startDay>> /\ (pc' # "idle" => pc # "idle")
    => Clock'
BY DEF Clock, mail

LEMMA FrameFresh ==
  ASSUME HandlesFresh, UNCHANGED inbox, UNCHANGED parseFailed, Handles' \subseteq Handles,
         pc \in {"save", "notify"} => pc' \in {"save", "notify"}
  PROVE  HandlesFresh'
BY SeqNumSame DEF HandlesFresh

LEMMA FrameNoLoss ==
  ASSUME NoMessageLost, UNCHANGED <<mail, inbox, watermark>>,
         \A m \in Msg : entries'[m] = 0 => entries[m] = 0
  PROVE  NoMessageLost'
BY DEF NoMessageLost, Waiting, BeyondFallback, mail

(* A run that has ended holds nothing and owes nothing. *)
LEMMA EndRunInv ==
  EndRun => Stages' /\ HandlesFresh' /\ OkIsEntered' /\ WaitingInHand'
BY DEF EndRun, Stages, HandlesFresh, Handles, OkIsEntered, WaitingInHand

LEMMA InvInit == Init => IInv
<1> SUFFICES ASSUME Init PROVE IInv
  OBVIOUS
<1>1. TypeOK
  BY TypeInit
<1>2. Clock /\ NoMessageLost
  BY ParameterAssumption DEF Init, Clock, NoMessageLost, Waiting, Msg
<1>3. Stages /\ HandlesFresh /\ OkIsEntered /\ WaitingInHand
  BY DEF Init, Stages, HandlesFresh, Handles, OkIsEntered, WaitingInHand
<1> QED
  BY <1>1, <1>2, <1>3 DEF IInv

LEMMA InvEnvironment ==
  ASSUME SafeInstance, IInv, Environment
  PROVE  IInv'
<1> USE DEF IInv, BeyondFallback
<1>0. TypeOK'
  BY TypeEnvironment
<1>1. CASE Arrive
  <2>1. arrived \in Nat /\ inbox \subseteq 1..arrived /\ today \in Int
        /\ watermark \in Int
    BY ParameterAssumption DEF TypeOK, MailTypeOK, BoxTypeOK, BookTypeOK
  <2>2. Clock'
    BY <1>1, <2>1, ParameterAssumption DEF Arrive, Clock, TypeOK, MailTypeOK, head, books
  <2>3. Stages' /\ OkIsEntered'
    BY <1>1 DEF Arrive, Stages, OkIsEntered, head, work, books
  <2>4. \A m \in inbox : m \in inbox' /\ SeqNum(m)' = SeqNum(m)
    BY <1>1, SeqNumArrive DEF Arrive
  <2>5. HandlesFresh'
    BY <1>1, <2>4 DEF Arrive, HandlesFresh, Handles, work
  <2>6. \A m \in Msg : Waiting(m)' =>
          \/ Waiting(m) /\ received'[m] = received[m]
          \/ m \in inbox' /\ received'[m] = today
    BY <1>1, <2>1, ParameterAssumption
    DEF Arrive, Waiting, books, TypeOK, MailTypeOK, Msg
  <2>7. NoMessageLost'
    BY <1>1, <2>1, <2>4, <2>6, ParameterAssumption
    DEF Arrive, NoMessageLost, Clock, books
  <2>8. WaitingInHand'
    <3> SUFFICES ASSUME pc' \notin {"idle", "configure", "lastDate"}, NEW m \in Msg, Waiting(m)'
                 PROVE  InHand(m)'
      BY DEF WaitingInHand
    <3>1. UNCHANGED <<pc, dryRun, ctxDone, startDay, since, pending, trxs, failed, today>>
      BY <1>1 DEF Arrive, head, work
    <3>2. CASE received'[m] = today
      BY <1>1, <3>1, <3>2 DEF InHand, Clock
    <3>3. CASE Waiting(m) /\ received'[m] = received[m]
      <4>1. InHand(m) /\ m \in inbox
        BY <3>1, <3>3 DEF WaitingInHand, NoMessageLost
      <4> QED
        BY <3>1, <3>3, <4>1, <2>4 DEF InHand
    <3> QED
      BY <2>6, <3>2, <3>3
  <2> QED
    BY <1>0, <2>2, <2>3, <2>5, <2>7, <2>8
<1>2. CASE Tick
  <2>1. Clock'
    BY <1>2, ParameterAssumption
    DEF Tick, Clock, TypeOK, MailTypeOK, BookTypeOK, HeadTypeOK, head, books
  <2>2. Stages' /\ OkIsEntered'
    BY <1>2 DEF Tick, Stages, OkIsEntered, head, work, books
  <2>3. HandlesFresh'
    BY <1>2, FrameFresh DEF Tick, boxes, work, Handles
  <2>4. \A m \in Msg : BeyondFallback(m) => BeyondFallback(m)'
    BY <1>2, ParameterAssumption DEF Tick, TypeOK, MailTypeOK
  <2>5. NoMessageLost'
    BY <1>2, <2>4 DEF Tick, NoMessageLost, Waiting, books, boxes
  <2>6. WaitingInHand'
    BY <1>2, <2>4, SeqNumSame
    DEF Tick, WaitingInHand, InHand, Waiting, head, work, books, boxes
  <2> QED
    BY <1>0, <2>1, <2>2, <2>3, <2>5, <2>6
<1>3. CASE ForeignExpunge
  BY <1>3 DEF ForeignExpunge, SafeInstance
<1>4. CASE Deadline
  <2>1. Clock' /\ NoMessageLost'
    BY <1>4, FrameClock, FrameNoLoss DEF Deadline, boxes, books
  <2>2. Stages' /\ OkIsEntered'
    BY <1>4 DEF Deadline, Stages, OkIsEntered, work, books
  <2>3. HandlesFresh'
    BY <1>4, FrameFresh DEF Deadline, boxes, work, Handles
  <2>4. WaitingInHand'
    BY <1>4 DEF Deadline, WaitingInHand, InHand
  <2> QED
    BY <1>0, <2>1, <2>2, <2>3, <2>4
<1>5. CASE Crash
  <2>1. UNCHANGED <<mail, boxes, books>> /\ EndRun /\ pc' = "idle"
    BY <1>5 DEF Crash, EndRun
  <2>2. Clock' /\ NoMessageLost'
    BY <2>1, FrameNoLoss DEF Clock, mail, boxes, books
  <2> QED
    BY <1>0, <2>1, <2>2, EndRunInv
<1> QED
  BY <1>1, <1>2, <1>3, <1>4, <1>5 DEF Environment

LEMMA InvBeforeFetch ==
  ASSUME SafeInstance, IInv,
         \/ \E d \in BOOLEAN : Start(d)
         \/ Configure \/ GetLastProcessedDate \/ MailSanityCheck \/ SetupError \/ Search
  PROVE  IInv'
<1> USE DEF IInv, BeyondFallback
<1>0. TypeOK'
  BY TypeRunStep DEF RunStep
<1>1. ASSUME NEW d \in BOOLEAN, Start(d) PROVE IInv'
  <2>1. Clock'
    BY <1>1, ParameterAssumption
    DEF Start, Clock, mail, books, TypeOK, MailTypeOK
  <2>2. NoMessageLost'
    BY <1>1, FrameNoLoss DEF Start, boxes, books
  <2>3. Stages' /\ OkIsEntered' /\ WaitingInHand'
    BY <1>1 DEF Start, Stages, OkIsEntered, WaitingInHand, work
  <2>4. HandlesFresh'
    BY <1>1, FrameFresh DEF Start, boxes, work, Handles
  <2> QED
    BY <1>0, <2>1, <2>2, <2>3, <2>4
<1>6. CASE Configure
  <2>1. Clock' /\ NoMessageLost'
    BY <1>6, FrameClock, FrameNoLoss DEF Configure, boxes, books, head
  <2>2. Stages' /\ OkIsEntered' /\ WaitingInHand'
    BY <1>6 DEF Configure, Stages, OkIsEntered, WaitingInHand, work, books, head
  <2>3. HandlesFresh'
    BY <1>6, FrameFresh DEF Configure, boxes, work, Handles
  <2> QED
    BY <1>0, <2>1, <2>2, <2>3
<1>2. CASE GetLastProcessedDate
  <2>1. Clock' /\ NoMessageLost'
    BY <1>2, FrameClock, FrameNoLoss DEF GetLastProcessedDate, boxes, books, head
  <2>2. Stages' /\ OkIsEntered'
    BY <1>2 DEF GetLastProcessedDate, Stages, OkIsEntered, work, books, head
  <2>3. HandlesFresh'
    BY <1>2, FrameFresh DEF GetLastProcessedDate, boxes, work, Handles
  <2>4. \/ ctxDone \/ since' = watermark - GraceDays
        \/ Fault("readFail") /\ since' <= today - FallbackDays
    <3>1. ASSUME NEW up \in 0..startDay PROVE up - FallbackDays <= today - FallbackDays
      <4>1. startDay \in Int /\ startDay <= today /\ today \in Int
        BY <1>2, ParameterAssumption DEF GetLastProcessedDate, Clock, TypeOK, HeadTypeOK, MailTypeOK
      <4> QED
        BY <4>1, ParameterAssumption
    <3> QED
      BY <1>2, <3>1 DEF GetLastProcessedDate, SinceDates, FallbackDates, SafeInstance
  <2>5. /\ \A m \in Msg : received[m] \in Int
        /\ today - FallbackDays \in Int /\ since' \in Int
    BY <1>0, ParameterAssumption DEF TypeOK, MailTypeOK, HeadTypeOK
  <2>6. WaitingInHand'
    <3> SUFFICES ASSUME NEW m \in Msg, Waiting(m) PROVE InHand(m)'
      BY <1>2 DEF GetLastProcessedDate, WaitingInHand, Waiting, mail, books
    <3>1. received[m] >= watermark - GraceDays \/ BeyondFallback(m)
      BY DEF NoMessageLost
    <3>2. ctxDone \/ received[m] >= since' \/ BeyondFallback(m)
      BY <2>4, <2>5, <3>1
    <3> QED
      BY <1>2, <3>2 DEF GetLastProcessedDate, InHand, head, mail
  <2> QED
    BY <1>0, <2>1, <2>2, <2>3, <2>6
<1>3. CASE MailSanityCheck
  <2>1. Clock' /\ NoMessageLost'
    BY <1>3, FrameClock, FrameNoLoss DEF MailSanityCheck, boxes, books, head
  <2>2. Stages' /\ OkIsEntered'
    BY <1>3 DEF MailSanityCheck, Stages, OkIsEntered, work, books, head
  <2>3. HandlesFresh'
    BY <1>3, FrameFresh DEF MailSanityCheck, boxes, work, Handles
  <2>4. WaitingInHand'
    BY <1>3 DEF MailSanityCheck, WaitingInHand, InHand, Waiting, head, work,
                books, mail, boxes
  <2> QED
    BY <1>0, <2>1, <2>2, <2>3, <2>4
<1>4. CASE SetupError
  <2>1. UNCHANGED <<mail, boxes, books>> /\ EndRun /\ pc' = "idle"
    BY <1>4 DEF SetupError, EndRun
  <2>2. Clock' /\ NoMessageLost'
    BY <2>1, FrameNoLoss DEF Clock, mail, boxes, books
  <2> QED
    BY <1>0, <2>1, <2>2, EndRunInv
<1>5. CASE Search
  <2>1. Clock' /\ NoMessageLost'
    BY <1>5, FrameClock, FrameNoLoss DEF Search, boxes, books, head
  <2>2. Stages' /\ OkIsEntered'
    BY <1>5 DEF Search, Stages, OkIsEntered, books, head
  <2>3. HandlesFresh'
    BY <1>5, FrameFresh DEF Search, boxes, Handles
  <2>4. WaitingInHand'
    <3> SUFFICES ASSUME NEW m \in Msg, Waiting(m) PROVE InHand(m)'
      BY <1>5 DEF Search, WaitingInHand, Waiting, mail, books
    <3>1. InHand(m) /\ m \in inbox
      BY <1>5 DEF Search, WaitingInHand, NoMessageLost
    <3>2. SeqNum(m)' = SeqNum(m)
      BY <1>5, SeqNumSame DEF Search, boxes
    <3>3. received[m] >= since => SeqNum(m) \in pending'
      BY <1>5, <3>1 DEF Search
    <3> QED
      BY <1>5, <3>1, <3>2, <3>3 DEF Search, InHand, Stages, mail, head
  <2> QED
    BY <1>0, <2>1, <2>2, <2>3, <2>4
<1> QED
  BY <1>1, <1>2, <1>3, <1>4, <1>5, <1>6

LEMMA InvFetch ==
  ASSUME SafeInstance, IInv,
         \/ \E i \in pending : FetchOne(i) \/ FetchPanics(i) \/ FetchFail(i)
         \/ FetchDone \/ MoveParseFailed
  PROVE  IInv'
<1> USE DEF IInv, BeyondFallback
<1>0. TypeOK'
  BY TypeRunStep DEF RunStep
<1>1. ASSUME NEW i \in pending, FetchOne(i) PROVE IInv'
  <2> DEFINE caught == {[id |-> i, msg |-> m] : m \in Named({i}) \cap Parsable}
  <2>1. trxs' = trxs \cup caught /\ UNCHANGED <<ok, failed, parseFailed, inbox>>
        /\ pc = "fetch" /\ pc' = "fetch" /\ pending' = pending \ {i}
    BY <1>1 DEF FetchOne, SafeInstance, boxes
  <2>2. \A h \in caught : h.msg \in inbox /\ h.id = SeqNum(h.msg)
    BY DEF Named
  <2>3. Clock' /\ NoMessageLost'
    BY <1>1, FrameClock, FrameNoLoss DEF FetchOne, boxes, books, head
  <2>4. Stages' /\ OkIsEntered'
    BY <1>1, <2>1 DEF FetchOne, Stages, OkIsEntered, books, head
  <2>5. HandlesFresh'
    BY <2>1, <2>2, SeqNumSame DEF HandlesFresh, Handles
  <2>6. WaitingInHand'
    <3> SUFFICES ASSUME NEW m \in Msg, Waiting(m) PROVE InHand(m)'
      BY <1>1 DEF FetchOne, WaitingInHand, Waiting, mail, books
    <3>1. InHand(m) /\ m \in inbox /\ m \in Parsable
      BY <2>1 DEF WaitingInHand, NoMessageLost, Waiting
    <3>2. SeqNum(m)' = SeqNum(m)
      BY <2>1, SeqNumSame
    <3>3. SeqNum(m) = i => [id |-> i, msg |-> m] \in trxs'
      BY <2>1, <3>1 DEF Named
    <3>4. SeqNum(m) = i => InHand(m)'
      BY <3>3 DEF InHand
    <3> QED
      BY <1>1, <2>1, <3>1, <3>2, <3>4 DEF FetchOne, InHand, mail, head
  <2> QED
    BY <1>0, <2>3, <2>4, <2>5, <2>6
<1>2. ASSUME NEW i \in pending, FetchFail(i) PROVE IInv'
  <2>1. Clock' /\ NoMessageLost'
    BY <1>2, FrameClock, FrameNoLoss DEF FetchFail, boxes, books, head
  <2>2. Stages' /\ OkIsEntered'
    BY <1>2 DEF FetchFail, Stages, OkIsEntered, books, head
  <2>3. HandlesFresh'
    BY <1>2, FrameFresh DEF FetchFail, boxes, Handles
  <2>4. WaitingInHand'
    BY <1>2 DEF FetchFail, WaitingInHand, InHand, SafeInstance, head
  <2> QED
    BY <1>0, <2>1, <2>2, <2>3, <2>4
<1>5. ASSUME NEW i \in pending, FetchPanics(i) PROVE IInv'
  <2>1. UNCHANGED <<mail, boxes, books>> /\ EndRun /\ pc' = "idle"
    BY <1>5 DEF FetchPanics, EndRun
  <2>2. Clock' /\ NoMessageLost'
    BY <2>1, FrameNoLoss DEF Clock, mail, boxes, books
  <2> QED
    BY <1>0, <2>1, <2>2, EndRunInv
<1>3. CASE FetchDone
  <2>1. Clock' /\ NoMessageLost'
    BY <1>3, FrameClock, FrameNoLoss DEF FetchDone, boxes, books, head
  <2>2. Stages' /\ OkIsEntered'
    BY <1>3 DEF FetchDone, Stages, OkIsEntered, books, head, work
  <2>3. HandlesFresh'
    BY <1>3, FrameFresh DEF FetchDone, boxes, work, Handles
  <2>4. WaitingInHand'
    BY <1>3 DEF FetchDone, WaitingInHand, InHand, Waiting, head, work, books, mail
  <2> QED
    BY <1>0, <2>1, <2>2, <2>3, <2>4
<1>4. CASE MoveParseFailed
  <2>1. UNCHANGED <<mail, boxes, books, head, since, work>>
        /\ pc = "moveFailed" /\ pc' = "register"
    BY <1>4 DEF MoveParseFailed, Without, HandlesFresh
  <2>2. Clock' /\ NoMessageLost'
    BY <2>1, FrameClock, FrameNoLoss DEF boxes, books, head
  <2>3. Stages' /\ OkIsEntered'
    BY <2>1 DEF Stages, OkIsEntered, books, head, work
  <2>4. HandlesFresh'
    BY <2>1, FrameFresh DEF boxes, work, Handles
  <2>5. WaitingInHand'
    BY <2>1 DEF WaitingInHand, InHand, Waiting, head, work, books, mail
  <2> QED
    BY <1>0, <2>2, <2>3, <2>4, <2>5
<1> QED
  BY <1>1, <1>2, <1>3, <1>4, <1>5

LEMMA InvRegister ==
  ASSUME SafeInstance, IInv,
         \/ \E t \in trxs : RegisterOk(t) \/ RegisterFail(t) \/ RegisterLostAck(t)
                           \/ Abandon(t)
         \/ RegisterDone
  PROVE  IInv'
<1> USE DEF IInv, BeyondFallback
<1>0. TypeOK'
  BY TypeRunStep DEF RunStep
<1>1. ASSUME NEW t \in trxs,
             RegisterOk(t) \/ RegisterFail(t) \/ RegisterLostAck(t) \/ Abandon(t)
      PROVE  IInv'
  <2>1. /\ UNCHANGED <<mail, boxes, watermark, pc, head, since, pending, parseFailed>>
        /\ pc = "register" /\ trxs' = trxs \ {t}
        /\ Handles' \subseteq Handles
    BY <1>1 DEF RegisterOk, RegisterFail, NoteFailed, RegisterLostAck, Abandon, Handles, books
  <2>2. t.msg \in Msg
    BY DEF TypeOK, WorkTypeOK, Handle
  <2>3. \/ UNCHANGED entries
        \/ entries' = [entries EXCEPT ![t.msg] = @ + 1]
    BY <1>1 DEF RegisterOk, RegisterFail, NoteFailed, RegisterLostAck, Abandon, books
  <2>4. \A m \in Msg : entries'[m] \in Nat /\ entries[m] \in Nat /\ entries'[m] >= entries[m]
    BY <2>2, <2>3 DEF TypeOK, BookTypeOK
  <2>5. Clock'
    BY <2>1, FrameClock DEF head
  <2>6. NoMessageLost'
    <3>1. \A m \in Msg : entries'[m] = 0 => entries[m] = 0
      BY <2>4
    <3> QED
      BY <2>1, <3>1, FrameNoLoss DEF boxes
  <2>7. Stages'
    BY <1>1, <2>1 DEF Stages
  <2>8. HandlesFresh'
    BY <2>1, FrameFresh DEF boxes
  <2>9. OkIsEntered'
    <3> SUFFICES ASSUME ~dryRun, NEW h \in ok' PROVE entries'[h.msg] >= 1
      BY <2>1 DEF OkIsEntered, head
    <3>1. h.msg \in Msg
      BY <1>0 DEF TypeOK, WorkTypeOK, Handle
    <3>2. CASE h \in ok
      BY <2>4, <3>1, <3>2 DEF OkIsEntered
    <3>3. CASE h \notin ok
      <4>1. RegisterOk(t) /\ h = t
        BY <1>1, <3>3 DEF RegisterOk, RegisterFail, NoteFailed, RegisterLostAck, Abandon
      <4>2. entries' = [entries EXCEPT ![t.msg] = @ + 1]
        BY <4>1 DEF RegisterOk
      <4> QED
        BY <2>2, <4>1, <4>2 DEF TypeOK, BookTypeOK
    <3> QED
      BY <3>2, <3>3
  <2>10. WaitingInHand'
    <3> SUFFICES ASSUME NEW m \in Msg, Waiting(m)' PROVE InHand(m)'
      BY DEF WaitingInHand
    <3>1. Waiting(m)
      BY <2>1, <2>4 DEF Waiting, mail
    <3>2. InHand(m)
      BY <2>1, <3>1 DEF WaitingInHand
    <3>3. ASSUME NEW h \in trxs \cup failed, h.msg = m PROVE InHand(m)'
      <4>1. CASE h \in trxs' \cup failed'
        BY <3>3, <4>1 DEF InHand
      <4>2. CASE h \notin trxs' \cup failed'
        <5>1. h = t
          BY <1>1, <4>2 DEF RegisterOk, RegisterFail, NoteFailed, RegisterLostAck, Abandon
        <5>2. CASE RegisterOk(t)
          <6>1. ~dryRun => entries'[m] = entries[m] + 1
            BY <2>2, <3>3, <5>1, <5>2 DEF RegisterOk, TypeOK, BookTypeOK
          <6>2. dryRun
            BY <2>4, <3>1, <6>1 DEF Waiting
          <6> QED
            BY <2>1, <6>2 DEF InHand, head
        <5>3. CASE Abandon(t)
          BY <5>3 DEF Abandon, InHand, head
        <5> QED
          BY <1>1, <4>2, <5>1, <5>2, <5>3 DEF RegisterFail, NoteFailed, RegisterLostAck
      <4> QED
        BY <4>1, <4>2
    <3> QED
      BY <2>1, <3>2, <3>3 DEF InHand, head, mail
  <2> QED
    BY <1>0, <2>5, <2>6, <2>7, <2>8, <2>9, <2>10
<1>2. CASE RegisterDone
  <2>1. Clock' /\ NoMessageLost'
    BY <1>2, FrameClock, FrameNoLoss DEF RegisterDone, boxes, books, head
  <2>2. Stages' /\ OkIsEntered'
    BY <1>2 DEF RegisterDone, Stages, OkIsEntered, books, head, work
  <2>3. HandlesFresh'
    BY <1>2, FrameFresh DEF RegisterDone, boxes, work, Handles
  <2>4. WaitingInHand'
    BY <1>2 DEF RegisterDone, WaitingInHand, InHand, Waiting, head, work, books, mail
  <2> QED
    BY <1>0, <2>1, <2>2, <2>3, <2>4
<1> QED
  BY <1>1, <1>2

LEMMA InvClosing ==
  ASSUME SafeInstance, IInv, MoveSuccessful \/ Save \/ Notify
  PROVE  IInv'
<1> USE DEF IInv, BeyondFallback
<1>0. TypeOK'
  BY TypeRunStep DEF RunStep
<1>1. CASE MoveSuccessful
  <2>1. /\ pc = "moveSuccess" /\ pc' = "save"
        /\ UNCHANGED <<mail, books, head, since, work>>
    BY <1>1 DEF MoveSuccessful, ArchiveAll, ArchiveErrs, Without, Archivable
  <2>2. \/ dryRun /\ inbox' = inbox
        \/ ~dryRun /\ \A n \in inbox : n \notin inbox' => n \in Named(Ids(ok))
    BY <1>1 DEF MoveSuccessful, ArchiveAll, ArchiveErrs, Without, Archivable, boxes
  <2>3. ASSUME ~dryRun, NEW n \in Named(Ids(ok)) PROVE entries[n] >= 1
    <3>1. PICK h \in ok : h.id = SeqNum(n)
      BY <2>3 DEF Named, Ids
    <3>2. h.msg \in inbox /\ h.id = SeqNum(h.msg)
      BY <2>1 DEF HandlesFresh, Handles
    <3>3. n = h.msg
      <4>1. n \in inbox
        BY DEF Named
      <4> QED
        BY <3>1, <3>2, <4>1, SeqNumInjective
    <3> QED
      BY <2>3, <3>3 DEF OkIsEntered
  <2>4. NoMessageLost'
    <3> SUFFICES ASSUME NEW m \in Msg, Waiting(m)
                 PROVE  /\ m \in inbox'
                        /\ received[m] >= watermark - GraceDays \/ BeyondFallback(m)
      BY <2>1 DEF NoMessageLost, Waiting, mail, books
    <3>1. /\ m \in inbox /\ entries[m] = 0
          /\ received[m] >= watermark - GraceDays \/ BeyondFallback(m)
      BY DEF NoMessageLost, Waiting
    <3> QED
      BY <2>2, <2>3, <3>1
  <2>5. Clock'
    BY <2>1, FrameClock DEF books, head
  <2>6. Stages' /\ OkIsEntered' /\ HandlesFresh'
    BY <2>1 DEF Stages, OkIsEntered, HandlesFresh, books, head, work
  <2>7. WaitingInHand'
    BY <2>1 DEF WaitingInHand, InHand, Waiting, head, work, books, mail
  <2> QED
    BY <1>0, <2>4, <2>5, <2>6, <2>7
<1>2. CASE Save
  <2>1. /\ pc = "save" /\ pc' = "notify"
        /\ UNCHANGED <<mail, boxes, entries, head, since, work>>
    BY <1>2 DEF Save, MaySave
  <2>2. CASE UNCHANGED watermark
    <3>1. Clock' /\ NoMessageLost'
      BY <2>1, <2>2, FrameClock, FrameNoLoss DEF boxes, head
    <3>2. Stages' /\ OkIsEntered' /\ HandlesFresh' /\ WaitingInHand'
      BY <2>1 DEF Stages, OkIsEntered, HandlesFresh, WaitingInHand, InHand,
                  Waiting, head, work, mail
    <3> QED
      BY <1>0, <3>1, <3>2
  <2>3. CASE ~dryRun /\ ~ctxDone /\ watermark' \in EarliestUnfinished
    <3>1. watermark' <= today /\ \A h \in failed : watermark' <= sent[h.msg]
      BY <2>3 DEF EarliestUnfinished, Msgs
    <3>2. Clock'
      BY <2>1, <3>1 DEF Clock, mail, head
    <3>3. NoMessageLost'
      <4> SUFFICES ASSUME NEW m \in Msg, Waiting(m)
                   PROVE  /\ m \in inbox
                          /\ received[m] >= watermark' - GraceDays \/ BeyondFallback(m)
        BY <2>1 DEF NoMessageLost, Waiting, mail, boxes
      <4>0. m \in inbox /\ InHand(m) /\ trxs = {}
        BY <2>1 DEF NoMessageLost, WaitingInHand, Stages
      <4>1. /\ received[m] \in Int /\ sent[m] \in Int /\ watermark' \in Int
            /\ startDay \in Int /\ today \in Int
            /\ GraceDays \in Int /\ Skew \in Int /\ RunSpan \in Int
        BY <1>0, ParameterAssumption
        DEF TypeOK, MailTypeOK, BookTypeOK, HeadTypeOK
      <4>2. CASE received[m] >= startDay
        BY <2>1, <3>1, <4>0, <4>1, <4>2 DEF Clock, SafeInstance
      <4>3. ASSUME NEW h \in failed, h.msg = m
            PROVE  received[m] >= watermark' - GraceDays
        BY <3>1, <4>1, <4>3 DEF Clock, SafeInstance
      <4> QED
        BY <2>1, <2>3, <4>0, <4>2, <4>3 DEF InHand
    <3>4. Stages' /\ OkIsEntered' /\ HandlesFresh' /\ WaitingInHand'
      BY <2>1 DEF Stages, OkIsEntered, HandlesFresh, WaitingInHand, InHand,
                  Waiting, head, work, mail
    <3> QED
      BY <1>0, <3>2, <3>3, <3>4
  <2> QED
    BY <1>2, <2>2, <2>3 DEF Save, MaySave
<1>3. CASE Notify
  <2>1. UNCHANGED <<mail, boxes, watermark, entries>> /\ EndRun /\ pc' = "idle"
    BY <1>3 DEF Notify, Registries, EndRun
  <2>2. Clock' /\ NoMessageLost'
    BY <2>1, FrameNoLoss DEF Clock, mail, boxes
  <2> QED
    BY <1>0, <2>1, <2>2, EndRunInv
<1> QED
  BY <1>1, <1>2, <1>3

LEMMA InvStutter == IInv /\ UNCHANGED vars => IInv'
<1> SUFFICES ASSUME IInv, UNCHANGED vars PROVE IInv'
  OBVIOUS
<1>1. TypeOK'
  BY TypeStutter DEF IInv
<1>2. Clock' /\ NoMessageLost'
  BY FrameClock, FrameNoLoss DEF IInv, vars, boxes, books, head
<1>3. HandlesFresh'
  BY FrameFresh DEF IInv, vars, boxes, work, Handles
<1>4. Stages' /\ OkIsEntered' /\ WaitingInHand'
  BY SeqNumSame
  DEF IInv, vars, Stages, OkIsEntered, WaitingInHand, InHand, Waiting, BeyondFallback,
      head, work, books, mail, boxes
<1> QED
  BY <1>1, <1>2, <1>3, <1>4 DEF IInv

(* IInv is an invariant of every safe instance. *)
THEOREM InductiveInvariant == SafeInstance => (Spec => []IInv)
<1> SUFFICES ASSUME SafeInstance PROVE Spec => []IInv
  OBVIOUS
<1>1. IInv /\ [Next]_vars => IInv'
  BY InvEnvironment, InvBeforeFetch, InvFetch, InvRegister, InvClosing, InvStutter,
     StartsAre
  DEF Next, RunStep
<1> QED
  BY <1>1, InvInit, PTL DEF Spec

(* No transaction is lost, for every number of mails, days and runs,        *)
(* whatever moves, saves, reads, registrations and answers fail, and        *)
(* wherever the process dies or is cancelled: a bank mail without an entry  *)
(* stays in the INBOX and within reach of the next run's search.            *)
THEOREM NothingLost == SafeInstance => (Spec => []NoMessageLost)
<1>1. IInv => NoMessageLost
  BY DEF IInv
<1> QED
  BY <1>1, InductiveInvariant, PTL
=============================================================================
