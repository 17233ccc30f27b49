---------------------------- MODULE ResultStream ----------------------------
(***************************************************************************)
(* What both worker pools of the program promise to Sync.Run, which ranges *)
(* over their result channel: every job is answered at most once, a job is *)
(* given up only after something went wrong, and the channel is closed     *)
(* only when every job is settled, after which nothing is sent.            *)
(***************************************************************************)
CONSTANT Job

VARIABLES open, answered, excused, closed

vars == <<open, answered, excused, closed>>

Init == open = Job /\ answered = {} /\ excused = FALSE /\ closed = FALSE

Answer(j) ==
  /\ ~closed /\ j \in open
  /\ open' = open \ {j}
  /\ answered' = answered \cup {j}
  /\ UNCHANGED <<excused, closed>>

(* A cancelled context, or a failure of the job's source. *)
Excuse ==
  /\ excused' = TRUE
  /\ UNCHANGED <<open, answered, closed>>

GiveUp(S) ==
  /\ excused /\ S \subseteq open
  /\ open' = open \ S
  /\ UNCHANGED <<answered, excused, closed>>

Close ==
  /\ open = {} /\ closed' = TRUE
  /\ UNCHANGED <<open, answered, excused>>

Next ==
  \/ \E j \in Job : Answer(j)
  \/ Excuse
  \/ \E S \in SUBSET Job : GiveUp(S)
  \/ Close

Spec == Init /\ [][Next]_vars
=============================================================================
