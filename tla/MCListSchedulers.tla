-------------------------- MODULE MCListSchedulers --------------------------
(***************************************************************************)
(* Both top-down loops for TLC: that of ScheduleDAGList, or that of the    *)
(* post-register-allocation scheduler with its LatencyPriorityQueue.       *)
(***************************************************************************)
EXTENDS PostRAScheduler

CONSTANTS data, order   \* kinds of dependence

VARIABLE loop   \* which of the two runs

postRAVars == <<hazardAvoidance, isAvailable, blocking, cycleInstCnt>>

EitherInit ==
  \/ /\ loop = "SDNodes" /\ Init
     /\ hazardAvoidance = FALSE
     /\ isAvailable = [u \in Nodes |-> FALSE]
     /\ blocking = [u \in Nodes |-> 0]
     /\ cycleInstCnt = FALSE
  \/ loop = "postRA" /\ PInit

EitherNext ==
  /\ UNCHANGED loop
  /\ \/ loop = "SDNodes" /\ Next /\ UNCHANGED postRAVars
     \/ loop = "postRA" /\ PNext

\* Either loop runs on; the hazard recognizer does not object for ever.
EitherSpec ==
  EitherInit /\ [][EitherNext]_<<pvars, loop>> /\ WF_<<pvars, loop>>(EitherNext)

\* What the queue of the post-register-allocation scheduler promises.
PostRAQueueExact == loop = "postRA" => QueueExact
=============================================================================
