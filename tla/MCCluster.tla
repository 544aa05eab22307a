------------------------------ MODULE MCCluster ------------------------------
(***************************************************************************)
(* Two systems that do not share state, checked in one run: the scheduling  *)
(* of one task over two workers, and the node pool of one agent.  Which of  *)
(* them runs is chosen initially; the other one rests.                      *)
(***************************************************************************)
EXTENDS ClusterSchedule, NodePool, TLC

CONSTANTS g1, g2, r1, r2

TwoGets == {g1, g2}
TwoRooms == {r1, r2}
\* The calls are for one room or for two.
SameOrNot == {(g1 :> r1) @@ (g2 :> r1), (g1 :> r1) @@ (g2 :> r2)}

VARIABLE system

clusterVars == <<system, scheduleVars, poolVars>>

\* The system that rests is in an initial state in which nothing is due: no agent is there.
ClusterInit ==
  /\ system \in {"schedule", "pool"}
  /\ ScheduleInit /\ PoolInit
  /\ IF system = "schedule" THEN kind = "access" /\ RoomOf[g2] = r2
     ELSE \A w \in Workers : status[w] = "gone"

ClusterNext ==
  \/ system = "schedule" /\ ScheduleNext /\ UNCHANGED <<system, poolVars>>
  \/ system = "pool" /\ PoolNext /\ UNCHANGED <<system, scheduleVars>>

ClusterSpec ==
  ClusterInit /\ [][ClusterNext]_clusterVars /\ ScheduleFairness /\ PoolFairness
=============================================================================
