------------------------------ MODULE MCAgents ------------------------------
(***************************************************************************)
(* Four systems that do not share state, checked in one run: the election    *)
(* of the cluster manager, the inputs of the selecting audio node and of the *)
(* other media nodes, and a WebRTC node.  Which of them runs is chosen       *)
(* initially; the others rest.                                               *)
(***************************************************************************)
EXTENDS ClusterElection, MediaInputs, WebrtcAgent, TLC

CONSTANTS n1, n2, n3, c1, c2, a, b, pub, sub, sub2

\* One client publishes on a section and subscribes on the other, a second one subscribes.
MCConnectionOf == (pub :> c1) @@ (sub :> c1) @@ (sub2 :> c2)
MCMidsOf == (pub :> {a}) @@ (sub :> {b}) @@ (sub2 :> {b})

VARIABLE system

agentsVars == <<system, electionVars, selectiveVars, nodeVars, agentVars>>

\* Of three managers the third may be down; then the leaders have no data and all candidatures.
Elections ==
  /\ manager[n1].role = "follower" /\ manager[n2].role = "follower"
  /\ IF manager[n3].role = "follower" THEN elections = 1 /\ updates = 1
     ELSE elections = 0 /\ updates = 0

\* The election rests when no manager is there; the others rest when nothing is called.
NoElection == (\A n \in Managers : manager[n].role = "absent") /\ elections = 0 /\ updates = 0

AgentsInit ==
  /\ system \in {"election", "selective", "node", "webrtc"}
  /\ ElectionInit /\ SelectiveInit /\ NodeInit /\ AgentInit
  /\ IF system = "election" THEN Elections ELSE NoElection
  /\ system # "node" => service = "mixing"

AgentsNext ==
  \/ /\ system = "election" /\ ElectionNext
     /\ UNCHANGED <<system, selectiveVars, nodeVars, agentVars>>
  \/ /\ system = "selective" /\ SelectiveNext
     /\ UNCHANGED <<system, electionVars, nodeVars, agentVars>>
  \/ /\ system = "node" /\ NodeNext
     /\ UNCHANGED <<system, electionVars, selectiveVars, agentVars>>
  \/ /\ system = "webrtc" /\ AgentNext
     /\ UNCHANGED <<system, electionVars, selectiveVars, nodeVars>>

AgentsSpec == AgentsInit /\ [][AgentsNext]_agentsVars /\ ElectionFairness
=============================================================================
