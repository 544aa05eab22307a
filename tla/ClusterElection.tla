--------------------------- MODULE ClusterElection ---------------------------
(***************************************************************************)
(* The election of the cluster manager that serves, and the copies of its   *)
(* data that the others keep (source/cluster_manager/clusterManager.js,     *)
(* runAsFollower, runAsLeader, runAsCandidate).  A handler holds the mutex  *)
(* of its process from its first line to its last, so it is one step.       *)
(*                                                                         *)
(* Of the state in the code, prevLogIndex and commitId are equal between    *)
(* two handlers: both are index here.                                       *)
(***************************************************************************)
EXTENDS Integers, Sequences, FiniteSets, SequencesExt

CONSTANTS Managers,
          NoOne,       \* leaderId 0, lastVoteFor DEFAULT_DATA
          MaxElections, \* bound: candidatures
          MaxUpdates,  \* bound: changes of the data of a leader
          MaxQuits     \* bound: leaders that do not hear themselves

ASSUME ElectionAssumption ==
  /\ IsFiniteSet(Managers) /\ NoOne \notin Managers
  /\ MaxElections \in Nat /\ MaxUpdates \in Nat /\ MaxQuits \in Nat

DEFAULT_DATA == -1
None == <<>>

VARIABLES
  manager,   \* the state of each process, and the data of its manager
  inbox,     \* messages on the topics a process has subscribed to, in order
  updates,   \* changes made to the data of leaders
  quits,     \* leaders that gave up
  elections, \* candidatures
  votes,     \* all votes that were given: voter, term, candidate
  regressed  \* a candidate has followed a leader of an earlier term

electionVars == <<manager, inbox, updates, quits, elections, votes, regressed>>

\* Some of the managers may not be there at all.
ElectionInit ==
  /\ \E absent \in SUBSET Managers : manager = [n \in Managers |->
       [role |-> IF n \in absent THEN "absent" ELSE "follower", term |-> DEFAULT_DATA, leaderId |-> NoOne,
        index |-> DEFAULT_DATA, logTerm |-> DEFAULT_DATA,
        lastVoteTerm |-> DEFAULT_DATA, lastVoteFor |-> NoOne, voters |-> {},
        asks |-> 0, isFreshman |-> TRUE, data |-> None]]
  /\ inbox = [n \in Managers |-> None]
  /\ updates \in 0..MaxUpdates /\ quits = 0 /\ elections \in 0..MaxElections /\ votes = {} /\ regressed = FALSE

\* What a step works on: the processes and what is under way between them.
State == [of |-> manager, inbox |-> inbox]

Message(s, n, type) ==
  [type |-> type, id |-> n, term |-> s.of[n].term, index |-> s.of[n].index,
   logTerm |-> s.of[n].logTerm, data |-> None]

\* publish on clusterManager.<role>, and on clusterManager.<role>.<id>.
PublishOn(s, role, m) ==
  [s EXCEPT !.inbox = [n \in Managers |->
     IF s.of[n].role = role THEN Append(@[n], m) ELSE @[n]]]
SendTo(s, role, n, m) ==
  IF s.of[n].role = role THEN [s EXCEPT !.inbox[n] = Append(@, m)] ELSE s

\* A change of role ends the subscription to the topics of the old one.
ChangeRole(s, n, role, term) ==
  [s EXCEPT !.of[n] = [@ EXCEPT !.role = role, !.term = term, !.leaderId = NoOne, !.asks = 0],
            !.inbox[n] = None]

\* unserve: the next changes are for a freshman, who leaves them.
LeaveOffice(s, n, term) == [ChangeRole(s, n, "follower", term) EXCEPT !.of[n].isFreshman = TRUE]

\* leaderLoop and serve.
SendHeartbeat(s, n) ==
  LET m      == Message(s, n, "heartbeart")
      others == [s EXCEPT !.of[n].role = "none"]
      sent   == PublishOn(PublishOn(PublishOn(others, "leader", m), "follower", m), "candidate", m)
  IN  [s EXCEPT !.inbox = sent.inbox]
RunAsLeader(s, n) ==
  SendHeartbeat([ChangeRole(s, n, "leader", s.of[n].term) EXCEPT !.of[n].isFreshman = FALSE], n)

\* init and requestVote of a candidate, who hears itself.
RunAsCandidate(s, n) ==
  LET on == [s EXCEPT !.of[n] = [@ EXCEPT !.term = s.of[n].term + 1, !.lastVoteFor = NoOne,
                                          !.voters = {}, !.leaderId = NoOne]]
      m  == Message(on, n, "requestVote")
  IN  PublishOn(PublishOn(on, "follower", m), "candidate", m)

-----------------------------------------------------------------------------
(* requestVote *)

ResponseVote(s, n, m, granted) ==
  SendTo(s, "candidate", m.id,
       [type |-> "responseVote", id |-> m.id, voteGranted |-> granted, term |-> s.of[n].term,
        voteForTerm |-> m.term, voter |-> n])

\* The log of the one who asks is older than that of the one who is asked.
PrevLogTermGreater(own, m) ==
  own.index # DEFAULT_DATA /\ own.index # m.index /\ own.logTerm > m.logTerm
CommitIdGreater(own, m) ==
  own.index # DEFAULT_DATA /\ own.logTerm <= m.logTerm /\ own.index > m.index
OlderNode(own, m) == PrevLogTermGreater(own, m) \/ CommitIdGreater(own, m)

AnyCandidate(own, m) == FALSE
HasVoted(own, m) == own.lastVoteFor # NoOne /\ own.lastVoteTerm = m.term

\* A follower does not answer a second candidate of a term, a candidate refuses it.
VoteAgain(s, n, m, role) ==
  IF s.of[n].lastVoteFor = m.id THEN ResponseVote(s, n, m, TRUE)
  ELSE IF role = "candidate" THEN ResponseVote(s, n, m, FALSE) ELSE s

Vote(s, n, m) ==
  ResponseVote([s EXCEPT !.of[n] = [@ EXCEPT !.lastVoteTerm = m.term, !.lastVoteFor = m.id,
                                             !.term = m.term]], n, m, TRUE)

\* From where a newer term has been taken over.
ConsiderVote(s, n, m, role) ==
  IF HasVoted(s.of[n], m) THEN VoteAgain(s, n, m, role)
  ELSE IF OlderNode(s.of[n], m) THEN ResponseVote(s, n, m, FALSE) ELSE Vote(s, n, m)

FollowerRequestVote(s, n, m) ==
  IF s.of[n].leaderId \notin {NoOne, m.id} \/ m.term < s.of[n].term
    THEN ResponseVote(s, n, m, FALSE)
    ELSE ConsiderVote([s EXCEPT !.of[n].term = m.term], n, m, "follower")

\* A candidate that meets a newer term becomes a follower and goes on with the handler.
CandidateRequestVote(s, n, m) ==
  IF m.term < s.of[n].term THEN ResponseVote(s, n, m, FALSE)
  ELSE IF m.term = s.of[n].term THEN ConsiderVote(s, n, m, "candidate")
  ELSE ConsiderVote(ChangeRole(s, n, "follower", m.term), n, m, "candidate")

CandidateResponseVote(s, n, m) ==
  LET own     == s.of[n]
      counted == [s EXCEPT !.of[n].voters = @ \cup {m.voter}]
  IN  IF m.voteForTerm # own.term THEN s
      ELSE IF m.term > own.term THEN ChangeRole(s, n, "follower", m.term)
      ELSE IF ~m.voteGranted \/ m.voter \in own.voters THEN s
      ELSE IF Cardinality(counted.of[n].voters) > Cardinality(Managers) \div 2
        THEN RunAsLeader(counted, n) ELSE counted

-----------------------------------------------------------------------------
(* Heartbeats, changes of the data, and copies of all of it.                *)

CandidateHeartbeat(s, n, m) ==
  IF OlderNode(s.of[n], m) THEN s ELSE ChangeRole(s, n, "follower", m.term)

OfAnother(own, m) == own.leaderId \notin {NoOne, m.id} \/ own.term > m.term

FollowerHeartbeat(s, n, m) ==
  IF OfAnother(s.of[n], m) \/ PrevLogTermGreater(s.of[n], m) THEN s
  ELSE [s EXCEPT !.of[n] = [@ EXCEPT !.leaderId = m.id, !.term = m.term]]

\* Of two leaders the one of the earlier term gives up.
LeaderHeartbeatStays(s, n, m) == s
LeaderHeartbeat(s, n, m) == IF m.term > s.of[n].term THEN LeaveOffice(s, n, m.term) ELSE s

\* One request at a time; those who wait for it ask again.
Ask(s, n) == SendTo(s, "leader", s.of[n].leaderId, Message(s, n, "installSnapshot"))
InstallSnapshot(s, n) ==
  LET on == [s EXCEPT !.of[n].asks = @ + 1] IN IF s.of[n].asks = 0 THEN Ask(on, n) ELSE on
InstallSnapshotOver(s, n) ==
  LET on == [s EXCEPT !.of[n].asks = IF @ = 0 THEN 0 ELSE @ - 1]
  IN  IF on.of[n].asks > 0 THEN Ask(on, n) ELSE on

\* A freshman leaves a change of the data; a copy of all of it replaces what was there.
SetUpdatedData(own, change) == IF own.isFreshman THEN own.data ELSE own.data \o change
SetRuntimeData(own, m) == [own EXCEPT !.data = m.data, !.isFreshman = FALSE]

EntryMatches(own, m) ==
  own.index # DEFAULT_DATA /\ own.logTerm = m.logTerm /\ own.index = m.index

FollowerAppendEntry(s, n, m) ==
  LET on == [s EXCEPT !.of[n] = [@ EXCEPT !.leaderId = m.id, !.term = m.term]]
  IN  IF OfAnother(s.of[n], m) THEN s
      ELSE IF ~EntryMatches(s.of[n], m) THEN InstallSnapshot(on, n)
      ELSE [s EXCEPT !.of[n] = [on.of[n] EXCEPT !.index = s.of[n].index + 1, !.logTerm = m.term,
                                                !.data = SetUpdatedData(s.of[n], m.data)]]

\* The snapshot a leader sends when it is asked for one, and the follower that gets it.
LeaderInstallSnapshot(s, n, m) ==
  SendTo(s, "follower", m.id, [Message(s, n, "installSnapshot") EXCEPT !.data = s.of[n].data])
FollowerInstallSnapshot(s, n, m) ==
  IF OfAnother(s.of[n], m) \/ m.index < s.of[n].index THEN s
  ELSE InstallSnapshotOver(
         [s EXCEPT !.of[n] = [SetRuntimeData(@, m) EXCEPT !.index = m.index, !.term = m.term,
                                                           !.logTerm = m.term]], n)

-----------------------------------------------------------------------------

\* onTopicMessage of each role.
Handled(s, n, m) ==
  CASE s.of[n].role = "follower" /\ m.type = "requestVote"       -> FollowerRequestVote(s, n, m)
    [] s.of[n].role = "follower" /\ m.type = "heartbeart"        -> FollowerHeartbeat(s, n, m)
    [] s.of[n].role = "follower" /\ m.type = "appendEntry"       -> FollowerAppendEntry(s, n, m)
    [] s.of[n].role = "follower" /\ m.type = "installSnapshot"   -> FollowerInstallSnapshot(s, n, m)
    [] s.of[n].role = "candidate" /\ m.type = "requestVote"      -> CandidateRequestVote(s, n, m)
    [] s.of[n].role = "candidate" /\ m.type = "responseVote"     -> CandidateResponseVote(s, n, m)
    [] s.of[n].role = "candidate" /\ m.type = "heartbeart"       -> CandidateHeartbeat(s, n, m)
    [] s.of[n].role = "leader" /\ m.type = "heartbeart"          -> LeaderHeartbeat(s, n, m)
    [] s.of[n].role = "leader" /\ m.type = "installSnapshot"     -> LeaderInstallSnapshot(s, n, m)

Do(s) == manager' = s.of /\ inbox' = s.inbox

Receive(n) ==
  /\ inbox[n] # None
  /\ LET m == Head(inbox[n])
         s == Handled([State EXCEPT !.inbox[n] = Tail(@)], n, m)
     IN  /\ Do(s)
         /\ votes' = IF m.type = "requestVote" /\ s.of[n].lastVoteFor = m.id
                          /\ s.of[n].lastVoteTerm = m.term
                       THEN votes \cup {<<n, m.term, m.id>>} ELSE votes
         /\ regressed' = (regressed \/ s.of[n].term < manager[n].term)
  /\ UNCHANGED <<updates, quits, elections>>

\* A candidature is the next term.
Stand(s, n) ==
  /\ elections < MaxElections /\ elections' = elections + 1
  /\ Do(RunAsCandidate(s, n))
  /\ UNCHANGED <<updates, quits, votes, regressed>>

\* No heartbeat for a while.
LoseHeartbeat(n) ==
  manager[n].role = "follower" /\ Stand(ChangeRole(State, n, "candidate", manager[n].term), n)

\* Too few votes.
ElectTimeout(n) == manager[n].role = "candidate" /\ Stand(State, n)

\* A leader does not hear itself.
LoseOwnHeartbeat(n) ==
  /\ manager[n].role = "leader" /\ quits < MaxQuits /\ quits' = quits + 1
  /\ Do(LeaveOffice(State, n, manager[n].term))
  /\ UNCHANGED <<updates, elections, votes, regressed>>

Heartbeat(n) ==
  /\ manager[n].role = "leader"
  /\ \A k \in Managers : \A m \in ToSet(inbox[k]) : ~(m.type = "heartbeart" /\ m.id = n)
  /\ Do(SendHeartbeat(State, n))
  /\ UNCHANGED <<updates, quits, elections, votes, regressed>>

\* A change of the data of the leader, and appendEntry for the others.
DataUpdate(n) ==
  /\ manager[n].role = "leader" /\ updates < MaxUpdates /\ updates' = updates + 1
  /\ LET m == [Message(State, n, "appendEntry") EXCEPT !.data = <<updates + 1>>]
     IN  Do([PublishOn(State, "follower", m) EXCEPT
              !.of[n] = [@ EXCEPT !.index = manager[n].index + 1, !.logTerm = manager[n].term,
                                  !.data = Append(manager[n].data, updates + 1)]])
  /\ UNCHANGED <<quits, elections, votes, regressed>>

SnapshotTimeout(n) ==
  /\ manager[n].asks > 0
  /\ Do(InstallSnapshotOver(State, n))
  /\ UNCHANGED <<updates, quits, elections, votes, regressed>>

ElectionNext ==
  \E n \in Managers :
    \/ Receive(n) \/ LoseHeartbeat(n) \/ ElectTimeout(n) \/ LoseOwnHeartbeat(n)
    \/ Heartbeat(n) \/ DataUpdate(n) \/ SnapshotTimeout(n)

\* Messages arrive and a leader goes on sending its heartbeat.
ElectionFairness ==
  \A n \in Managers : WF_electionVars(Receive(n)) /\ WF_electionVars(Heartbeat(n))

ElectionSpec == ElectionInit /\ [][ElectionNext]_electionVars /\ ElectionFairness

-----------------------------------------------------------------------------

Terms == DEFAULT_DATA..MaxElections
Leaders == {n \in Managers : manager[n].role = "leader"}

\* Types of the variables of the election.
ElectionTypeOK ==
  /\ \A n \in Managers :
       /\ manager[n].role \in {"absent", "follower", "candidate", "leader"}
       /\ manager[n].term \in Terms /\ manager[n].leaderId \in Managers \cup {NoOne}
       /\ manager[n].index \in DEFAULT_DATA..MaxUpdates /\ manager[n].logTerm \in Terms
       /\ manager[n].voters \subseteq Managers /\ manager[n].asks \in Nat
  /\ votes \subseteq Managers \X Terms \X Managers

\* A manager votes once in a term.
OneVotePerTerm == \A v, w \in votes : v[1] = w[1] /\ v[2] = w[2] => v[3] = w[3]

Electors(n) == {v \in Managers : <<v, manager[n].term, n>> \in votes}

\* A leader has the votes of more than half of the managers for its term.
LeaderElected == \A n \in Leaders : 2 * Cardinality(Electors(n)) > Cardinality(Managers)

OneLeaderPerTerm == \A a, b \in Leaders : manager[a].term = manager[b].term => a = b

\* The manager has the data of every change that it counts.
Whole(n) == Len(manager[n].data) = manager[n].index + 1

\* Those whose last entries have the same place and term have the same data, unless one of them
\* counts changes that it has left: it has been leader before, or has got its data from such a one.
ReplicasMatch ==
  \A a, b \in Managers :
    /\ manager[a].index = manager[b].index /\ manager[a].logTerm = manager[b].logTerm
    /\ Whole(a) /\ Whole(b)
    => manager[a].data = manager[b].data

\* What the election promises as long as no candidate goes back to an earlier term.
ElectionSafe == LeaderElected /\ (~regressed => OneVotePerTerm /\ OneLeaderPerTerm /\ ReplicasMatch)

\* What the election promises, with the types of its variables.
ElectionHolds == ElectionTypeOK /\ ElectionSafe

\* Leaders of different terms are not leaders for ever: the senior one is heard.
OneLeaderStays ==
  (\E a, b \in Leaders : manager[a].term < manager[b].term)
    ~> \A a, b \in Leaders : manager[a].term = manager[b].term
=============================================================================
