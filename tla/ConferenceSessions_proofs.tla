----------------------- MODULE ConferenceSessions_proofs -----------------------
(***************************************************************************)
(* What holds of ConferenceSessions for every number of participants,       *)
(* sessions, transports and nodes, every placement and any bound of faults. *)
(***************************************************************************)
EXTENDS ConferenceSessions, FiniteSetTheorems, TLAPS

\* A transport in the map has the locality it was set up with: it is entered by
\* _createTransportIfNeeded only when the worker node is there, and never deleted.
TransportPlaced ==
  \A t \in Transports : transports[t] # "none" => locality[t] \in Nodes

\* A transport that is given back has the locality it was reached by.
RecycledPlaced == \A t \in recycling : locality[t] \in Nodes

\* The invariant the steps preserve.  OperationHasTransport alone is not inductive: an
\* operation that starts on a known transport needs that transport to be placed; and the client
\* that recycleNode closes has to be one of a node.
IInv == TypeOK /\ TransportPlaced /\ RecycledPlaced /\ OperationHasTransport

-----------------------------------------------------------------------------
(* The calls one handler makes of another                                   *)

LEMMA TransportOfSession ==
  ASSUME NEW s \in Sessions
  PROVE  TransportOf[s] \in Transports /\ Owner[s] \in Participants
BY SessionAssumption

LEMMA ReachedIsPart ==
  ASSUME NEW S, NEW Bad, NEW T \in Reached(S, Bad)
  PROVE  T \subseteq S /\ T \cap Bad = {}
BY DEF Reached

\* The terminations removeStream starts are of subscriptions in the map.
LEMMA LostSourceIsInMap ==
  ASSUME NEW R, NEW inMap \in SUBSET Subs, NEW T \in LostSource(R, inMap)
  PROVE  T \subseteq Subs
<1> DEFINE live == {s \in R : streams[s] # "none"}
           hit  == UNION {SubscribersOf(s, inMap) : s \in live}
           S    == {b \in hit : operations[b] # "none"}
           Bad  == {b \in hit : TerminateThrows(b)}
<1>1. hit \subseteq inMap
  BY DEF SubscribersOf
<1>2. T \in Reached(S, Bad)
  BY DEF LostSource
<1>3. T \subseteq S
  BY <1>2, ReachedIsPart
<1> QED
  BY <1>1, <1>3

LEMMA RemoveSessionType ==
  ASSUME TypeOK, NEW s \in Sessions,
         NEW pending \in SUBSET (Sessions \X {"request", "leave"}),
         RemoveSession(s, pending)
  PROVE  /\ streams' \in [Streams -> {"none", "connecting", "ready"}]
         /\ subs' \in [Subs -> {"none", "connecting", "ready"}]
         /\ terminating' \subseteq Sessions \X {"request", "leave"}
<1>1. InMap \in SUBSET Subs
  BY DEF InMap
<1>2. CASE s \in Streams /\ streams' = RemoveStreams({s}, InMap)
           /\ (\E T \in LostSource({s}, InMap) : terminating' = pending \cup ByRequest(T))
           /\ UNCHANGED subs
  <2>1. PICK T \in LostSource({s}, InMap) : terminating' = pending \cup ByRequest(T)
    BY <1>2
  <2>2. T \subseteq Sessions
    BY <2>1, <1>1, LostSourceIsInMap DEF Sessions
  <2>3. streams' \in [Streams -> {"none", "connecting", "ready"}]
    BY <1>2 DEF RemoveStreams, TypeOK
  <2> QED
    BY <1>2, <2>1, <2>2, <2>3 DEF TypeOK, ByRequest
<1>3. CASE s \in Subs /\ subs' = RemoveSubs({s}) /\ terminating' = pending /\ UNCHANGED streams
  BY <1>3 DEF RemoveSubs, TypeOK
<1> QED
  BY <1>2, <1>3 DEF RemoveSession

LEMMA RemoveParticipantType ==
  ASSUME TypeOK, NEW p \in Participants,
         NEW pending \in SUBSET (Sessions \X {"request", "leave"}),
         RemoveParticipant(p, pending)
  PROVE  /\ streams' \in [Streams -> {"none", "connecting", "ready"}]
         /\ subs' \in [Subs -> {"none", "connecting", "ready"}]
         /\ terminating' \subseteq Sessions \X {"request", "leave"}
         /\ participants' \subseteq Participants
<1> DEFINE rest == InMap \ SessionsOf(p)
<1>1. rest \in SUBSET Subs
  BY DEF InMap
<1>2. PICK T \in LostSource(Streams \cap SessionsOf(p), rest) :
        terminating' = pending \cup ByRequest(T)
  BY DEF RemoveParticipant
<1>3. T \subseteq Sessions
  BY <1>1, <1>2, LostSourceIsInMap DEF Sessions
<1>4. terminating' \subseteq Sessions \X {"request", "leave"}
  BY <1>2, <1>3 DEF ByRequest
<1>5. streams' \in [Streams -> {"none", "connecting", "ready"}]
  BY DEF RemoveParticipant, RemoveStreams, TypeOK
<1>6. subs' \in [Subs -> {"none", "connecting", "ready"}]
  BY DEF RemoveParticipant, RemoveSubs, TypeOK
<1> QED
  BY <1>4, <1>5, <1>6 DEF RemoveParticipant, TypeOK

LEMMA EstablishedType ==
  ASSUME TypeOK, NEW E \in SUBSET Sessions, Established(E)
  PROVE  /\ streams' \in [Streams -> {"none", "connecting", "ready"}]
         /\ adding' \subseteq Subs
         /\ terminating' \subseteq Sessions \X {"request", "leave"}
BY DEF Established, ByRequest, TypeOK, Sessions

\* Neither the removal of sessions nor their establishment makes one ready that must not.
LEMMA RemovalReadiesNothing ==
  ASSUME TypeOK, NEW R, NEW inMap
  PROVE  /\ \A s \in Streams : RemoveStreams(R, inMap)[s] = "ready" => streams[s] = "ready"
         /\ \A b \in Subs : RemoveSubs(R)[b] = "ready" => subs[b] = "ready"
BY DEF RemoveStreams, RemoveSubs, TypeOK
-----------------------------------------------------------------------------
(* Types                                                                    *)

LEMMA InitIInv == Init => IInv
BY SessionAssumption, LimitAssumption
   DEF Init, IInv, TypeOK, TransportPlaced, RecycledPlaced, OperationHasTransport

\* FailTransports and FailRequest keep the types of what they change.
LEMMA FailTransportsType ==
  ASSUME TypeOK, RecycledPlaced, UNCHANGED locality,
         NEW T \in SUBSET Transports, FailTransports(T), \A t \in T : Reachable(t)
  PROVE  recycling' \subseteq Transports /\ onNode' \subseteq Sessions /\ RecycledPlaced'
BY DEF FailTransports, Reachable, RecycledPlaced, TypeOK

LEMMA FailLoopType ==
  ASSUME TypeOK, RecycledPlaced, UNCHANGED locality, NEW S \in SUBSET Transports, FailLoop(S)
  PROVE  /\ recycling' \subseteq Transports /\ onNode' \subseteq Sessions /\ RecycledPlaced'
         /\ astray' \subseteq Transports
<1>1. PICK T \in Reached(S, {t \in S : ~Reachable(t)}) :
        FailTransports(T) /\ astray' = astray \cup (S \ T)
  BY DEF FailLoop
<1>2. T \in SUBSET Transports /\ \A t \in T : Reachable(t)
  BY <1>1, ReachedIsPart
<1> QED
  BY <1>1, <1>2, FailTransportsType DEF TypeOK

LEMMA TransportsOfType ==
  ASSUME NEW p
  PROVE  TransportsOf(p) \in SUBSET Transports
BY TransportOfSession DEF TransportsOf, SessionsOf

LEMMA FailRequestType ==
  ASSUME TypeOK, NEW s \in Sessions, FailRequest(s)
  PROVE  /\ request' \in [Sessions -> {"new", "scheduling", "initiating", "ok", "error"}]
         /\ streams' \in [Streams -> {"none", "connecting", "ready"}]
         /\ subs' \in [Subs -> {"none", "connecting", "ready"}]
         /\ terminating' \subseteq Sessions \X {"request", "leave"}
BY RemoveSessionType DEF FailRequest, TypeOK

\* The requests of the portal keep the invariant.
LEMMA AskKeeps ==
  ASSUME IInv, Ask
  PROVE  IInv'
<1> USE DEF IInv, confVars, rtcVars, nodeVars, tally, faults
<1>1. ASSUME NEW p \in Participants, Join(p) PROVE IInv'
  BY <1>1 DEF Join, TypeOK, TransportPlaced, RecycledPlaced, OperationHasTransport
<1>2. ASSUME NEW p \in Participants, Leave(p) PROVE IInv'
  <2> DEFINE owned == {s \in SessionsOf(p) : operations[s] # "none"}
             throwing == {s \in owned : TerminateThrows(s)}
  <2>1. /\ client' = [client EXCEPT ![p] = "gone"]
        /\ UNCHANGED <<adding, request, rtcVars, clients, leases, tally>>
    BY <1>2 DEF Leave
  <2>2. TransportPlaced' /\ OperationHasTransport'
    BY <2>1 DEF TransportPlaced, RecycledPlaced, OperationHasTransport
  <2>3. owned \subseteq Sessions /\ TransportsOf(p) \in SUBSET Transports
    BY TransportsOfType DEF SessionsOf
  <2>4. CASE p \notin participants
    BY <1>2, <2>1, <2>2, <2>4 DEF Leave, TypeOK, RecycledPlaced
  <2>5. CASE p \in participants
    <3>1. PICK T \in Reached(owned, throwing) :
            IF throwing # {}
            THEN /\ terminating' = terminating \cup (T \X {"leave"})
                 /\ UNCHANGED <<participants, streams, subs, reaping, recycling, onNode, astray>>
            ELSE /\ RemoveParticipant(p, terminating \cup (T \X {"leave"}))
                 /\ IF owned = {}
                    THEN FailLoop(TransportsOf(p)) /\ UNCHANGED reaping
                    ELSE /\ reaping' = [reaping EXCEPT ![p] = TransportsOf(p)]
                         /\ UNCHANGED <<recycling, onNode, astray>>
      BY <1>2, <2>5 DEF Leave
    <3>2. T \subseteq Sessions
      BY <2>3, <3>1, ReachedIsPart
    <3>3. terminating \cup (T \X {"leave"}) \in SUBSET (Sessions \X {"request", "leave"})
      BY <3>2 DEF TypeOK
    <3>4. CASE throwing # {}
      BY <2>1, <2>2, <3>1, <3>3, <3>4 DEF TypeOK, RecycledPlaced
    <3>5. CASE throwing = {}
      <4>1. RemoveParticipant(p, terminating \cup (T \X {"leave"}))
        BY <3>1, <3>5
      <4>2. /\ streams' \in [Streams -> {"none", "connecting", "ready"}]
            /\ subs' \in [Subs -> {"none", "connecting", "ready"}]
            /\ terminating' \subseteq Sessions \X {"request", "leave"}
            /\ participants' \subseteq Participants
        BY <3>3, <4>1, RemoveParticipantType
      <4>3. /\ recycling' \subseteq Transports /\ onNode' \subseteq Sessions
            /\ reaping' \in [Participants -> SUBSET Transports] /\ RecycledPlaced'
            /\ astray' \subseteq Transports
        <5>1. CASE owned = {}
          <6>1. FailLoop(TransportsOf(p)) /\ UNCHANGED reaping
            BY <3>1, <3>5, <5>1
          <6> QED
            BY <2>1, <2>3, <6>1, FailLoopType DEF TypeOK
        <5>2. CASE owned # {}
          BY <2>1, <2>3, <3>1, <3>5, <5>2 DEF TypeOK, RecycledPlaced
        <5> QED
          BY <5>1, <5>2
      <4> QED
        BY <2>1, <2>2, <4>2, <4>3 DEF TypeOK
    <3> QED
      BY <3>4, <3>5
  <2> QED
    BY <2>4, <2>5
<1>3. ASSUME NEW p \in Participants, Drop(p) PROVE IInv'
  <2>1. RemoveParticipant(p, terminating)
    BY <1>3 DEF Drop
  <2>2. astray' \subseteq Transports
    BY <1>3, TransportsOfType DEF Drop, TypeOK
  <2> QED
    BY <1>3, <2>1, <2>2, RemoveParticipantType
       DEF Drop, TypeOK, TransportPlaced, RecycledPlaced, OperationHasTransport
<1>4. ASSUME NEW s \in Sessions, Initiate(s),
             UNCHANGED <<transports, locality>>
      PROVE  /\ request' \in [Sessions -> {"new", "scheduling", "initiating", "ok", "error"}]
             /\ operations' \in [Sessions -> {"none", "initiated", "completed"}]
             /\ onNode' \subseteq Sessions
             /\ TransportPlaced' /\ OperationHasTransport'
  BY <1>4, TransportOfSession
     DEF Initiate, InitiateOn, TypeOK, TransportPlaced, RecycledPlaced, OperationHasTransport
<1>5. ASSUME NEW s \in Streams, Publish(s) PROVE IInv'
  <2>1. s \in Sessions
    BY DEF Sessions
  <2>2. CASE Owner[s] \in participants /\ InputCount < inputLimit
    <3>1. Initiate(s) /\ UNCHANGED <<transports, locality>>
      BY <1>5, <2>2 DEF Publish
    <3> QED
      BY <1>4, <1>5, <2>1, <2>2, <3>1 DEF Publish, TypeOK, RecycledPlaced
  <2>3. CASE ~(Owner[s] \in participants /\ InputCount < inputLimit)
    BY <1>5, <2>1, <2>3 DEF Publish, TypeOK, TransportPlaced, RecycledPlaced, OperationHasTransport
  <2> QED
    BY <2>2, <2>3
<1>6. ASSUME NEW b \in Subs, Subscribe(b) PROVE IInv'
  <2>1. b \in Sessions
    BY DEF Sessions
  <2>2. CASE Owner[b] \in participants /\ streams[SourceOf[b]] = "ready"
    <3>1. Initiate(b) /\ UNCHANGED <<transports, locality>>
      BY <1>6, <2>2 DEF Subscribe
    <3> QED
      BY <1>4, <1>6, <2>1, <2>2, <3>1 DEF Subscribe, TypeOK, RecycledPlaced
  <2>3. CASE ~(Owner[b] \in participants /\ streams[SourceOf[b]] = "ready")
    BY <1>6, <2>1, <2>3 DEF Subscribe, TypeOK, TransportPlaced, RecycledPlaced, OperationHasTransport
  <2> QED
    BY <2>2, <2>3
<1>7. ASSUME NEW s \in Sessions, Terminate(s) PROVE IInv'
  BY <1>7 DEF Terminate, ByRequest, TypeOK, TransportPlaced, RecycledPlaced, OperationHasTransport
<1> QED
  BY <1>1, <1>2, <1>3, <1>5, <1>6, <1>7 DEF Ask

\* The replies of RPCs keep the invariant.
LEMMA ReplyKeeps ==
  ASSUME IInv, Reply
  PROVE  IInv'
<1> USE DEF IInv, confVars, rtcVars, nodeVars, tally, faults
<1>1. ASSUME NEW s \in Sessions, NEW n \in Nodes, GetWorkerNodeOk(s, n) PROVE IInv'
  BY <1>1, TransportOfSession
     DEF GetWorkerNodeOk, InitiateOn, TypeOK, TransportPlaced, RecycledPlaced, OperationHasTransport
<1>2. ASSUME NEW s \in Sessions, InitiateOk(s) PROVE IInv'
  <2>1. CASE s \in Subs /\ streams[SourceOf[s]] = "none"
    <3>1. FailRequest(s)
      BY <1>2, <2>1 DEF InitiateOk
    <3> QED
      BY <1>2, <3>1, FailRequestType
         DEF InitiateOk, TypeOK, TransportPlaced, RecycledPlaced, OperationHasTransport
  <2>2. CASE ~(s \in Subs /\ streams[SourceOf[s]] = "none")
    BY <1>2, <2>2 DEF InitiateOk, TypeOK, TransportPlaced, RecycledPlaced, OperationHasTransport
  <2> QED
    BY <2>1, <2>2
<1>3. ASSUME NEW s \in Sessions, NEW by \in {"request", "leave"}, TerminateOk(s, by)
      PROVE  IInv'
  <2>1. TransportPlaced' /\ OperationHasTransport'
    BY <1>3 DEF TerminateOk, TypeOK, TransportPlaced, RecycledPlaced, OperationHasTransport
  <2>2. terminating \ {<<s, by>>} \in SUBSET (Sessions \X {"request", "leave"})
    BY DEF TypeOK
  <2>3. CASE operations[s] # "none"
    <3>1. RemoveSession(s, terminating \ {<<s, by>>})
      BY <1>3, <2>3 DEF TerminateOk
    <3> QED
      BY <1>3, <2>1, <2>2, <3>1, RemoveSessionType DEF TerminateOk, TypeOK, RecycledPlaced
  <2>4. CASE operations[s] = "none"
    BY <1>3, <2>1, <2>2, <2>4 DEF TerminateOk, TypeOK, RecycledPlaced
  <2> QED
    BY <2>3, <2>4
<1>4. ASSUME NEW s \in Sessions, NEW by \in {"request", "leave"}, TerminateRefused(s, by)
      PROVE  IInv'
  BY <1>4 DEF TerminateRefused, TypeOK, TransportPlaced, RecycledPlaced, OperationHasTransport
<1>5. ASSUME NEW p \in Participants, Reap(p) PROVE IInv'
  <2>1. FailLoop(reaping[p]) /\ reaping[p] \in SUBSET Transports
    BY <1>5 DEF Reap, TypeOK
  <2>2. /\ recycling' \subseteq Transports /\ onNode' \subseteq Sessions /\ RecycledPlaced'
        /\ astray' \subseteq Transports
    BY <1>5, <2>1, FailLoopType DEF Reap
  <2> QED
    BY <1>5, <2>2 DEF Reap, TypeOK, TransportPlaced, OperationHasTransport
<1>6. ASSUME NEW t \in Transports, RecycleOk(t) PROVE IInv'
  BY <1>6 DEF RecycleOk, CloseClient, TypeOK, TransportPlaced, RecycledPlaced, OperationHasTransport
<1>7. ASSUME NEW b \in Subs, AddSubscriptionEnd(b) PROVE IInv'
  <2>1. b \in Sessions
    BY DEF Sessions
  <2> QED
    BY <1>7, <2>1, LimitAssumption
       DEF AddSubscriptionEnd, ByRequest, RpcFault, TypeOK, TransportPlaced, RecycledPlaced, OperationHasTransport
<1> QED
  BY <1>1, <1>2, <1>3, <1>4, <1>5, <1>6, <1>7 DEF Reply

\* The failures of RPCs, transports and nodes keep the invariant.
LEMMA FaultKeeps ==
  ASSUME IInv, Fault
  PROVE  IInv'
<1> USE DEF IInv, confVars, rtcVars, nodeVars, tally, faults, RpcFault, TransportFault, CloseClient
<1>1. ASSUME NEW s \in Sessions, GetWorkerNodeFail(s) PROVE IInv'
  <2>1. leases' \subseteq Nodes \X Transports
    BY <1>1, PlacementAssumption, TransportOfSession DEF GetWorkerNodeFail, TypeOK
  <2>2. FailRequest(s)
    BY <1>1 DEF GetWorkerNodeFail
  <2>3. astray' \subseteq Transports
    BY <1>1, TransportOfSession DEF GetWorkerNodeFail, TypeOK
  <2> QED
    BY <1>1, <2>1, <2>2, <2>3, FailRequestType, LimitAssumption
       DEF GetWorkerNodeFail, TypeOK, TransportPlaced, RecycledPlaced, OperationHasTransport
<1>2. ASSUME NEW s \in Sessions, InitiateFail(s) PROVE IInv'
  <2>1. FailRequest(s)
    BY <1>2 DEF InitiateFail
  <2> QED
    BY <1>2, <2>1, FailRequestType, LimitAssumption
       DEF InitiateFail, TypeOK, TransportPlaced, RecycledPlaced, OperationHasTransport
<1>3. ASSUME NEW s \in Sessions, NEW by \in {"request", "leave"}, TerminateLost(s, by)
      PROVE  IInv'
  BY <1>3, LimitAssumption DEF TerminateLost, TypeOK, TransportPlaced, RecycledPlaced, OperationHasTransport
<1>4. ASSUME NEW t \in Transports, TransportFailed(t) PROVE IInv'
  <2>1. FailTransports({t}) /\ {t} \in SUBSET Transports /\ Reachable(t)
    BY <1>4 DEF TransportFailed
  <2>2. recycling' \subseteq Transports /\ onNode' \subseteq Sessions /\ RecycledPlaced'
    BY <1>4, <2>1, FailTransportsType DEF TransportFailed
  <2> QED
    BY <1>4, <2>2, LimitAssumption
       DEF TransportFailed, TypeOK, TransportPlaced, RecycledPlaced, OperationHasTransport
<1>5. ASSUME NEW n \in Nodes, NodeLost(n) PROVE IInv'
  BY <1>5, LimitAssumption DEF NodeLost, TypeOK, TransportPlaced, RecycledPlaced, OperationHasTransport
<1>6. ASSUME NEW t \in Transports, RecycleLost(t) PROVE IInv'
  BY <1>6, LimitAssumption DEF RecycleLost, TypeOK, TransportPlaced, RecycledPlaced, OperationHasTransport
<1> QED
  BY <1>1, <1>2, <1>3, <1>4, <1>5, <1>6 DEF Fault

\* What the WebRTC nodes report keeps the invariant.
LEMMA NotificationKeeps ==
  ASSUME IInv, Notification
  PROVE  IInv'
<1> USE DEF IInv, confVars, rtcVars, nodeVars, tally, faults
<1>1. ASSUME NEW s \in Sessions, TracksComplete(s) PROVE IInv'
  <2>1. CASE transports[TransportOf[s]] = "completed"
    <3>1. Established({s}) /\ {s} \in SUBSET Sessions
      BY <1>1, <2>1 DEF TracksComplete
    <3> QED
      BY <1>1, <3>1, EstablishedType
         DEF TracksComplete, TypeOK, TransportPlaced, RecycledPlaced, OperationHasTransport
  <2>2. CASE transports[TransportOf[s]] # "completed"
    BY <1>1, <2>2 DEF TracksComplete, TypeOK, TransportPlaced, RecycledPlaced, OperationHasTransport
  <2> QED
    BY <2>1, <2>2
<1>2. ASSUME NEW t \in Transports, TransportReady(t) PROVE IInv'
  <2> DEFINE E == {s \in SessionsOn(t) : operations[s] = "completed"}
  <2>1. Established(E) /\ E \in SUBSET Sessions
    BY <1>2 DEF TransportReady, SessionsOn
  <2> QED
    BY <1>2, <2>1, EstablishedType
       DEF TransportReady, TypeOK, TransportPlaced, RecycledPlaced, OperationHasTransport
<1> QED
  BY <1>1, <1>2 DEF Notification

LEMMA NextKeepsIInv == IInv /\ [Next]_vars => IInv'
<1> SUFFICES ASSUME IInv, [Next]_vars PROVE IInv'
  OBVIOUS
<1>1. CASE Next
  BY <1>1, AskKeeps, ReplyKeeps, FaultKeeps, NotificationKeeps DEF Next
<1>2. CASE UNCHANGED vars
  BY <1>2 DEF vars, confVars, rtcVars, nodeVars, tally, faults,
              IInv, TypeOK, TransportPlaced, RecycledPlaced, OperationHasTransport
<1> QED
  BY <1>1, <1>2

\* Every variable keeps its type.
THEOREM TypeCorrect == Spec => []TypeOK
<1>1. Spec => []IInv
  BY InitIInv, NextKeepsIInv, PTL DEF Spec
<1> QED
  BY <1>1, PTL DEF IInv

\* An operation always has a transport with a locality, whatever fails and whoever leaves
\* in between: terminate and terminateByOwner never read the locality of nothing.
THEOREM OperationAlwaysHasTransport == Spec => []OperationHasTransport
<1>1. Spec => []IInv
  BY InitIInv, NextKeepsIInv, PTL DEF Spec
<1> QED
  BY <1>1, PTL DEF IInv

-----------------------------------------------------------------------------
(* Nothing of a participant that has gone comes back                        *)

\* What a step may make ready: sessions of participants that are in the room after it.
ReadiesPresent ==
  /\ \A s \in Streams : streams[s] # "ready" /\ streams'[s] = "ready"
                          => Owner[s] \in participants'
  /\ \A b \in Subs : subs[b] # "ready" /\ subs'[b] = "ready"
                          => Owner[b] \in participants'

\* What most handlers do: they make nothing ready.
ReadiesNothing ==
  /\ \A s \in Streams : streams'[s] = "ready" => streams[s] = "ready"
  /\ \A b \in Subs : subs'[b] = "ready" => subs[b] = "ready"

LEMMA RemoveSessionReadiesNothing ==
  ASSUME TypeOK, NEW s, NEW pending, RemoveSession(s, pending)
  PROVE  ReadiesNothing
BY RemovalReadiesNothing DEF RemoveSession, ReadiesNothing

LEMMA RemoveParticipantReadiesNothing ==
  ASSUME TypeOK, NEW p, NEW pending, RemoveParticipant(p, pending)
  PROVE  ReadiesNothing
BY RemovalReadiesNothing DEF RemoveParticipant, ReadiesNothing

LEMMA EstablishedReadiesPresent ==
  ASSUME TypeOK, NEW E \in SUBSET Sessions, Established(E), UNCHANGED <<participants, subs>>
  PROVE  ReadiesPresent
BY DEF Established, ReadiesPresent, TypeOK, Sessions

\* What a client asks for becomes ready in a later step.
LEMMA AskReadies ==
  ASSUME TypeOK, Ask
  PROVE  ReadiesNothing
<1> USE DEF confVars, rtcVars, nodeVars, tally, faults
<1>1. ASSUME NEW p \in Participants, Join(p) PROVE ReadiesNothing
  BY <1>1 DEF Join, ReadiesNothing
<1>2. ASSUME NEW p \in Participants, Leave(p) PROVE ReadiesNothing
  <2>1. CASE UNCHANGED <<streams, subs>>
    BY <2>1 DEF ReadiesNothing
  <2>2. CASE \E pending : RemoveParticipant(p, pending)
    BY <2>2, RemoveParticipantReadiesNothing
  <2>3. UNCHANGED <<streams, subs>> \/ \E pending : RemoveParticipant(p, pending)
    BY <1>2 DEF Leave
  <2> QED
    BY <2>1, <2>2, <2>3
<1>3. ASSUME NEW p \in Participants, Drop(p) PROVE ReadiesNothing
  BY <1>3, RemoveParticipantReadiesNothing DEF Drop
<1>4. ASSUME NEW s \in Streams, Publish(s) PROVE ReadiesNothing
  BY <1>4 DEF Publish, ReadiesNothing, TypeOK
<1>5. ASSUME NEW b \in Subs, Subscribe(b) PROVE ReadiesNothing
  BY <1>5 DEF Subscribe, ReadiesNothing, TypeOK
<1>6. ASSUME NEW s \in Sessions, Terminate(s) PROVE ReadiesNothing
  BY <1>6 DEF Terminate, ReadiesNothing
<1> QED
  BY <1>1, <1>2, <1>3, <1>4, <1>5, <1>6 DEF Ask

\* Of the replies only the one of roomController.subscribe makes something ready.
LEMMA ReplyReadies ==
  ASSUME TypeOK, Reply
  PROVE  ReadiesPresent
<1> USE DEF confVars, rtcVars, nodeVars, tally, faults
<1>1. ReadiesNothing => ReadiesPresent
  BY DEF ReadiesNothing, ReadiesPresent
<1>2. ASSUME NEW s \in Sessions, NEW n \in Nodes, GetWorkerNodeOk(s, n) PROVE ReadiesNothing
  BY <1>2 DEF GetWorkerNodeOk, ReadiesNothing
<1>3. ASSUME NEW s \in Sessions, InitiateOk(s) PROVE ReadiesNothing
  <2>1. UNCHANGED <<streams, subs>> \/ RemoveSession(s, terminating)
    BY <1>3 DEF InitiateOk, FailRequest
  <2> QED
    BY <2>1, RemoveSessionReadiesNothing DEF ReadiesNothing
<1>4. ASSUME NEW s \in Sessions, NEW by \in {"request", "leave"},
             TerminateOk(s, by) \/ TerminateRefused(s, by)
      PROVE  ReadiesNothing
  <2>1. UNCHANGED <<streams, subs>> \/ RemoveSession(s, terminating \ {<<s, by>>})
    BY <1>4 DEF TerminateOk, TerminateRefused
  <2> QED
    BY <2>1, RemoveSessionReadiesNothing DEF ReadiesNothing
<1>5. ASSUME NEW p \in Participants, Reap(p) PROVE ReadiesNothing
  BY <1>5 DEF Reap, ReadiesNothing
<1>6. ASSUME NEW t \in Transports, RecycleOk(t) PROVE ReadiesNothing
  BY <1>6 DEF RecycleOk, ReadiesNothing
<1>7. ASSUME NEW b \in Subs, AddSubscriptionEnd(b) PROVE ReadiesPresent
  BY <1>7 DEF AddSubscriptionEnd, ReadiesPresent, TypeOK
<1> QED
  BY <1>1, <1>2, <1>3, <1>4, <1>5, <1>6, <1>7 DEF Reply

LEMMA FaultReadies ==
  ASSUME TypeOK, Fault
  PROVE  ReadiesNothing
<1> USE DEF confVars, rtcVars, nodeVars, tally, faults
<1>1. ASSUME NEW s \in Sessions, FailRequest(s) PROVE ReadiesNothing
  BY <1>1, RemoveSessionReadiesNothing DEF FailRequest
<1>2. ASSUME NEW s \in Sessions, GetWorkerNodeFail(s) \/ InitiateFail(s) PROVE ReadiesNothing
  BY <1>1, <1>2 DEF GetWorkerNodeFail, InitiateFail
<1>3. ASSUME NEW s \in Sessions, NEW by \in {"request", "leave"}, TerminateLost(s, by)
      PROVE  ReadiesNothing
  BY <1>3 DEF TerminateLost, ReadiesNothing
<1>4. ASSUME NEW t \in Transports, TransportFailed(t) PROVE ReadiesNothing
  BY <1>4 DEF TransportFailed, ReadiesNothing
<1>5. ASSUME NEW n \in Nodes, NodeLost(n) PROVE ReadiesNothing
  BY <1>5 DEF NodeLost, ReadiesNothing
<1>6. ASSUME NEW t \in Transports, RecycleLost(t) PROVE ReadiesNothing
  BY <1>6 DEF RecycleLost, ReadiesNothing
<1> QED
  BY <1>2, <1>3, <1>4, <1>5, <1>6 DEF Fault

LEMMA NotificationReadies ==
  ASSUME TypeOK, Notification
  PROVE  ReadiesPresent
<1>1. ASSUME NEW s \in Sessions, TracksComplete(s) PROVE ReadiesPresent
  <2>1. CASE Established({s})
    BY <1>1, <2>1, EstablishedReadiesPresent DEF TracksComplete
  <2>2. CASE UNCHANGED streams
    BY <1>1, <2>2 DEF TracksComplete, ReadiesPresent
  <2> QED
    BY <1>1, <2>1, <2>2 DEF TracksComplete
<1>2. ASSUME NEW t \in Transports, TransportReady(t) PROVE ReadiesPresent
  <2>1. {s \in SessionsOn(t) : operations[s] = "completed"} \in SUBSET Sessions
    BY DEF SessionsOn
  <2> QED
    BY <1>2, <2>1, EstablishedReadiesPresent DEF TransportReady
<1> QED
  BY <1>1, <1>2 DEF Notification

LEMMA NextReadiesPresent == IInv /\ [Next]_vars => [ReadiesPresent]_vars
<1> SUFFICES ASSUME TypeOK, Next PROVE ReadiesPresent
  BY DEF IInv
<1>1. ReadiesNothing => ReadiesPresent
  BY DEF ReadiesNothing, ReadiesPresent
<1> QED
  BY <1>1, AskReadies, ReplyReadies, FaultReadies, NotificationReadies DEF Next

\* Whatever a node or the room controller reports late, in any order, no stream and no
\* subscription becomes ready after its owner has left the room or was dropped.
THEOREM GoneStaysGone == Spec => NothingComesBack
<1>1. Spec => []IInv
  BY InitIInv, NextKeepsIInv, PTL DEF Spec
<1>2. IInv /\ [Next]_vars => [ReadiesPresent]_vars
  BY NextReadiesPresent
<1>3. Spec => [][ReadiesPresent]_vars
  BY <1>1, <1>2, PTL DEF Spec
<1> QED
  BY <1>3 DEF NothingComesBack, ReadiesPresent

-----------------------------------------------------------------------------
(* The participant limit                                                    *)

\* Only a join adds a participant, and it counts the room first.
JoinsOnly ==
  \/ participants' \subseteq participants
  \/ \E p \in Participants :
       /\ participants' = participants \cup {p}
       /\ participantLimit > 0 => Cardinality(participants) + 1 < participantLimit + 1

LEMMA NextJoinsOnly ==
  ASSUME IInv, Next
  PROVE  JoinsOnly
<1> USE DEF confVars, rtcVars, nodeVars, tally, faults, JoinsOnly
<1>1. IsFiniteSet(participants) /\ Cardinality(participants) \in Nat
  BY LimitAssumption, FS_Subset, FS_CardinalityType DEF IInv, TypeOK
<1>2. ASSUME NEW p \in Participants, Join(p) PROVE JoinsOnly
  <2>1. CASE participantLimit > 0 /\ Cardinality(participants) + 1 >= participantLimit + 1
    BY <1>2, <2>1 DEF Join
  <2>2. CASE ~(participantLimit > 0 /\ Cardinality(participants) + 1 >= participantLimit + 1)
    BY <1>1, <1>2, <2>2, LimitAssumption DEF Join
  <2> QED
    BY <2>1, <2>2
<1>3. ASSUME NEW p \in Participants, Leave(p) PROVE JoinsOnly
  <2>1. UNCHANGED participants \/ \E pending : RemoveParticipant(p, pending)
    BY <1>3 DEF Leave
  <2> QED
    BY <2>1 DEF RemoveParticipant
<1>4. ASSUME NEW p \in Participants, Drop(p) PROVE JoinsOnly
  BY <1>4 DEF Drop, RemoveParticipant
<1>5. ASSUME NEW s \in Sessions, Publish(s) \/ Subscribe(s) \/ Terminate(s) PROVE JoinsOnly
  BY <1>5 DEF Publish, Subscribe, Terminate
<1>6. CASE Ask
  BY <1>2, <1>3, <1>4, <1>5, <1>6 DEF Ask, Sessions
<1>7. CASE Reply
  BY <1>7 DEF Reply, GetWorkerNodeOk, InitiateOk, TerminateOk, TerminateRefused, Reap,
              RecycleOk, AddSubscriptionEnd
<1>8. CASE Fault
  BY <1>8 DEF Fault, GetWorkerNodeFail, InitiateFail, TerminateLost, TransportFailed, RecycleLost, NodeLost
<1>9. CASE Notification
  BY <1>9 DEF Notification, TracksComplete, TransportReady
<1> QED
  BY <1>6, <1>7, <1>8, <1>9 DEF Next

LEMMA JoinsOnlyKeepsLimit ==
  ASSUME IInv, ParticipantLimitHeld, JoinsOnly
  PROVE  ParticipantLimitHeld'
<1>1. IsFiniteSet(participants) /\ Cardinality(participants) \in Nat
  BY LimitAssumption, FS_Subset, FS_CardinalityType DEF IInv, TypeOK
<1>2. CASE participants' \subseteq participants
  <2>1. IsFiniteSet(participants') /\ Cardinality(participants') <= Cardinality(participants)
    BY <1>1, <1>2, FS_Subset
  <2>2. Cardinality(participants') \in Nat
    BY <2>1, FS_CardinalityType
  <2> QED
    BY <1>1, <2>1, <2>2, LimitAssumption DEF ParticipantLimitHeld
<1>3. ASSUME NEW p \in Participants, participants' = participants \cup {p},
             participantLimit > 0 => Cardinality(participants) + 1 < participantLimit + 1
      PROVE  ParticipantLimitHeld'
  <2>1. Cardinality(participants') \in {Cardinality(participants), Cardinality(participants) + 1}
    BY <1>1, <1>3, FS_AddElement
  <2> QED
    BY <1>1, <1>3, <2>1, LimitAssumption DEF ParticipantLimitHeld
<1> QED
  BY <1>2, <1>3 DEF JoinsOnly

\* However many join at once and whoever leaves or is dropped meanwhile, the room holds at
\* most room_config.participantLimit participants.
THEOREM LimitNeverExceeded == Spec => []ParticipantLimitHeld
<1>1. Init => ParticipantLimitHeld
  BY FS_EmptySet, LimitAssumption DEF Init, ParticipantLimitHeld
<1>2. IInv /\ ParticipantLimitHeld /\ [Next]_vars => ParticipantLimitHeld'
  <2> SUFFICES ASSUME IInv, ParticipantLimitHeld, [Next]_vars PROVE ParticipantLimitHeld'
    OBVIOUS
  <2>1. CASE Next
    BY <2>1, NextJoinsOnly, JoinsOnlyKeepsLimit
  <2>2. CASE UNCHANGED vars
    BY <2>2 DEF vars, confVars, ParticipantLimitHeld
  <2> QED
    BY <2>1, <2>2
<1>3. Spec => []IInv
  BY InitIInv, NextKeepsIInv, PTL DEF Spec
<1> QED
  BY <1>1, <1>2, <1>3, PTL DEF Spec

-----------------------------------------------------------------------------
(* Who owns what is in the room: sessions belong to participants that are    *)
(* there, streams are backed by transports, inputs stay within their limit,  *)
(* and nodes that are leased stay in reach.                                  *)

\* A transport is set up for the one request that waits for its node.
SchedulingAlone ==
  \A s \in Sessions : request[s] = "scheduling" =>
    /\ transports[TransportOf[s]] = "none"
    /\ \A r \in SessionsOn(TransportOf[s]) :
         r # s => request[r] \notin {"scheduling", "initiating"}

\* A transport that is not set up is nowhere, and of the node of any other one the conference has
\* a client or has closed it.
ClientKept ==
  \A t \in Transports : IF transports[t] = "none" THEN locality[t] = NoNode
                                                  ELSE locality[t] \in clients \cup closed

\* Before its request has a transport a session has no operation, and is not announced.
NotYet ==
  \A s \in Sessions : request[s] \in {"new", "scheduling"} =>
    operations[s] = "none" /\ (s \in Streams => streams[s] # "ready")

\* What the operations of the room rest on.
Base == IInv /\ SchedulingAlone /\ ClientKept /\ NotYet

-----------------------------------------------------------------------------
(* The base invariant                                                       *)

LEMMA InitBase == Init => Base
BY InitIInv, SessionAssumption DEF Init, Base, SchedulingAlone, ClientKept, NotYet

\* Of the requests, operations, transports and clients most handlers change nothing.
LEMMA UnchangedKeepsBase ==
  ASSUME Base, IInv', ReadiesNothing, UNCHANGED <<request, rtcVars, clients, closed>>
  PROVE  Base'
BY DEF Base, IInv, TypeOK, SchedulingAlone, ClientKept, NotYet, ReadiesNothing, rtcVars, SessionsOn

\* A request that ends changes nothing of the others.
LEMMA EndedKeepsBase ==
  ASSUME Base, IInv', ReadiesNothing, UNCHANGED <<rtcVars, clients, closed>>,
         NEW s \in Sessions, NEW result \in {"ok", "error"},
         request' = [request EXCEPT ![s] = result]
  PROVE  Base'
BY DEF Base, IInv, TypeOK, SchedulingAlone, ClientKept, NotYet, ReadiesNothing, rtcVars, SessionsOn

\* RtcController.initiate of a session that has not been asked for before.
LEMMA InitiateKeepsBase ==
  ASSUME Base, IInv', ReadiesNothing, UNCHANGED <<transports, locality, clients, closed>>,
         NEW s \in Sessions, request[s] = "new", TransportSettled(TransportOf[s]), Initiate(s),
         s \in Streams => streams'[s] # "ready"
  PROVE  Base'
<1>1. request'[s] \in {"scheduling", "initiating", "ok"}
      /\ \A r \in Sessions : r # s => request'[r] = request[r] /\ operations'[r] = operations[r]
  BY DEF Base, IInv, TypeOK, Initiate, InitiateOn
<1>2. request'[s] = "scheduling" => transports[TransportOf[s]] = "none" /\ operations'[s] = "none"
  BY DEF Base, IInv, TypeOK, Initiate, InitiateOn, NotYet
<1>3. SchedulingAlone'
  <2> SUFFICES ASSUME NEW q \in Sessions, request'[q] = "scheduling"
               PROVE  /\ transports[TransportOf[q]] = "none"
                      /\ \A r \in SessionsOn(TransportOf[q]) :
                           r # q => request'[r] \notin {"scheduling", "initiating"}
    BY DEF SchedulingAlone
  <2>1. CASE q = s
    BY <1>1, <1>2, <2>1 DEF TransportSettled, SessionsOn
  <2>2. CASE q # s
    <3>1. request[q] = "scheduling"
      BY <1>1, <2>2
    <3>2. TransportOf[s] # TransportOf[q]
      BY <3>1 DEF TransportSettled, SessionsOn
    <3> QED
      BY <1>1, <3>1, <3>2 DEF Base, SchedulingAlone, SessionsOn
  <2> QED
    BY <2>1, <2>2
<1>4. NotYet'
  BY <1>1, <1>2 DEF Base, IInv, TypeOK, NotYet, ReadiesNothing
<1>5. ClientKept'
  BY DEF Base, ClientKept
<1> QED
  BY <1>3, <1>4, <1>5 DEF Base

LEMMA AskKeepsBase ==
  ASSUME Base, Ask, IInv'
  PROVE  Base'
<1> USE DEF confVars, rtcVars, nodeVars, tally, faults
<1>1. ReadiesNothing
  BY AskReadies DEF Base, IInv
<1>2. ASSUME NEW p \in Participants, Join(p) \/ Leave(p) \/ Drop(p) PROVE Base'
  BY <1>1, <1>2, UnchangedKeepsBase DEF Join, Leave, Drop
<1>3. ASSUME NEW s \in Streams, Publish(s) PROVE Base'
  <2>1. s \in Sessions /\ request[s] = "new" /\ TransportSettled(TransportOf[s])
        /\ UNCHANGED <<transports, locality, clients, closed>>
    BY <1>3 DEF Publish, CanAsk, Sessions
  <2>2. CASE Initiate(s) /\ streams' = [streams EXCEPT ![s] = "connecting"]
    <3>1. streams'[s] # "ready"
      BY <2>2 DEF Base, IInv, TypeOK
    <3> QED
      BY <1>1, <2>1, <2>2, <3>1, InitiateKeepsBase
  <2>3. CASE request' = [request EXCEPT ![s] = "error"] /\ UNCHANGED <<streams, operations, onNode>>
    BY <1>1, <2>1, <2>3, EndedKeepsBase
  <2> QED
    BY <1>3, <2>2, <2>3 DEF Publish
<1>4. ASSUME NEW b \in Subs, Subscribe(b) PROVE Base'
  <2>1. b \in Sessions /\ request[b] = "new" /\ TransportSettled(TransportOf[b])
        /\ UNCHANGED <<streams, transports, locality, clients, closed>>
    BY <1>4 DEF Subscribe, CanAsk, Sessions
  <2>2. CASE Initiate(b)
    <3>1. b \in Streams => streams'[b] # "ready"
      BY <2>1 DEF Base, NotYet
    <3> QED
      BY <1>1, <2>1, <2>2, <3>1, InitiateKeepsBase
  <2>3. CASE request' = [request EXCEPT ![b] = "error"] /\ UNCHANGED <<subs, operations, onNode>>
    BY <1>1, <2>1, <2>3, EndedKeepsBase
  <2> QED
    BY <1>4, <2>2, <2>3 DEF Subscribe
<1>5. ASSUME NEW s \in Sessions, Terminate(s) PROVE Base'
  BY <1>1, <1>5, UnchangedKeepsBase DEF Terminate
<1> QED
  BY <1>2, <1>3, <1>4, <1>5 DEF Ask

\* The client of a node is closed: what was set up over it is set up over a closed one.
LEMMA CloseKeepsBase ==
  ASSUME Base, IInv', ReadiesNothing, UNCHANGED <<request, rtcVars>>, NEW n, CloseClient(n)
  PROVE  Base'
BY DEF Base, IInv, TypeOK, SchedulingAlone, ClientKept, NotYet, ReadiesNothing, rtcVars,
       SessionsOn, CloseClient

LEMMA ReplyKeepsBase ==
  ASSUME Base, Reply, IInv'
  PROVE  Base'
<1> USE DEF confVars, rtcVars, nodeVars, tally, faults
<1>1. ASSUME NEW s \in Sessions, NEW n \in Nodes, GetWorkerNodeOk(s, n) PROVE Base'
  <2> DEFINE t == TransportOf[s]
  <2>1. /\ request[s] = "scheduling" /\ request' = [request EXCEPT ![s] = "initiating"]
        /\ operations' = [operations EXCEPT ![s] = "initiated"]
        /\ transports' = [transports EXCEPT ![t] = "pending"]
        /\ locality' = [locality EXCEPT ![t] = n]
        /\ clients' = clients \cup {n} /\ UNCHANGED <<streams, closed>>
    BY <1>1 DEF GetWorkerNodeOk, InitiateOn
  <2>2. t \in Transports
    BY TransportOfSession
  <2>3. SchedulingAlone'
    BY <2>1, <2>2 DEF Base, IInv, TypeOK, SchedulingAlone, SessionsOn
  <2>4. ClientKept' /\ NotYet'
    BY <2>1, <2>2 DEF Base, IInv, TypeOK, ClientKept, NotYet
  <2> QED
    BY <2>3, <2>4 DEF Base
<1>2. ASSUME NEW s \in Sessions, InitiateOk(s) PROVE Base'
  <2>1. ReadiesNothing
    BY <1>2, RemoveSessionReadiesNothing DEF InitiateOk, FailRequest, ReadiesNothing, Base, IInv
  <2>2. \E result \in {"ok", "error"} : request' = [request EXCEPT ![s] = result]
    BY <1>2 DEF InitiateOk, FailRequest
  <2> QED
    BY <1>2, <2>1, <2>2, EndedKeepsBase DEF InitiateOk
<1>3. ASSUME NEW s \in Sessions, NEW by \in {"request", "leave"}, TerminateOk(s, by) PROVE Base'
  <2>1. ReadiesNothing
    BY <1>3, RemoveSessionReadiesNothing DEF TerminateOk, ReadiesNothing, Base, IInv
  <2>2. operations' = [operations EXCEPT ![s] = "none"]
        /\ UNCHANGED <<request, transports, locality, clients, closed>>
    BY <1>3 DEF TerminateOk
  <2> QED
    BY <2>1, <2>2 DEF Base, IInv, TypeOK, SchedulingAlone, ClientKept, NotYet, ReadiesNothing, SessionsOn
<1>4. ASSUME NEW s \in Sessions, NEW by \in {"request", "leave"}, TerminateRefused(s, by) PROVE Base'
  BY <1>4, UnchangedKeepsBase DEF TerminateRefused, ReadiesNothing
<1>5. ASSUME NEW p \in Participants, Reap(p) PROVE Base'
  BY <1>5, UnchangedKeepsBase DEF Reap, ReadiesNothing
<1>6. ASSUME NEW t \in Transports, RecycleOk(t) PROVE Base'
  BY <1>6, CloseKeepsBase DEF RecycleOk, ReadiesNothing
<1>7. ASSUME NEW b \in Subs, AddSubscriptionEnd(b) PROVE Base'
  <2>1. UNCHANGED <<request, rtcVars, clients, closed, streams>>
    BY <1>7 DEF AddSubscriptionEnd, RpcFault
  <2> QED
    BY <2>1 DEF Base, SchedulingAlone, ClientKept, NotYet, SessionsOn
<1> QED
  BY <1>1, <1>2, <1>3, <1>4, <1>5, <1>6, <1>7 DEF Reply

LEMMA FaultKeepsBase ==
  ASSUME Base, Fault, IInv'
  PROVE  Base'
<1> USE DEF confVars, rtcVars, nodeVars, tally, faults, RpcFault, TransportFault
<1>1. ReadiesNothing
  BY FaultReadies DEF Base, IInv
<1>2. ASSUME NEW s \in Sessions, GetWorkerNodeFail(s) \/ InitiateFail(s) PROVE Base'
  <2>1. request' = [request EXCEPT ![s] = "error"] /\ UNCHANGED <<rtcVars, clients, closed>>
    BY <1>2 DEF GetWorkerNodeFail, InitiateFail, FailRequest
  <2> QED
    BY <1>1, <2>1, EndedKeepsBase
<1>3. ASSUME NEW s \in Sessions, NEW by \in {"request", "leave"}, TerminateLost(s, by) PROVE Base'
  BY <1>1, <1>3, UnchangedKeepsBase DEF TerminateLost
<1>4. ASSUME NEW t \in Transports, TransportFailed(t) PROVE Base'
  BY <1>1, <1>4, UnchangedKeepsBase DEF TransportFailed
<1>5. ASSUME NEW n \in Nodes, NodeLost(n) PROVE Base'
  BY <1>1, <1>5, CloseKeepsBase DEF NodeLost
<1>6. ASSUME NEW t \in Transports, RecycleLost(t) PROVE Base'
  BY <1>1, <1>6, CloseKeepsBase DEF RecycleLost
<1> QED
  BY <1>2, <1>3, <1>4, <1>5, <1>6 DEF Fault

LEMMA NotificationKeepsBase ==
  ASSUME Base, Notification, IInv'
  PROVE  Base'
<1> USE DEF confVars, rtcVars, nodeVars, tally, faults
<1>1. ASSUME NEW s \in Sessions, TracksComplete(s) PROVE Base'
  <2>1. operations[s] = "initiated" /\ operations' = [operations EXCEPT ![s] = "completed"]
        /\ UNCHANGED <<request, transports, locality, clients, closed>>
    BY <1>1 DEF TracksComplete
  <2>2. \A q \in Streams : q # s /\ streams'[q] = "ready" => streams[q] = "ready"
    BY <1>1 DEF TracksComplete, Established, Base, IInv, TypeOK
  <2> QED
    BY <2>1, <2>2 DEF Base, IInv, TypeOK, SchedulingAlone, ClientKept, NotYet, SessionsOn
<1>2. ASSUME NEW t \in Transports, TransportReady(t) PROVE Base'
  <2>1. transports[t] = "pending" /\ transports' = [transports EXCEPT ![t] = "completed"]
        /\ UNCHANGED <<request, operations, locality, clients, closed>>
    BY <1>2 DEF TransportReady
  <2>2. \A q \in Streams : streams'[q] = "ready" => streams[q] = "ready" \/ operations[q] = "completed"
    BY <1>2 DEF TransportReady, Established, Base, IInv, TypeOK
  <2> QED
    BY <2>1, <2>2, TransportOfSession
       DEF Base, IInv, TypeOK, SchedulingAlone, ClientKept, NotYet, SessionsOn
<1> QED
  BY <1>1, <1>2 DEF Notification

LEMMA NextKeepsBase == Base /\ [Next]_vars => Base'
<1> SUFFICES ASSUME Base, [Next]_vars PROVE Base'
  OBVIOUS
<1>1. IInv'
  BY NextKeepsIInv DEF Base
<1>2. CASE Next
  BY <1>1, <1>2, AskKeepsBase, ReplyKeepsBase, FaultKeepsBase, NotificationKeepsBase DEF Next
<1>3. CASE UNCHANGED vars
  BY <1>1, <1>3, UnchangedKeepsBase DEF vars, confVars, rtcVars, nodeVars, tally, faults, ReadiesNothing
<1> QED
  BY <1>2, <1>3

-----------------------------------------------------------------------------
(* Sessions belong to participants that are there                           *)

\* The node of a transport that is set up does not change, and a client that was closed counts
\* as closed for ever.
NodesStay ==
  /\ closed \subseteq closed'
  /\ \A t \in Transports : transports[t] # "none" => locality'[t] = locality[t]

LEMMA NextNodesStay ==
  ASSUME Base, [Next]_vars
  PROVE  NodesStay
<1> USE DEF confVars, rtcVars, nodeVars, tally, faults, NodesStay
<1>1. CASE Ask
  BY <1>1 DEF Ask, Join, Leave, Drop, Publish, Subscribe, Terminate
<1>2. CASE Reply
  <2>1. ASSUME NEW s \in Sessions, NEW n \in Nodes, GetWorkerNodeOk(s, n) PROVE NodesStay
    <3>1. request[s] = "scheduling" /\ locality' = [locality EXCEPT ![TransportOf[s]] = n]
          /\ UNCHANGED closed
      BY <2>1 DEF GetWorkerNodeOk
    <3>2. transports[TransportOf[s]] = "none"
      BY <3>1 DEF Base, SchedulingAlone
    <3> QED
      BY <3>1, <3>2 DEF Base, IInv, TypeOK
  <2>2. ASSUME NEW s \in Sessions, InitiateOk(s) PROVE NodesStay
    BY <2>2 DEF InitiateOk
  <2>3. ASSUME NEW s \in Sessions, NEW by \in {"request", "leave"},
               TerminateOk(s, by) \/ TerminateRefused(s, by)
        PROVE  NodesStay
    BY <2>3 DEF TerminateOk, TerminateRefused
  <2>4. ASSUME NEW p \in Participants, Reap(p) PROVE NodesStay
    BY <2>4 DEF Reap
  <2>5. ASSUME NEW t \in Transports, RecycleOk(t) PROVE NodesStay
    BY <2>5 DEF RecycleOk, CloseClient
  <2>6. ASSUME NEW b \in Subs, AddSubscriptionEnd(b) PROVE NodesStay
    BY <2>6 DEF AddSubscriptionEnd, RpcFault
  <2> QED
    BY <1>2, <2>1, <2>2, <2>3, <2>4, <2>5, <2>6 DEF Reply
<1>3. CASE Fault
  BY <1>3 DEF Fault, GetWorkerNodeFail, InitiateFail, TerminateLost, TransportFailed, RecycleLost, NodeLost,
              CloseClient, RpcFault, TransportFault
<1>4. CASE Notification
  BY <1>4 DEF Notification, TracksComplete, TransportReady
<1>5. CASE UNCHANGED vars
  BY <1>5 DEF vars
<1> QED
  BY <1>1, <1>2, <1>3, <1>4, <1>5 DEF Next

\* The excuse of a stream that stays is one for ever.
LEMMA CutOffStays ==
  ASSUME Base, NodesStay, NEW s \in Streams, CutOffAt(s)
  PROVE  CutOffAt(s)'
<1>1. PICK b \in Subs : SourceOf[b] = s /\ locality[TransportOf[b]] \in closed
  BY DEF CutOffAt
<1>2. transports[TransportOf[b]] # "none"
  BY <1>1, TransportOfSession, PlacementAssumption DEF Base, IInv, TypeOK, ClientKept, Sessions
<1> QED
  BY <1>1, <1>2, TransportOfSession DEF NodesStay, CutOffAt, Sessions

\* removeStream leaves a stream only when one of its subscriptions cannot be terminated.
LEMMA StaysOnlyCutOff ==
  ASSUME Base, NEW R, NEW inMap \in SUBSET Subs, NEW s \in Streams, s \in R,
         RemoveStreams(R, inMap)[s] # "none"
  PROVE  CutOffAt(s)
<1>1. RemovalThrows(s, inMap)
  BY DEF RemoveStreams
<1>2. PICK b \in inMap : SourceOf[b] = s /\ TerminateThrows(b)
  BY <1>1 DEF RemovalThrows, SubscribersOf
<1>3. operations[b] # "none" /\ locality[TransportOf[b]] \notin clients /\ b \in Sessions
  BY <1>2 DEF TerminateThrows, Reachable, Sessions
<1>4. transports[TransportOf[b]] # "none"
  BY <1>3 DEF Base, IInv, OperationHasTransport
<1>5. locality[TransportOf[b]] \in closed
  BY <1>3, <1>4, TransportOfSession DEF Base, ClientKept
<1> QED
  BY <1>2, <1>5 DEF CutOffAt

\* What most handlers do: of sessions they put in the map the owner is there, and nobody leaves.
NobodyLeaves ==
  /\ participants \subseteq participants'
  /\ \A s \in Streams : streams'[s] # "none" => streams[s] # "none" \/ Owner[s] \in participants'
  /\ \A b \in Subs : subs'[b] # "none" => subs[b] # "none" \/ Owner[b] \in participants'

LEMMA NobodyLeavesKeepsOwned ==
  ASSUME Base, SessionsOwned, NodesStay, NobodyLeaves
  PROVE  SessionsOwned'
BY CutOffStays DEF SessionsOwned, NobodyLeaves

\* removeParticipant takes along what the participant owns.
LEMMA RemoveParticipantKeepsOwned ==
  ASSUME Base, SessionsOwned, NodesStay, NEW p \in Participants, NEW pending,
         RemoveParticipant(p, pending)
  PROVE  SessionsOwned'
<1> DEFINE rest == InMap \ SessionsOf(p)
<1>1. streams' = RemoveStreams(SessionsOf(p), rest) /\ subs' = RemoveSubs(SessionsOf(p))
      /\ participants' = participants \ {p}
  BY DEF RemoveParticipant
<1>2. rest \in SUBSET Subs
  BY DEF InMap
<1>3. ASSUME NEW s \in Streams, streams'[s] # "none"
      PROVE  Owner[s] \in participants' \/ CutOffAt(s)'
  <2>1. s \in Sessions /\ streams[s] # "none"
    BY <1>1, <1>3 DEF RemoveStreams, Sessions
  <2>2. CASE s \in SessionsOf(p)
    BY <1>1, <1>2, <1>3, <2>2, StaysOnlyCutOff, CutOffStays
  <2>3. CASE s \notin SessionsOf(p)
    BY <1>1, <2>1, <2>3, CutOffStays DEF SessionsOwned, SessionsOf
  <2> QED
    BY <2>2, <2>3
<1>4. ASSUME NEW b \in Subs, subs'[b] # "none"
      PROVE  Owner[b] \in participants'
  BY <1>1, <1>4 DEF RemoveSubs, SessionsOf, SessionsOwned, Sessions
<1> QED
  BY <1>3, <1>4 DEF SessionsOwned

LEMMA RemoveSessionNobodyLeaves ==
  ASSUME NEW s, NEW pending, RemoveSession(s, pending), UNCHANGED participants
  PROVE  NobodyLeaves
BY DEF RemoveSession, RemoveStreams, RemoveSubs, NobodyLeaves

LEMMA EstablishedNobodyLeaves ==
  ASSUME NEW E, Established(E), UNCHANGED <<participants, subs>>
  PROVE  NobodyLeaves
BY DEF Established, NobodyLeaves

LEMMA AskKeepsOwned ==
  ASSUME Base, SessionsOwned, NodesStay, Ask
  PROVE  SessionsOwned'
<1> USE DEF confVars, rtcVars, nodeVars, tally, faults
<1>1. ASSUME NEW p \in Participants, Join(p) PROVE NobodyLeaves
  BY <1>1 DEF Join, NobodyLeaves
<1>2. ASSUME NEW p \in Participants, Leave(p)
      PROVE  NobodyLeaves \/ \E pending : RemoveParticipant(p, pending)
  BY <1>2 DEF Leave, NobodyLeaves
<1>3. ASSUME NEW p \in Participants, Drop(p) PROVE \E pending : RemoveParticipant(p, pending)
  BY <1>3 DEF Drop
<1>4. ASSUME NEW s \in Streams, Publish(s) PROVE NobodyLeaves
  BY <1>4 DEF Publish, NobodyLeaves, Base, IInv, TypeOK
<1>5. ASSUME NEW b \in Subs, Subscribe(b) PROVE NobodyLeaves
  BY <1>5 DEF Subscribe, NobodyLeaves, Base, IInv, TypeOK
<1>6. ASSUME NEW s \in Sessions, Terminate(s) PROVE NobodyLeaves
  BY <1>6 DEF Terminate, NobodyLeaves
<1>7. NobodyLeaves \/ \E p \in Participants : \E pending : RemoveParticipant(p, pending)
  BY <1>1, <1>2, <1>3, <1>4, <1>5, <1>6 DEF Ask
<1> QED
  BY <1>7, NobodyLeavesKeepsOwned, RemoveParticipantKeepsOwned

LEMMA ReplyNobodyLeaves ==
  ASSUME Base, Reply
  PROVE  NobodyLeaves
<1> USE DEF confVars, rtcVars, nodeVars, tally, faults
<1>1. UNCHANGED <<participants, streams, subs>> => NobodyLeaves
  BY DEF NobodyLeaves
<1>2. ASSUME NEW s \in Sessions, InitiateOk(s) PROVE NobodyLeaves
  BY <1>1, <1>2, RemoveSessionNobodyLeaves DEF InitiateOk, FailRequest
<1>3. ASSUME NEW s \in Sessions, NEW by \in {"request", "leave"}, TerminateOk(s, by)
      PROVE  NobodyLeaves
  BY <1>1, <1>3, RemoveSessionNobodyLeaves DEF TerminateOk
<1>4. ASSUME NEW b \in Subs, AddSubscriptionEnd(b) PROVE NobodyLeaves
  BY <1>4 DEF AddSubscriptionEnd, NobodyLeaves, Base, IInv, TypeOK
<1> QED
  BY <1>1, <1>2, <1>3, <1>4 DEF Reply, GetWorkerNodeOk, TerminateRefused, Reap, RecycleOk

LEMMA FaultNobodyLeaves ==
  ASSUME Base, Fault
  PROVE  NobodyLeaves
<1> USE DEF confVars, rtcVars, nodeVars, tally, faults
<1>1. UNCHANGED <<participants, streams, subs>> => NobodyLeaves
  BY DEF NobodyLeaves
<1>2. ASSUME NEW s \in Sessions, GetWorkerNodeFail(s) \/ InitiateFail(s) PROVE NobodyLeaves
  BY <1>2, RemoveSessionNobodyLeaves DEF GetWorkerNodeFail, InitiateFail, FailRequest
<1> QED
  BY <1>1, <1>2 DEF Fault, TerminateLost, TransportFailed, RecycleLost, NodeLost

LEMMA NotificationNobodyLeaves ==
  ASSUME Base, Notification
  PROVE  NobodyLeaves
<1> USE DEF confVars, rtcVars, nodeVars, tally, faults
<1>1. UNCHANGED <<participants, streams, subs>> => NobodyLeaves
  BY DEF NobodyLeaves
<1> QED
  BY <1>1, EstablishedNobodyLeaves DEF Notification, TracksComplete, TransportReady

LEMMA NextKeepsOwned == Base /\ SessionsOwned /\ [Next]_vars => SessionsOwned'
<1> SUFFICES ASSUME Base, SessionsOwned, [Next]_vars PROVE SessionsOwned'
  OBVIOUS
<1>1. NodesStay
  BY NextNodesStay
<1>2. UNCHANGED vars => NobodyLeaves
  BY DEF NobodyLeaves, vars, confVars
<1> QED
  BY <1>1, <1>2, AskKeepsOwned, ReplyNobodyLeaves, FaultNobodyLeaves, NotificationNobodyLeaves,
     NobodyLeavesKeepsOwned DEF Next

LEMMA BaseHolds == Spec => []Base
BY InitBase, NextKeepsBase, PTL DEF Spec

\* Whoever leaves or is dropped, whatever requests are under way and whatever fails, no stream
\* and no subscription is left without its owner, but for a stream that removeStream could not
\* remove because it had a subscriber on a node whose client was closed.
THEOREM NobodysSessionStays == Spec => []SessionsOwned
<1>1. Init => SessionsOwned
  BY DEF Init, SessionsOwned
<1> QED
  BY <1>1, BaseHolds, NextKeepsOwned, PTL DEF Spec

-----------------------------------------------------------------------------
(* Streams are backed by operations and transports                          *)

\* What a step may do to a stream that is announced.
KeepsBacked ==
  \A s \in Streams : streams'[s] = "ready" =>
    \/ /\ streams[s] = "ready"
       /\ operations'[s] \in {operations[s], "completed"} \/ CutOffAt(s)
       /\ transports'[TransportOf[s]] \in {transports[TransportOf[s]], "completed"}
    \/ operations'[s] = "completed" /\ transports'[TransportOf[s]] = "completed"

LEMMA KeepsBackedSuffices ==
  ASSUME Base, ReadyStreamBacked, NodesStay, KeepsBacked
  PROVE  ReadyStreamBacked'
BY CutOffStays DEF ReadyStreamBacked, KeepsBacked

LEMMA ReadiesNothingKeepsBacked ==
  ASSUME ReadiesNothing, UNCHANGED <<operations, transports>>
  PROVE  KeepsBacked
BY DEF ReadiesNothing, KeepsBacked

LEMMA InitiateKeepsBacked ==
  ASSUME Base, ReadiesNothing, NEW s \in Sessions, s \in Streams => streams'[s] # "ready",
         Initiate(s), UNCHANGED transports
  PROVE  KeepsBacked
BY DEF Base, IInv, TypeOK, ReadiesNothing, Initiate, InitiateOn, KeepsBacked, Sessions

LEMMA AskKeepsBacked ==
  ASSUME Base, Ask
  PROVE  KeepsBacked
<1> USE DEF confVars, rtcVars, nodeVars, tally, faults
<1>1. ReadiesNothing
  BY AskReadies DEF Base, IInv
<1>2. ASSUME NEW s \in Streams, Publish(s) PROVE KeepsBacked
  <2>1. CASE UNCHANGED operations
    BY <1>1, <1>2, <2>1, ReadiesNothingKeepsBacked DEF Publish
  <2>2. CASE Initiate(s) /\ streams' = [streams EXCEPT ![s] = "connecting"]
    BY <1>1, <1>2, <2>2, InitiateKeepsBacked DEF Publish, Base, IInv, TypeOK, Sessions
  <2> QED
    BY <1>2, <2>1, <2>2 DEF Publish
<1>3. ASSUME NEW b \in Subs, Subscribe(b) PROVE KeepsBacked
  <2>1. CASE UNCHANGED operations
    BY <1>1, <1>3, <2>1, ReadiesNothingKeepsBacked DEF Subscribe
  <2>2. CASE Initiate(b)
    <3>1. b \in Sessions /\ b \notin Streams
      BY SessionAssumption DEF Sessions
    <3> QED
      BY <1>1, <1>3, <2>2, <3>1, InitiateKeepsBacked DEF Subscribe
  <2> QED
    BY <1>3, <2>1, <2>2 DEF Subscribe
<1> QED
  BY <1>1, <1>2, <1>3, ReadiesNothingKeepsBacked DEF Ask, Join, Leave, Drop, Terminate

LEMMA ReplyKeepsBacked ==
  ASSUME Base, ReadyStreamBacked, Reply
  PROVE  KeepsBacked
<1> USE DEF confVars, rtcVars, nodeVars, tally, faults
<1>1. ASSUME NEW s \in Sessions, NEW n \in Nodes, GetWorkerNodeOk(s, n) PROVE KeepsBacked
  <2>1. /\ request[s] = "scheduling" /\ UNCHANGED streams
        /\ operations' = [operations EXCEPT ![s] = "initiated"]
        /\ transports' = [transports EXCEPT ![TransportOf[s]] = "pending"]
    BY <1>1 DEF GetWorkerNodeOk, InitiateOn
  <2>2. transports[TransportOf[s]] = "none" /\ (s \in Streams => streams[s] # "ready")
    BY <2>1 DEF Base, SchedulingAlone, NotYet
  <2>3. \A q \in Streams : streams[q] = "ready" => TransportOf[q] # TransportOf[s] /\ q # s
    BY <2>2 DEF ReadyStreamBacked
  <2> QED
    BY <2>1, <2>3, TransportOfSession DEF Base, IInv, TypeOK, KeepsBacked
<1>2. ASSUME NEW s \in Sessions, InitiateOk(s) PROVE KeepsBacked
  <2>1. ReadiesNothing
    BY <1>2, RemoveSessionReadiesNothing DEF InitiateOk, FailRequest, ReadiesNothing, Base, IInv
  <2> QED
    BY <1>2, <2>1, ReadiesNothingKeepsBacked DEF InitiateOk
<1>3. ASSUME NEW s \in Sessions, NEW by \in {"request", "leave"}, TerminateOk(s, by)
      PROVE  KeepsBacked
  <2>1. ReadiesNothing
    BY <1>3, RemoveSessionReadiesNothing DEF TerminateOk, ReadiesNothing, Base, IInv
  <2>2. operations' = [operations EXCEPT ![s] = "none"] /\ UNCHANGED transports
    BY <1>3 DEF TerminateOk
  <2>3. ASSUME operations[s] # "none", s \in Streams, streams'[s] # "none"
        PROVE  CutOffAt(s)
    <3>1. streams' = RemoveStreams({s}, InMap)
      BY <1>3, <2>3, SessionAssumption DEF TerminateOk, RemoveSession
    <3>2. InMap \in SUBSET Subs
      BY DEF InMap
    <3> QED
      BY <2>3, <3>1, <3>2, StaysOnlyCutOff
  <2> QED
    BY <2>1, <2>2, <2>3 DEF Base, IInv, TypeOK, KeepsBacked, ReadiesNothing
<1>4. ASSUME UNCHANGED <<streams, operations, transports>> PROVE KeepsBacked
  BY <1>4 DEF KeepsBacked
<1> QED
  BY <1>1, <1>2, <1>3, <1>4 DEF Reply, TerminateRefused, Reap, RecycleOk, AddSubscriptionEnd

LEMMA FaultKeepsBacked ==
  ASSUME Base, Fault
  PROVE  KeepsBacked
<1>1. ReadiesNothing
  BY FaultReadies DEF Base, IInv
<1>2. UNCHANGED <<operations, transports>>
  BY DEF Fault, GetWorkerNodeFail, InitiateFail, TerminateLost, TransportFailed, RecycleLost, NodeLost, rtcVars
<1> QED
  BY <1>1, <1>2, ReadiesNothingKeepsBacked

LEMMA NotificationKeepsBacked ==
  ASSUME Base, Notification
  PROVE  KeepsBacked
<1>1. ASSUME NEW s \in Sessions, TracksComplete(s) PROVE KeepsBacked
  BY <1>1 DEF TracksComplete, Established, KeepsBacked, Base, IInv, TypeOK
<1>2. ASSUME NEW t \in Transports, TransportReady(t) PROVE KeepsBacked
  BY <1>2 DEF TransportReady, Established, SessionsOn, KeepsBacked, Base, IInv, TypeOK
<1> QED
  BY <1>1, <1>2 DEF Notification

LEMMA NextKeepsReadyBacked == Base /\ ReadyStreamBacked /\ [Next]_vars => ReadyStreamBacked'
<1> SUFFICES ASSUME Base, ReadyStreamBacked, [Next]_vars PROVE ReadyStreamBacked'
  OBVIOUS
<1>1. NodesStay
  BY NextNodesStay
<1>2. UNCHANGED vars => KeepsBacked
  BY DEF KeepsBacked, vars, confVars, rtcVars
<1> QED
  BY <1>1, <1>2, AskKeepsBacked, ReplyKeepsBacked, FaultKeepsBacked, NotificationKeepsBacked,
     KeepsBackedSuffices DEF Next

\* A stream that is announced to the room can be unpublished: it has a completed operation on an
\* established transport, but for one that removeStream could not remove.
THEOREM AnnouncedIsBacked == Spec => []ReadyStreamBacked
<1>1. Init => ReadyStreamBacked
  BY DEF Init, ReadyStreamBacked
<1> QED
  BY <1>1, BaseHolds, NextKeepsReadyBacked, PTL DEF Spec

-----------------------------------------------------------------------------
(* The input limit                                                          *)

\* Only a client that is in has asked for anything, and the room knows nobody else.
AskedByClients ==
  /\ \A p \in participants : client[p] # "out"
  /\ \A s \in Sessions : request[s] # "new" => client[Owner[s]] # "out"

\* Until an RPC fails, a publication that is under way or that has an operation is counted as an
\* input as long as its owner is there.
UnderWayCounted ==
  rpcFaults = 0 => \A s \in Streams :
    Owner[s] \in participants /\ (operations[s] # "none" \/ request[s] = "scheduling")
      => streams[s] # "none"

\* What InputLimitHeld rests on.
InputInv == Base /\ AskedByClients /\ UnderWayCounted

\* What most steps do, when no RPC fails: no input is added, and what loses its place has lost its
\* operation or its owner as well.
AddsNoInput ==
  /\ \A s \in Streams : streams'[s] # "none" => streams[s] # "none"
  /\ \A s \in Streams :
       Owner[s] \in participants' /\ (operations'[s] # "none" \/ request'[s] = "scheduling")
         /\ streams[s] # "none" => streams'[s] # "none"
  /\ \A s \in Streams :
       Owner[s] \in participants' /\ (operations'[s] # "none" \/ request'[s] = "scheduling")
         => Owner[s] \in participants /\ (operations[s] # "none" \/ request[s] = "scheduling")

\* A publication that is accepted: the limit was checked, and it is counted from now on.
AddsOneInput ==
  \E s \in Streams :
    /\ InputCount < inputLimit
    /\ streams' = [streams EXCEPT ![s] = "connecting"]
    /\ UNCHANGED participants
    /\ \A q \in Streams : q # s => operations'[q] = operations[q] /\ request'[q] = request[q]

LEMMA InputsFinite ==
  ASSUME NEW S \in SUBSET Streams
  PROVE  IsFiniteSet(S) /\ Cardinality(S) \in Nat
BY LimitAssumption, FS_Subset, FS_CardinalityType

LEMMA AddsNoInputKeeps ==
  ASSUME InputInv, InputLimitHeld, AddsNoInput, rpcFaults' = 0 => rpcFaults = 0
  PROVE  UnderWayCounted' /\ InputLimitHeld'
<1>1. UnderWayCounted'
  BY DEF InputInv, UnderWayCounted, AddsNoInput
<1>2. {s \in Streams : streams'[s] # "none"} \subseteq {s \in Streams : streams[s] # "none"}
  BY DEF AddsNoInput
<1>3. InputCount' <= InputCount /\ InputCount \in Nat /\ InputCount' \in Nat
  BY <1>2, InputsFinite, FS_Subset DEF InputCount
<1> QED
  BY <1>1, <1>3, LimitAssumption DEF InputLimitHeld

LEMMA AddsOneInputKeeps ==
  ASSUME InputInv, AddsOneInput, rpcFaults' = 0 => rpcFaults = 0
  PROVE  UnderWayCounted' /\ InputLimitHeld'
<1>1. PICK s \in Streams :
        /\ InputCount < inputLimit
        /\ streams' = [streams EXCEPT ![s] = "connecting"]
        /\ UNCHANGED participants
        /\ \A q \in Streams : q # s => operations'[q] = operations[q] /\ request'[q] = request[q]
  BY DEF AddsOneInput
<1>2. UnderWayCounted'
  BY <1>1 DEF InputInv, Base, IInv, TypeOK, UnderWayCounted
<1> DEFINE inputs == {q \in Streams : streams[q] # "none"}
<1>3. {q \in Streams : streams'[q] # "none"} = inputs \cup {s}
  BY <1>1 DEF InputInv, Base, IInv, TypeOK
<1>4. InputCount' \in {InputCount, InputCount + 1} /\ InputCount \in Nat
  BY <1>3, InputsFinite, FS_AddElement DEF InputCount
<1> QED
  BY <1>1, <1>2, <1>4, LimitAssumption DEF InputLimitHeld

LEMMA RemoveSessionAddsNoInput ==
  ASSUME Base, NEW s \in Sessions, NEW pending, RemoveSession(s, pending),
         UNCHANGED participants, operations'[s] = "none" \/ s \in Subs,
         \A q \in Sessions : q # s => operations'[q] = operations[q] /\ request'[q] = request[q],
         request'[s] # "scheduling"
  PROVE  AddsNoInput
BY SessionAssumption DEF RemoveSession, RemoveStreams, AddsNoInput, Sessions

LEMMA RemoveParticipantAddsNoInput ==
  ASSUME NEW p \in Participants, NEW pending, RemoveParticipant(p, pending),
         UNCHANGED <<operations, request>>
  PROVE  AddsNoInput
BY DEF RemoveParticipant, RemoveStreams, AddsNoInput, SessionsOf, Sessions

LEMMA AskAddsInputs ==
  ASSUME InputInv, Ask
  PROVE  AddsNoInput \/ AddsOneInput
<1> USE DEF confVars, rtcVars, nodeVars, tally, faults
<1>1. ASSUME NEW p \in Participants, Join(p) PROVE AddsNoInput
  <2>1. client[p] = "out" /\ participants' \subseteq participants \cup {p}
        /\ UNCHANGED <<streams, operations, request>>
    BY <1>1 DEF Join
  <2>2. \A s \in Streams : Owner[s] = p => operations[s] = "none" /\ request[s] = "new"
    BY <2>1 DEF InputInv, AskedByClients, Base, NotYet, Sessions
  <2> QED
    BY <2>1, <2>2 DEF AddsNoInput
<1>2. ASSUME UNCHANGED <<participants, streams, operations, request>> PROVE AddsNoInput
  BY <1>2 DEF AddsNoInput
<1>3. ASSUME NEW p \in Participants, Leave(p) \/ Drop(p) PROVE AddsNoInput
  <2>1. UNCHANGED <<operations, request>>
        /\ (UNCHANGED <<participants, streams>> \/ \E pending : RemoveParticipant(p, pending))
    BY <1>3 DEF Leave, Drop
  <2> QED
    BY <1>2, <2>1, RemoveParticipantAddsNoInput
<1>4. ASSUME NEW s \in Streams, Publish(s) PROVE AddsNoInput \/ AddsOneInput
  <2>1. s \in Sessions
    BY DEF Sessions
  <2>2. CASE Owner[s] \in participants /\ InputCount < inputLimit
    <3>1. streams' = [streams EXCEPT ![s] = "connecting"] /\ Initiate(s) /\ UNCHANGED participants
      BY <1>4, <2>2 DEF Publish
    <3>2. \A q \in Streams : q # s => operations'[q] = operations[q] /\ request'[q] = request[q]
      BY <2>1, <3>1 DEF Initiate, InitiateOn, InputInv, Base, IInv, TypeOK, Sessions
    <3> QED
      BY <2>2, <3>1, <3>2 DEF AddsOneInput
  <2>3. CASE ~(Owner[s] \in participants /\ InputCount < inputLimit)
    BY <1>4, <2>1, <2>3 DEF Publish, AddsNoInput, InputInv, Base, IInv, TypeOK, Sessions
  <2> QED
    BY <2>2, <2>3
<1>5. ASSUME NEW b \in Subs, Subscribe(b) PROVE AddsNoInput
  <2>1. \A q \in Streams : q # b /\ q \in Sessions
    BY SessionAssumption DEF Sessions
  <2>2. UNCHANGED <<participants, streams>>
    BY <1>5 DEF Subscribe
  <2>3. \A q \in Streams : operations'[q] = operations[q] /\ request'[q] = request[q]
    BY <1>5, <2>1 DEF Subscribe, Initiate, InitiateOn, InputInv, Base, IInv, TypeOK
  <2> QED
    BY <2>2, <2>3 DEF AddsNoInput
<1> QED
  BY <1>1, <1>2, <1>3, <1>4, <1>5 DEF Ask, Terminate

\* A session that is established has an operation, so it is counted already.
LEMMA EstablishedAddsNoInput ==
  ASSUME InputInv, rpcFaults = 0, NEW E \in SUBSET Sessions, Established(E),
         UNCHANGED <<participants, request>>,
         \A s \in E : operations[s] # "none",
         \A s \in Streams : operations'[s] # "none" => operations[s] # "none"
  PROVE  AddsNoInput
BY DEF Established, AddsNoInput, InputInv, UnderWayCounted, Base, IInv, TypeOK

LEMMA ReplyAddsNoInput ==
  ASSUME InputInv, Reply
  PROVE  AddsNoInput
<1> USE DEF confVars, rtcVars, nodeVars, tally, faults
<1>1. ASSUME UNCHANGED <<participants, streams, operations, request>> PROVE AddsNoInput
  BY <1>1 DEF AddsNoInput
<1>2. ASSUME NEW s \in Sessions, NEW n \in Nodes, GetWorkerNodeOk(s, n) PROVE AddsNoInput
  BY <1>2 DEF GetWorkerNodeOk, InitiateOn, AddsNoInput, InputInv, Base, IInv, TypeOK, Sessions
<1>3. ASSUME NEW s \in Sessions, InitiateOk(s) PROVE AddsNoInput
  <2>1. request[s] = "initiating" /\ UNCHANGED <<participants, operations>>
        /\ \E result \in {"ok", "error"} : request' = [request EXCEPT ![s] = result]
    BY <1>3 DEF InitiateOk, FailRequest
  <2>2. request'[s] # "scheduling" /\ \A q \in Sessions : q # s => request'[q] = request[q]
    BY <2>1 DEF InputInv, Base, IInv, TypeOK
  <2>3. CASE s \in Subs /\ streams[SourceOf[s]] = "none"
    <3>1. RemoveSession(s, terminating)
      BY <1>3, <2>3 DEF InitiateOk, FailRequest
    <3> QED
      BY <2>1, <2>2, <2>3, <3>1, RemoveSessionAddsNoInput DEF InputInv
  <2>4. CASE ~(s \in Subs /\ streams[SourceOf[s]] = "none")
    BY <1>3, <2>1, <2>2, <2>4 DEF InitiateOk, AddsNoInput, Sessions
  <2> QED
    BY <2>3, <2>4
<1>4. ASSUME NEW s \in Sessions, NEW by \in {"request", "leave"}, TerminateOk(s, by)
      PROVE  AddsNoInput
  <2>1. operations' = [operations EXCEPT ![s] = "none"] /\ UNCHANGED <<participants, request>>
    BY <1>4 DEF TerminateOk
  <2>2. operations'[s] = "none" /\ \A q \in Sessions : q # s => operations'[q] = operations[q]
    BY <2>1 DEF InputInv, Base, IInv, TypeOK
  <2>3. CASE operations[s] # "none"
    <3>1. RemoveSession(s, terminating \ {<<s, by>>})
      BY <1>4, <2>3 DEF TerminateOk
    <3>2. request'[s] # "scheduling"
      BY <2>1, <2>3 DEF InputInv, Base, NotYet
    <3> QED
      BY <2>1, <2>2, <3>1, <3>2, RemoveSessionAddsNoInput DEF InputInv
  <2>4. CASE operations[s] = "none"
    BY <1>4, <2>1, <2>2, <2>4 DEF TerminateOk, AddsNoInput, Sessions
  <2> QED
    BY <2>3, <2>4
<1> QED
  BY <1>1, <1>2, <1>3, <1>4 DEF Reply, TerminateRefused, Reap, RecycleOk, AddSubscriptionEnd

LEMMA NotificationAddsNoInput ==
  ASSUME InputInv, rpcFaults = 0, Notification
  PROVE  AddsNoInput
<1> USE DEF confVars, rtcVars, nodeVars, tally, faults
<1>1. ASSUME NEW s \in Sessions, TracksComplete(s) PROVE AddsNoInput
  <2>1. operations[s] = "initiated" /\ operations' = [operations EXCEPT ![s] = "completed"]
        /\ UNCHANGED <<participants, request>>
    BY <1>1 DEF TracksComplete
  <2>2. \A q \in Streams : operations'[q] # "none" => operations[q] # "none"
    BY <2>1 DEF InputInv, Base, IInv, TypeOK, Sessions
  <2>3. CASE Established({s})
    BY <2>1, <2>2, <2>3, EstablishedAddsNoInput
  <2>4. CASE UNCHANGED streams
    BY <2>1, <2>2, <2>4 DEF AddsNoInput
  <2> QED
    BY <1>1, <2>3, <2>4 DEF TracksComplete
<1>2. ASSUME NEW t \in Transports, TransportReady(t) PROVE AddsNoInput
  <2> DEFINE E == {s \in SessionsOn(t) : operations[s] = "completed"}
  <2>1. Established(E) /\ UNCHANGED <<participants, request, operations>>
    BY <1>2 DEF TransportReady
  <2>2. E \in SUBSET Sessions /\ \A s \in E : operations[s] # "none"
    BY DEF SessionsOn
  <2> QED
    BY <2>1, <2>2, EstablishedAddsNoInput
<1> QED
  BY <1>1, <1>2 DEF Notification

\* An RPC that fails is counted for ever.
LEMMA RpcFaultCounted ==
  ASSUME Base, RpcFault
  PROVE  rpcFaults' # 0
BY DEF RpcFault, Base, IInv, TypeOK

LEMMA FaultsStay ==
  ASSUME Base, [Next]_vars
  PROVE  rpcFaults' = 0 => rpcFaults = 0
<1> USE DEF tally, faults
<1>1. UNCHANGED rpcFaults \/ RpcFault => (rpcFaults' = 0 => rpcFaults = 0)
  BY RpcFaultCounted
<1>2. CASE Ask
  BY <1>1, <1>2 DEF Ask, Join, Leave, Drop, Publish, Subscribe, Terminate
<1>3. CASE Reply
  BY <1>1, <1>3 DEF Reply, GetWorkerNodeOk, InitiateOk, TerminateOk, TerminateRefused, Reap,
                    RecycleOk, AddSubscriptionEnd
<1>4. CASE Fault
  BY <1>1, <1>4 DEF Fault, GetWorkerNodeFail, InitiateFail, TerminateLost, TransportFailed, RecycleLost, NodeLost,
                    TransportFault
<1>5. CASE Notification
  BY <1>1, <1>5 DEF Notification, TracksComplete, TransportReady
<1> QED
  BY <1>1, <1>2, <1>3, <1>4, <1>5 DEF Next, vars

\* The faults that are not of an RPC are of transports and nodes.
LEMMA FaultAddsNoInput ==
  ASSUME InputInv, Fault, rpcFaults' = 0
  PROVE  AddsNoInput
<1>1. ~RpcFault
  BY RpcFaultCounted DEF InputInv
<1>2. (\E t \in Transports : TransportFailed(t)) \/ (\E n \in Nodes : NodeLost(n))
  BY <1>1 DEF Fault, GetWorkerNodeFail, InitiateFail, TerminateLost, RecycleLost
<1>3. UNCHANGED <<participants, streams, operations, request>>
  BY <1>2 DEF TransportFailed, NodeLost, confVars, rtcVars
<1> QED
  BY <1>3 DEF AddsNoInput

LEMMA NextKeepsAsked ==
  ASSUME Base, AskedByClients, [Next]_vars
  PROVE  AskedByClients'
<1> USE DEF confVars, rtcVars, nodeVars, tally, faults, Base, IInv, TypeOK, AskedByClients
<1>1. UNCHANGED <<client, request>> /\ participants' \subseteq participants => AskedByClients'
  OBVIOUS
<1>2. ASSUME NEW p \in Participants, Join(p) PROVE AskedByClients'
  BY <1>2, SessionAssumption DEF Join
<1>3. ASSUME NEW p \in Participants, Leave(p) PROVE AskedByClients'
  <2>1. client' = [client EXCEPT ![p] = "gone"] /\ participants' \subseteq participants
        /\ UNCHANGED request
    BY <1>3 DEF Leave, RemoveParticipant
  <2> QED
    BY <2>1, SessionAssumption
<1>4. ASSUME NEW p \in Participants, Drop(p) PROVE AskedByClients'
  BY <1>1, <1>4 DEF Drop, RemoveParticipant
<1>5. ASSUME NEW s \in Sessions, Publish(s) \/ Subscribe(s) PROVE AskedByClients'
  <2>1. client[Owner[s]] = "in" /\ UNCHANGED <<client, participants>>
        /\ \A q \in Sessions : q # s => request'[q] = request[q]
    BY <1>5 DEF Publish, Subscribe, CanAsk, Initiate, InitiateOn
  <2> QED
    BY <2>1
<1>6. ASSUME NEW s \in Sessions, Terminate(s) PROVE AskedByClients'
  BY <1>1, <1>6 DEF Terminate
<1>7. ASSUME NEW s \in Sessions, request[s] # "new", UNCHANGED <<client, participants>>,
             \A q \in Sessions : q # s => request'[q] = request[q]
      PROVE  AskedByClients'
  BY <1>7
<1>8. CASE Reply
  <2>1. ASSUME NEW s \in Sessions, NEW n \in Nodes, GetWorkerNodeOk(s, n) PROVE AskedByClients'
    BY <1>7, <2>1 DEF GetWorkerNodeOk, InitiateOn
  <2>2. ASSUME NEW s \in Sessions, InitiateOk(s) PROVE AskedByClients'
    BY <1>7, <2>2 DEF InitiateOk, FailRequest
  <2> QED
    BY <1>1, <1>8, <2>1, <2>2
       DEF Reply, TerminateOk, TerminateRefused, Reap, RecycleOk, AddSubscriptionEnd
<1>9. CASE Fault
  <2>1. ASSUME NEW s \in Sessions, GetWorkerNodeFail(s) \/ InitiateFail(s) PROVE AskedByClients'
    BY <1>7, <2>1 DEF GetWorkerNodeFail, InitiateFail, FailRequest
  <2> QED
    BY <1>1, <1>9, <2>1 DEF Fault, TerminateLost, TransportFailed, RecycleLost, NodeLost
<1>10. CASE Notification
  BY <1>1, <1>10 DEF Notification, TracksComplete, TransportReady
<1>11. CASE UNCHANGED vars
  BY <1>1, <1>11 DEF vars
<1>12. CASE Ask
  BY <1>2, <1>3, <1>4, <1>5, <1>6, <1>12 DEF Ask, Sessions
<1> QED
  BY <1>8, <1>9, <1>10, <1>11, <1>12 DEF Next

LEMMA NextKeepsInputs ==
  InputInv /\ InputLimitHeld /\ [Next]_vars => InputInv' /\ InputLimitHeld'
<1> SUFFICES ASSUME InputInv, InputLimitHeld, [Next]_vars PROVE InputInv' /\ InputLimitHeld'
  OBVIOUS
<1>1. Base' /\ AskedByClients' /\ (rpcFaults' = 0 => rpcFaults = 0)
  BY NextKeepsBase, NextKeepsAsked, FaultsStay DEF InputInv
<1>2. CASE rpcFaults' # 0
  BY <1>1, <1>2 DEF InputInv, UnderWayCounted, InputLimitHeld
<1>3. CASE rpcFaults' = 0
  <2>1. UNCHANGED vars => AddsNoInput
    BY DEF AddsNoInput, vars, confVars, rtcVars
  <2>2. AddsNoInput \/ AddsOneInput
    BY <1>1, <1>3, <2>1, AskAddsInputs, ReplyAddsNoInput, NotificationAddsNoInput, FaultAddsNoInput
       DEF Next
  <2> QED
    BY <1>1, <2>2, AddsNoInputKeeps, AddsOneInputKeeps DEF InputInv
<1> QED
  BY <1>2, <1>3

\* However many publish at once, and whoever leaves before it is answered: until an RPC fails the
\* room never has more inputs than room_config.inputLimit.
THEOREM InputsNeverExceed == Spec => []InputLimitHeld
<1>1. Init => InputInv /\ InputLimitHeld
  <2> SUFFICES ASSUME Init PROVE InputInv /\ InputLimitHeld
    OBVIOUS
  <2>1. {s \in Streams : streams[s] # "none"} = {}
    BY DEF Init
  <2>2. InputLimitHeld
    BY <2>1, FS_EmptySet, LimitAssumption DEF InputLimitHeld, InputCount
  <2> QED
    BY <2>2, InitBase DEF InputInv, AskedByClients, UnderWayCounted, Init, Sessions
<1> QED
  BY <1>1, NextKeepsInputs, PTL DEF Spec

-----------------------------------------------------------------------------
(* Nodes that are leased                                                    *)

\* A transport that is set up is on a node it may be placed on.
PlacedAsAllowed ==
  \A t \in Transports : transports[t] # "none" => locality[t] \in Placement[t]

\* Until an RPC fails, the agents keep nodes for transports that are there, and on those nodes.
LeasesUsed ==
  rpcFaults = 0 => \A l \in leases : transports[l[2]] # "none" /\ locality[l[2]] = l[1]

\* What LeasedNodeReachable rests on.
LeaseInv == Base /\ PlacedAsAllowed /\ LeasesUsed /\ LeasedNodeReachable

\* What most steps do: no lease, no transport and no client goes or comes.
LEMMA UnchangedKeepsLeases ==
  ASSUME LeaseInv, Base', rpcFaults' = 0 => rpcFaults = 0, UNCHANGED <<leases, locality, clients>>,
         \A t \in Transports : transports'[t] = "none" <=> transports[t] = "none"
  PROVE  LeaseInv'
BY DEF LeaseInv, Base, IInv, TypeOK, PlacedAsAllowed, LeasesUsed, LeasedNodeReachable

LEMMA WorkerNodeKeepsLeases ==
  ASSUME LeaseInv, Base', NEW s \in Sessions, NEW n \in Nodes, GetWorkerNodeOk(s, n)
  PROVE  LeaseInv'
<1> DEFINE t == TransportOf[s]
<1>1. /\ request[s] = "scheduling" /\ n \in Placement[t]
      /\ leases' = leases \cup {<<n, t>>} /\ clients' = clients \cup {n}
      /\ transports' = [transports EXCEPT ![t] = "pending"]
      /\ locality' = [locality EXCEPT ![t] = n] /\ UNCHANGED rpcFaults
  BY DEF GetWorkerNodeOk, tally
<1>2. t \in Transports /\ transports[t] = "none"
  BY <1>1, TransportOfSession DEF LeaseInv, Base, SchedulingAlone
<1>3. PlacedAsAllowed'
  BY <1>1, <1>2 DEF LeaseInv, Base, IInv, TypeOK, PlacedAsAllowed
<1>4. LeasesUsed'
  <2> SUFFICES ASSUME rpcFaults = 0, NEW l \in leases'
               PROVE  transports'[l[2]] # "none" /\ locality'[l[2]] = l[1]
    BY <1>1 DEF LeasesUsed
  <2>1. CASE l = <<n, t>>
    BY <1>1, <1>2, <2>1 DEF LeaseInv, Base, IInv, TypeOK
  <2>2. CASE l \in leases
    BY <1>1, <1>2, <2>2 DEF LeaseInv, LeasesUsed, Base, IInv, TypeOK
  <2> QED
    BY <1>1, <2>1, <2>2
<1>5. LeasedNodeReachable'
  BY <1>1 DEF LeaseInv, LeasedNodeReachable
<1> QED
  BY <1>3, <1>4, <1>5 DEF LeaseInv

\* The task of a transport that failed is given back: no other one is on its node.
LEMMA RecycleKeepsLeases ==
  ASSUME LeaseInv, Base', NEW t \in Transports, RecycleOk(t)
  PROVE  LeaseInv'
<1>1. /\ t \in recycling /\ leases' = leases \ {<<locality[t], t>>}
      /\ clients' = clients \ {locality[t]} /\ UNCHANGED <<transports, locality, rpcFaults>>
  BY DEF RecycleOk, CloseClient, rtcVars
<1>2. locality[t] \in Placement[t]
  <2>1. locality[t] \in Nodes
    BY <1>1 DEF LeaseInv, Base, IInv, RecycledPlaced
  <2>2. transports[t] # "none"
    BY <2>1, PlacementAssumption DEF LeaseInv, Base, ClientKept
  <2> QED
    BY <2>2 DEF LeaseInv, PlacedAsAllowed
<1>3. PlacedAsAllowed' /\ LeasesUsed'
  BY <1>1 DEF LeaseInv, PlacedAsAllowed, LeasesUsed
<1>4. LeasedNodeReachable'
  <2> SUFFICES ASSUME Apart, rpcFaults = 0, NEW l \in leases'
               PROVE  l[1] \in clients'
    BY <1>1 DEF LeasedNodeReachable, Apart
  <2>1. l \in leases /\ l # <<locality[t], t>> /\ l = <<l[1], l[2]>> /\ l[2] \in Transports
    BY <1>1 DEF LeaseInv, Base, IInv, TypeOK
  <2>2. transports[l[2]] # "none" /\ locality[l[2]] = l[1] /\ l[1] \in clients
    BY <2>1 DEF LeaseInv, LeasesUsed, LeasedNodeReachable
  <2>3. l[2] # t /\ l[1] \in Placement[l[2]]
    BY <2>1, <2>2 DEF LeaseInv, PlacedAsAllowed
  <2>4. Placement[l[2]] \cap Placement[t] = {}
    BY <2>1, <2>3 DEF Apart
  <2> QED
    BY <1>1, <1>2, <2>2, <2>3, <2>4
<1> QED
  BY <1>3, <1>4 DEF LeaseInv

LEMMA NodeLostKeepsLeases ==
  ASSUME LeaseInv, Base', NEW n \in Nodes, NodeLost(n)
  PROVE  LeaseInv'
<1>1. /\ leases' = {l \in leases : l[1] # n} /\ clients' = clients \ {n}
      /\ UNCHANGED <<transports, locality, rpcFaults>>
  BY DEF NodeLost, CloseClient, TransportFault, rtcVars
<1> QED
  BY <1>1 DEF LeaseInv, PlacedAsAllowed, LeasesUsed, LeasedNodeReachable

LEMMA NextKeepsLeases == LeaseInv /\ [Next]_vars => LeaseInv'
<1> SUFFICES ASSUME LeaseInv, [Next]_vars PROVE LeaseInv'
  OBVIOUS
<1> USE DEF confVars, rtcVars, nodeVars, tally, faults
<1>1. Base' /\ (rpcFaults' = 0 => rpcFaults = 0)
  BY NextKeepsBase, FaultsStay DEF LeaseInv
<1> DEFINE Same == /\ UNCHANGED <<leases, locality, clients>>
                   /\ \A t \in Transports : transports'[t] = "none" <=> transports[t] = "none"
<1>2. Same => LeaseInv'
  BY <1>1, UnchangedKeepsLeases
<1>3. CASE Ask
  <2>1. UNCHANGED <<leases, locality, clients, transports>>
    BY <1>3 DEF Ask, Join, Leave, Drop, Publish, Subscribe, Terminate
  <2> QED
    BY <1>2, <2>1
<1>4. CASE Reply
  <2>1. UNCHANGED <<leases, locality, clients, transports>>
        \/ (\E s \in Sessions, n \in Nodes : GetWorkerNodeOk(s, n))
        \/ (\E t \in Transports : RecycleOk(t))
    BY <1>4 DEF Reply, InitiateOk, TerminateOk, TerminateRefused, Reap, AddSubscriptionEnd
  <2> QED
    BY <1>1, <1>2, <2>1, WorkerNodeKeepsLeases, RecycleKeepsLeases
<1>5. CASE Fault
  <2>1. UNCHANGED <<leases, locality, clients, transports>> \/ RpcFault
        \/ (\E n \in Nodes : NodeLost(n))
    BY <1>5 DEF Fault, GetWorkerNodeFail, InitiateFail, TerminateLost, TransportFailed, RecycleLost
  <2>2. ASSUME RpcFault PROVE LeaseInv'
    <3>1. rpcFaults' # 0
      BY <2>2, RpcFaultCounted DEF LeaseInv
    <3>2. UNCHANGED <<transports, locality>>
      BY <1>5 DEF Fault, GetWorkerNodeFail, InitiateFail, TerminateLost, TransportFailed, RecycleLost, NodeLost
    <3>3. PlacedAsAllowed'
      BY <3>2 DEF LeaseInv, PlacedAsAllowed
    <3> QED
      BY <1>1, <3>1, <3>3 DEF LeaseInv, LeasesUsed, LeasedNodeReachable
  <2> QED
    BY <1>1, <1>2, <2>1, <2>2, NodeLostKeepsLeases
<1>6. CASE Notification
  <2>1. UNCHANGED <<leases, locality, clients>>
    BY <1>6 DEF Notification, TracksComplete, TransportReady
  <2>2. \A t \in Transports : transports'[t] = "none" <=> transports[t] = "none"
    <3>1. ASSUME NEW t \in Transports, TransportReady(t)
          PROVE  transports[t] = "pending" /\ transports' = [transports EXCEPT ![t] = "completed"]
      BY <3>1 DEF TransportReady
    <3>2. UNCHANGED transports \/ \E t \in Transports : TransportReady(t)
      BY <1>6 DEF Notification, TracksComplete
    <3> QED
      BY <3>1, <3>2 DEF LeaseInv, Base, IInv, TypeOK
  <2> QED
    BY <1>2, <2>1, <2>2
<1>7. CASE UNCHANGED vars
  BY <1>2, <1>7 DEF vars
<1> QED
  BY <1>3, <1>4, <1>5, <1>6, <1>7 DEF Next

\* Whoever leaves, is dropped or loses its transport, and however a node ends: when no two
\* transports may share a node and no RPC has failed, the conference has a client of every node
\* the agents keep up for it.
THEOREM LeasedStayReachable == Spec => []LeasedNodeReachable
<1>1. Init => LeaseInv
  BY InitBase DEF Init, LeaseInv, PlacedAsAllowed, LeasesUsed, LeasedNodeReachable
<1>2. LeaseInv => LeasedNodeReachable
  BY DEF LeaseInv
<1> QED
  BY <1>1, <1>2, NextKeepsLeases, PTL DEF Spec
=============================================================================
