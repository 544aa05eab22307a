------------------------- MODULE ConferenceSessions -------------------------
(***************************************************************************)
(* One conference (source/agent/conference): the participants, streams and  *)
(* subscriptions of conference.js, the transports and operations of its     *)
(* rtcController.js, and the RPC clients of its rpcRequest.js, with the     *)
(* WebRTC nodes and the portal as the environment.                          *)
(*                                                                          *)
(* The conference is one JavaScript process: a step of this module is one   *)
(* macrotask, the handler of a request, of a notification or of the reply   *)
(* of an RPC, up to the next call that waits for another process.           *)
(*                                                                          *)
(* A session id is drawn at random by the portal for one request, so who    *)
(* asks, over which transport and for which source are functions of it.     *)
(***************************************************************************)
EXTENDS Naturals, FiniteSets

CONSTANTS Participants,       \* ids of clients; one id joins at most once
          Streams,            \* session ids of publish requests (direction 'in')
          Subs,               \* session ids of subscribe requests (direction 'out')
          Transports,         \* ids of peer connections
          Nodes,              \* addresses of WebRTC nodes
          NoNode,             \* the locality of a transport that is not set up
          Owner,              \* session id -> participant that asks for it
          TransportOf,        \* session id -> transport it is asked over
          SourceOf,           \* subscription -> stream it takes its tracks from
          Placement,          \* transport -> nodes the cluster may place it on
          participantLimit,   \* room_config.participantLimit, 0 when unlimited
          inputLimit,         \* room_config.inputLimit
          MaxRpcFaults,       \* bound: RPCs that fail or miss their deadline
          MaxTransportFaults  \* bound: transports that fail, nodes that are lost

Sessions == Streams \cup Subs

ASSUME SessionAssumption ==
  /\ Streams \cap Subs = {}
  /\ Owner \in [Sessions -> Participants]
  /\ TransportOf \in [Sessions -> Transports]
  /\ SourceOf \in [Subs -> Streams]
  /\ \A s, r \in Sessions : TransportOf[s] = TransportOf[r] => Owner[s] = Owner[r]

ASSUME PlacementAssumption ==
  /\ Placement \in [Transports -> SUBSET Nodes]
  /\ NoNode \notin Nodes

ASSUME LimitAssumption ==
  /\ participantLimit \in Nat /\ inputLimit \in Nat
  /\ MaxRpcFaults \in Nat /\ MaxTransportFaults \in Nat
  /\ IsFiniteSet(Participants) /\ IsFiniteSet(Streams)

SessionsOf(p) == {s \in Sessions : Owner[s] = p}
SessionsOn(t) == {s \in Sessions : TransportOf[s] = t}

VARIABLES
  client,       \* portal's view of a participant: "out", "in" or "gone"
  participants, \* conference.js participants, 'admin' left implicit
  streams,      \* conference.js streams[id]: absent, in connecting, or forward
  subs,         \* conference.js subscriptions[id]
  adding,       \* subscriptions whose roomController.subscribe has not returned
  request,      \* where the promise chain of a publish or subscribe request is
  transports,   \* RtcController.transports[id].state
  locality,     \* RtcController.transports[id].locality.node
  operations,   \* RtcController.operations[id].state
  terminating,  \* rpcReq.terminate calls not answered yet, with what waits for them
  reaping,      \* transports terminateByOwner will fail once its terminations end
  clients,      \* rpcRequest.js grpcNode: nodes the conference holds a client of
  recycling,    \* recycleWorkerNode calls not answered yet
  leases,       \* <<node, transport>>: tasks the agents keep nodes up for
  onNode,       \* sessions a WebRTC node carries
  closed,       \* nodes the conference has closed its client of, once or more
  astray,       \* transports that nothing will fail, or whose node could not be given back
  rpcFaults, transportFaults

confVars == <<participants, streams, subs, adding>>
rtcVars  == <<transports, locality, operations>>
nodeVars == <<clients, recycling, leases, onNode>>
tally    == <<rpcFaults, transportFaults, closed>>
faults   == <<rpcFaults, transportFaults, closed, astray>>
vars == <<client, request, terminating, reaping, confVars, rtcVars, nodeVars, faults>>

TypeOK ==
  /\ client \in [Participants -> {"out", "in", "gone"}]
  /\ participants \subseteq Participants
  /\ streams \in [Streams -> {"none", "connecting", "ready"}]
  /\ subs \in [Subs -> {"none", "connecting", "ready"}]
  /\ adding \subseteq Subs
  /\ request \in [Sessions -> {"new", "scheduling", "initiating", "ok", "error"}]
  /\ transports \in [Transports -> {"none", "pending", "completed"}]
  /\ locality \in [Transports -> Nodes \cup {NoNode}]
  /\ operations \in [Sessions -> {"none", "initiated", "completed"}]
  /\ terminating \subseteq Sessions \X {"request", "leave"}
  /\ reaping \in [Participants -> SUBSET Transports]
  /\ clients \subseteq Nodes
  /\ recycling \subseteq Transports
  /\ leases \subseteq Nodes \X Transports
  /\ onNode \subseteq Sessions
  /\ closed \subseteq Nodes
  /\ astray \subseteq Transports
  /\ rpcFaults \in Nat /\ transportFaults \in Nat

Init ==
  /\ client = [p \in Participants |-> "out"]
  /\ participants = {}
  /\ streams = [s \in Streams |-> "none"]
  /\ subs = [b \in Subs |-> "none"]
  /\ adding = {}
  /\ request = [s \in Sessions |-> "new"]
  /\ transports = [t \in Transports |-> "none"]
  /\ locality = [t \in Transports |-> NoNode]
  /\ operations = [s \in Sessions |-> "none"]
  /\ terminating = {}
  /\ reaping = [p \in Participants |-> {}]
  /\ clients = {} /\ recycling = {} /\ leases = {} /\ onNode = {}
  /\ rpcFaults = 0 /\ transportFaults = 0 /\ closed = {} /\ astray = {}

-----------------------------------------------------------------------------
(* Calls one handler makes of another                                       *)

RpcFault       == /\ rpcFaults < MaxRpcFaults
                  /\ rpcFaults' = rpcFaults + 1
                  /\ UNCHANGED transportFaults
TransportFault == /\ transportFaults < MaxTransportFaults
                  /\ transportFaults' = transportFaults + 1
                  /\ UNCHANGED <<rpcFaults, astray>>

\* grpcNode[node] is closed and deleted.
CloseClient(n) == clients' = clients \ {n} /\ closed' = closed \cup {n}

\* grpcNode[node] is set: the RPCs of rpcRequest.js return a promise.  When it is
\* not they return undefined, and a caller that chains .then or .catch throws.
Reachable(t) == locality[t] \in clients

\* RtcController.terminate rejects for a session without operation, throws when the
\* client of its node is gone, and calls the node otherwise.
Terminable(s)   == operations[s] # "none" /\ Reachable(TransportOf[s])
TerminateThrows(s) == operations[s] # "none" /\ ~Reachable(TransportOf[s])

\* A loop over the elements of S that throws at the first one of Bad: it reaches all
\* the others, or some of them, for their order is the order they were inserted in.
Reached(S, Bad) == IF S \cap Bad = {} THEN {S} ELSE SUBSET (S \ Bad)

\* removeStream terminates the subscriptions in the map that take a track of the stream
\* before it deletes it: the stream stays when one of those calls throws.
SubscribersOf(s, inMap) == {b \in inMap : SourceOf[b] = s}
RemovalThrows(s, inMap) == \E b \in SubscribersOf(s, inMap) : TerminateThrows(b)

\* Mutant: removeStream forgets the subscribers of the stream.
LostSourceForgotten(R, inMap) == {{}}

\* The subscriptions whose termination removeStream starts for the streams of R.
LostSource(R, inMap) ==
  LET live == {s \in R : streams[s] # "none"}
      hit  == UNION {SubscribersOf(s, inMap) : s \in live}
  IN  Reached({b \in hit : operations[b] # "none"}, {b \in hit : TerminateThrows(b)})

\* Mutant: removeStream skips the streams that are still in connecting.
RemoveForwardStreams(R, inMap) ==
  [s \in Streams |-> IF s \in R /\ streams[s] = "ready" THEN "none" ELSE streams[s]]

RemoveStreams(R, inMap) ==
  [s \in Streams |-> IF s \in R /\ ~RemovalThrows(s, inMap) THEN "none" ELSE streams[s]]

RemoveSubs(R) == [b \in Subs |-> IF b \in R THEN "none" ELSE subs[b]]

InMap == {b \in Subs : subs[b] # "none"}
ByRequest(S) == S \X {"request"}

\* removeStream or removeSubscription of one session, by its direction.  The
\* terminations it starts are added to the ones of the set pending.
RemoveSession(s, pending) ==
  \/ /\ s \in Streams
     /\ streams' = RemoveStreams({s}, InMap)
     /\ \E T \in LostSource({s}, InMap) : terminating' = pending \cup ByRequest(T)
     /\ UNCHANGED subs
  \/ /\ s \in Subs
     /\ subs' = RemoveSubs({s})
     /\ terminating' = pending
     /\ UNCHANGED streams

\* removeParticipant: its subscriptions, then its streams, then itself.
RemoveParticipant(p, pending) ==
  LET rest == InMap \ SessionsOf(p)
  IN  /\ subs' = RemoveSubs(SessionsOf(p))
      /\ streams' = RemoveStreams(SessionsOf(p), rest)
      /\ \E T \in LostSource(Streams \cap SessionsOf(p), rest) :
           terminating' = pending \cup ByRequest(T)
      /\ participants' = participants \ {p}

\* Mutant: addStream without its check of participants[info.owner].
EstablishedUnchecked(E) ==
  /\ streams' = [s \in Streams |-> IF s \in E THEN "ready" ELSE streams[s]]
  /\ adding' = adding \cup {b \in E \cap Subs : streams[SourceOf[b]] # "none"}
  /\ UNCHANGED terminating

\* 'session-established' for the operations of E.  addStream puts the stream in the map,
\* whether its entry is still there or not, unless its owner has left; addSubscription
\* goes on to roomController.subscribe unless its owner or its source has gone.  A
\* session that is refused is terminated.
Established(E) ==
  LET goodStreams == {s \in E \cap Streams : Owner[s] \in participants}
      goodSubs == {b \in E \cap Subs : Owner[b] \in participants /\ streams[SourceOf[b]] # "none"}
      refused  == E \ (goodStreams \cup goodSubs)
  IN  /\ streams' = [s \in Streams |-> IF s \in goodStreams THEN "ready" ELSE streams[s]]
      /\ adding' = adding \cup goodSubs
      /\ terminating' = terminating
           \cup ByRequest({s \in refused : Reachable(TransportOf[s])})

\* RtcController.onTransportProgress(t, 'failed') for the transports of T: the node
\* destroys the peer connection and the agent is asked to release the task.  It throws,
\* and asks nothing, when the client of the node is gone.
FailTransports(T) ==
  /\ recycling' = recycling \cup T
  /\ onNode' = onNode \ UNION {SessionsOn(t) : t \in T}

\* The loop of terminateByOwner over the transports S of a participant, which throws at one
\* whose client is gone.  Those it does not come to go astray: it is not run again.
FailLoop(S) ==
  \E T \in Reached(S, {t \in S : ~Reachable(t)}) :
     /\ FailTransports(T)
     /\ astray' = astray \cup (S \ T)

\* The transports of a participant that are in the map.
TransportsOf(p) == {t \in {TransportOf[s] : s \in SessionsOf(p)} : transports[t] # "none"}

-----------------------------------------------------------------------------
(* Requests of the portal                                                   *)

\* Mutant: the limit compared with > in place of >=, 'admin' counted as a participant.
JoinOffByOne(p) ==
  /\ client[p] = "out"
  /\ IF participantLimit > 0 /\ Cardinality(participants) + 1 > participantLimit + 1
     THEN /\ client' = [client EXCEPT ![p] = "gone"]
          /\ UNCHANGED participants
     ELSE /\ client' = [client EXCEPT ![p] = "in"]
          /\ participants' = participants \cup {p}
  /\ UNCHANGED <<streams, subs, adding, request, terminating, reaping, rtcVars, nodeVars, faults>>

\* that.join: the room is full when 'admin' and the others reach the limit plus one.
Join(p) ==
  /\ client[p] = "out"
  /\ IF participantLimit > 0 /\ Cardinality(participants) + 1 >= participantLimit + 1
     THEN /\ client' = [client EXCEPT ![p] = "gone"]
          /\ UNCHANGED participants
     ELSE /\ client' = [client EXCEPT ![p] = "in"]
          /\ participants' = participants \cup {p}
  /\ UNCHANGED <<streams, subs, adding, request, terminating, reaping, rtcVars, nodeVars, faults>>

\* Mutant: the operation is kept with the state of a session of accessController.js.
InitiateOnInitialized(s, hasClient) ==
  /\ operations' = [operations EXCEPT ![s] = "initialized"]
  /\ request' = [request EXCEPT ![s] = "initiating"]
  /\ onNode' = onNode \cup {s}

\* RtcController.initiate once the transport is there: the operation is kept, then the
\* node is called, which takes the calls of one client in order.  Without a client
\* rpcReq.initiate returns undefined, which the promise chain takes for success.
InitiateOn(s, hasClient) ==
  /\ operations' = [operations EXCEPT ![s] = "initiated"]
  /\ IF hasClient
     THEN /\ request' = [request EXCEPT ![s] = "initiating"]
          /\ onNode' = onNode \cup {s}
     ELSE /\ request' = [request EXCEPT ![s] = "ok"]
          /\ UNCHANGED onNode

\* Mutant: the operation is kept before the worker node is there.
InitiateEarly(s) ==
  /\ request' = [request EXCEPT ![s] = "scheduling"]
  /\ operations' = [operations EXCEPT ![s] = "initiated"]
  /\ UNCHANGED onNode

\* RtcController.initiate with _createTransportIfNeeded: a known transport is used at
\* once, another one waits for getWorkerNode.
Initiate(s) ==
  LET t == TransportOf[s]
  IN  IF transports[t] = "none"
      THEN /\ request' = [request EXCEPT ![s] = "scheduling"]
           /\ UNCHANGED <<operations, onNode>>
      ELSE InitiateOn(s, Reachable(t))

\* A transport id reaches the client in the response to its first request, so no other
\* request names it while that one is under way.
TransportSettled(t) == \A s \in SessionsOn(t) : request[s] \notin {"scheduling", "initiating"}

\* Mutant: streams in connecting are not counted.
ForwardInputCount == Cardinality({s \in Streams : streams[s] = "ready"})

InputCount == Cardinality({s \in Streams : streams[s] # "none"})

CanAsk(s) ==
  /\ client[Owner[s]] = "in"
  /\ request[s] = "new"
  /\ TransportSettled(TransportOf[s])

\* that.publish for a 'webrtc' publication.
Publish(s) ==
  /\ CanAsk(s)
  /\ IF Owner[s] \in participants /\ InputCount < inputLimit
     THEN /\ streams' = [streams EXCEPT ![s] = "connecting"]
          /\ Initiate(s)
     ELSE /\ request' = [request EXCEPT ![s] = "error"]
          /\ UNCHANGED <<streams, operations, onNode>>
  /\ UNCHANGED <<client, participants, subs, adding, terminating, reaping, transports,
                 locality, clients, recycling, leases, faults>>

\* that.subscribe for a 'webrtc' subscription: the source is one the client was told of,
\* so a forward stream or one that has gone since.
Subscribe(b) ==
  /\ CanAsk(b)
  /\ streams[SourceOf[b]] # "connecting"
  /\ IF Owner[b] \in participants /\ streams[SourceOf[b]] = "ready"
     THEN /\ subs' = [subs EXCEPT ![b] = "connecting"]
          /\ Initiate(b)
     ELSE /\ request' = [request EXCEPT ![b] = "error"]
          /\ UNCHANGED <<subs, operations, onNode>>
  /\ UNCHANGED <<client, participants, streams, adding, terminating, reaping, transports,
                 locality, clients, recycling, leases, faults>>

\* that.unpublish and that.unsubscribe: accessController.terminate hands the session to
\* RtcController.terminate.  A session without an operation is refused there and the
\* refusal is swallowed, and a call that throws changes nothing, so neither is a step.
Terminate(s) ==
  /\ client[Owner[s]] = "in"
  /\ Owner[s] \in participants
  /\ \/ s \in Streams /\ streams[s] # "none"
     \/ s \in Subs /\ subs[s] # "none"
  /\ Terminable(s)
  /\ terminating' = terminating \cup ByRequest({s})
  /\ UNCHANGED <<client, request, reaping, confVars, rtcVars, nodeVars, faults>>

\* that.leave: terminateByOwner of the participant, then removeParticipant.  When a
\* termination throws, the chain is rejected and the participant stays in the map.
\* Without operations there is nothing to wait for and its transports fail at once.
Leave(p) ==
  LET owned      == {s \in SessionsOf(p) : operations[s] # "none"}
      throwing   == {s \in owned : TerminateThrows(s)}
  IN  /\ client[p] = "in"
      /\ client' = [client EXCEPT ![p] = "gone"]
      /\ IF p \notin participants
         THEN UNCHANGED <<participants, streams, subs, terminating, reaping, recycling, onNode, astray>>
         ELSE \E T \in Reached(owned, throwing) :
                IF throwing # {}
                THEN /\ terminating' = terminating \cup (T \X {"leave"})
                     /\ UNCHANGED <<participants, streams, subs, reaping, recycling, onNode, astray>>
                ELSE /\ RemoveParticipant(p, terminating \cup (T \X {"leave"}))
                     /\ IF owned = {}
                        THEN FailLoop(TransportsOf(p)) /\ UNCHANGED reaping
                        ELSE /\ reaping' = [reaping EXCEPT ![p] = TransportsOf(p)]
                             /\ UNCHANGED <<recycling, onNode, astray>>
  /\ UNCHANGED <<adding, request, rtcVars, clients, leases, tally>>

\* doDropParticipant, of the management API or for a portal that was lost: the dropUser
\* RPC is a stub that resolves, so the participant is removed in the same macrotask.  Nobody
\* calls terminateByOwner: its transports go astray, but for those that are given back already.
Drop(p) ==
  /\ p \in participants
  /\ RemoveParticipant(p, terminating)
  /\ astray' = astray \cup (TransportsOf(p) \ recycling)
  /\ UNCHANGED <<client, adding, request, reaping, rtcVars, nodeVars, tally>>

-----------------------------------------------------------------------------
(* Replies of RPCs                                                          *)

\* A request that fails removes the entry it made; the operation, if any, stays.
FailRequest(s) ==
  /\ request' = [request EXCEPT ![s] = "error"]
  /\ RemoveSession(s, terminating)

\* getWorkerNode answers: the node has the task, the conference a client of the node,
\* and the chain goes on whether the participant is still there or not.  When it is not, the
\* transport goes astray: terminateByOwner came before it.
GetWorkerNodeOk(s, n) ==
  LET t == TransportOf[s]
  IN  /\ request[s] = "scheduling"
      /\ n \in Placement[t]
      /\ leases' = leases \cup {<<n, t>>}
      /\ clients' = clients \cup {n}
      /\ transports' = [transports EXCEPT ![t] = "pending"]
      /\ locality' = [locality EXCEPT ![t] = n]
      /\ InitiateOn(s, TRUE)
      /\ astray' = IF Owner[s] \in participants THEN astray ELSE astray \cup {t}
      /\ UNCHANGED <<client, terminating, reaping, confVars, recycling, tally>>

\* getWorkerNode fails, before the agent has given the node to the task or after it; then the
\* conference does not know of the node.
GetWorkerNodeFail(s) ==
  /\ request[s] = "scheduling"
  /\ RpcFault
  /\ \/ UNCHANGED <<leases, astray>>
     \/ /\ \E n \in Placement[TransportOf[s]] : leases' = leases \cup {<<n, TransportOf[s]>>}
        /\ astray' = astray \cup {TransportOf[s]}
  /\ FailRequest(s)
  /\ UNCHANGED <<client, participants, adding, reaping, rtcVars, clients, recycling, onNode, closed>>

\* Mutant: the subscription is removed and the client never called back.
InitiateOkUnanswered(s) ==
  /\ request[s] = "initiating"
  /\ IF s \in Subs /\ streams[SourceOf[s]] = "none"
     THEN RemoveSession(s, terminating) /\ UNCHANGED request
     ELSE /\ request' = [request EXCEPT ![s] = "ok"]
          /\ UNCHANGED <<streams, subs, terminating>>
  /\ UNCHANGED <<client, participants, adding, reaping, rtcVars, nodeVars, faults>>

\* The node answers 'publish' or 'subscribe'.  A subscription whose source has gone
\* meanwhile is removed and refused: the termination asked for names the participant
\* in place of the session, finds no such operation, and the operation stays.
InitiateOk(s) ==
  /\ request[s] = "initiating"
  /\ IF s \in Subs /\ streams[SourceOf[s]] = "none"
     THEN FailRequest(s)
     ELSE /\ request' = [request EXCEPT ![s] = "ok"]
          /\ UNCHANGED <<streams, subs, terminating>>
  /\ UNCHANGED <<client, participants, adding, reaping, rtcVars, nodeVars, faults>>

\* The node refuses, or its answer is lost or misses the deadline: the operation stays.
InitiateFail(s) ==
  /\ request[s] = "initiating"
  /\ RpcFault
  /\ FailRequest(s)
  /\ \/ operations[s] = "initiated" /\ onNode' = onNode \ {s}
     \/ UNCHANGED onNode
  /\ UNCHANGED <<client, participants, adding, reaping, rtcVars, clients, recycling, leases, closed, astray>>

\* The node answers 'unpublish' or 'unsubscribe'.  If it carries the session the
\* operation ends: 'session-aborted' removes the stream or the subscription.  If it does
\* not, or if the answer is lost, the operation stays as it is.
TerminateOk(s, by) ==
  /\ <<s, by>> \in terminating
  /\ s \in onNode
  /\ onNode' = onNode \ {s}
  /\ operations' = [operations EXCEPT ![s] = "none"]
  /\ IF operations[s] # "none"
     THEN RemoveSession(s, terminating \ {<<s, by>>})
     ELSE /\ terminating' = terminating \ {<<s, by>>}
          /\ UNCHANGED <<streams, subs>>
  /\ UNCHANGED <<client, participants, adding, request, reaping, transports, locality,
                 clients, recycling, leases, faults>>

TerminateRefused(s, by) ==
  /\ <<s, by>> \in terminating
  /\ s \notin onNode
  /\ terminating' = terminating \ {<<s, by>>}
  /\ UNCHANGED <<client, request, reaping, confVars, rtcVars, nodeVars, faults>>

\* Mutant: terminate without its .catch, so Promise.all of terminateByOwner is rejected.
TerminateLostUncaught(s, by) ==
  /\ <<s, by>> \in terminating
  /\ RpcFault
  /\ terminating' = terminating \ {<<s, by>>}
  /\ reaping' = IF by = "leave" THEN [reaping EXCEPT ![Owner[s]] = {}] ELSE reaping
  /\ onNode' \in {onNode, onNode \ {s}}
  /\ UNCHANGED <<client, request, confVars, rtcVars, clients, recycling, leases, closed, astray>>

TerminateLost(s, by) ==
  /\ <<s, by>> \in terminating
  /\ RpcFault
  /\ terminating' = terminating \ {<<s, by>>}
  /\ onNode' \in {onNode, onNode \ {s}}
  /\ UNCHANGED <<client, request, reaping, confVars, rtcVars, clients, recycling, leases, closed, astray>>

\* terminateByOwner, once all its terminations have ended: its transports fail.
Reap(p) ==
  /\ reaping[p] # {}
  /\ \A s \in SessionsOf(p) : <<s, "leave">> \notin terminating
  /\ FailLoop(reaping[p])
  /\ reaping' = [reaping EXCEPT ![p] = {}]
  /\ UNCHANGED <<client, request, terminating, confVars, rtcVars, clients, leases, tally>>

\* Mutant: the client is closed although the agent keeps the task.
RecycleKeepsLease(t) ==
  /\ t \in recycling
  /\ recycling' = recycling \ {t}
  /\ CloseClient(locality[t])
  /\ UNCHANGED <<client, request, terminating, reaping, confVars, rtcVars, leases, onNode, rpcFaults,
                 transportFaults, astray>>

\* The agent answers recycleNode: the task is gone, and rpcRequest.js closes its client
\* of the node, which is the client of every other transport on that node too.
RecycleOk(t) ==
  /\ t \in recycling
  /\ recycling' = recycling \ {t}
  /\ leases' = leases \ {<<locality[t], t>>}
  /\ CloseClient(locality[t])
  /\ UNCHANGED <<client, request, terminating, reaping, confVars, rtcVars, onNode, rpcFaults,
                 transportFaults, astray>>

\* recycleNode fails, or its answer is lost: the client is closed all the same, and a task that
\* the agent still has is not asked for again.
RecycleLost(t) ==
  /\ t \in recycling
  /\ RpcFault
  /\ recycling' = recycling \ {t}
  /\ CloseClient(locality[t])
  /\ \/ leases' = leases \ {<<locality[t], t>>} /\ UNCHANGED astray
     \/ astray' = astray \cup {t} /\ UNCHANGED leases
  /\ UNCHANGED <<client, request, terminating, reaping, confVars, rtcVars, onNode>>

\* roomController.subscribe returns.  It succeeds only if the source is still published;
\* then the subscription is put in the map, whether its entry is still there or not,
\* unless its owner has left.  In the other cases the session is terminated.
AddSubscriptionEnd(b) ==
  /\ b \in adding
  /\ adding' = adding \ {b}
  /\ \/ /\ streams[SourceOf[b]] = "ready"
        /\ Owner[b] \in participants
        /\ subs' = [subs EXCEPT ![b] = "ready"]
        /\ UNCHANGED <<terminating, faults>>
     \/ /\ \/ streams[SourceOf[b]] # "ready" /\ UNCHANGED faults
           \/ Owner[b] \notin participants /\ UNCHANGED faults
           \/ RpcFault /\ UNCHANGED <<closed, astray>>
        /\ terminating' = terminating \cup ByRequest({c \in {b} : Terminable(c)})
        /\ UNCHANGED subs
  /\ UNCHANGED <<client, participants, streams, request, reaping, rtcVars, nodeVars>>

-----------------------------------------------------------------------------
(* WebRTC nodes                                                             *)

\* Mutant: the session is established whatever the state of its transport.
TracksCompleteAtOnce(s) ==
  /\ s \in onNode
  /\ Reachable(TransportOf[s])
  /\ operations[s] = "initiated"
  /\ operations' = [operations EXCEPT ![s] = "completed"]
  /\ Established({s})
  /\ UNCHANGED <<client, participants, subs, request, reaping, transports, locality, nodeVars,
                 faults>>

\* onTrackUpdate 'tracks-complete': established now if the transport is, later if not.
TracksComplete(s) ==
  /\ s \in onNode
  /\ Reachable(TransportOf[s])
  /\ operations[s] = "initiated"
  /\ operations' = [operations EXCEPT ![s] = "completed"]
  /\ IF transports[TransportOf[s]] = "completed"
     THEN Established({s})
     ELSE UNCHANGED <<streams, adding, terminating>>
  /\ UNCHANGED <<client, participants, subs, request, reaping, transports, locality, nodeVars,
                 faults>>

\* onTransportProgress 'ready': its completed operations are established.
TransportReady(t) ==
  /\ transports[t] = "pending"
  /\ Reachable(t)
  /\ SessionsOn(t) \cap onNode # {}
  /\ transports' = [transports EXCEPT ![t] = "completed"]
  /\ Established({s \in SessionsOn(t) : operations[s] = "completed"})
  /\ UNCHANGED <<client, participants, subs, request, reaping, locality, operations, nodeVars,
                 faults>>

\* onTransportProgress 'failed' of the node: the transport and its operations stay in
\* the maps, and so do their streams and subscriptions.
TransportFailed(t) ==
  /\ TransportFault
  /\ Reachable(t)
  /\ SessionsOn(t) \cap onNode # {}
  /\ FailTransports({t})
  /\ UNCHANGED <<client, request, terminating, reaping, confVars, rtcVars, clients, leases, closed>>

\* The process of a node ends: the notification stream of its client ends with it.
NodeLost(n) ==
  /\ TransportFault
  /\ n \in clients
  /\ CloseClient(n)
  /\ leases' = {l \in leases : l[1] # n}
  /\ onNode' = {s \in onNode : locality[TransportOf[s]] # n}
  /\ UNCHANGED <<client, request, terminating, reaping, confVars, rtcVars, recycling>>

-----------------------------------------------------------------------------
Reply ==
  \/ \E s \in Sessions : \/ \E n \in Nodes : GetWorkerNodeOk(s, n)
                         \/ InitiateOk(s)
                         \/ \E by \in {"request", "leave"} :
                              TerminateOk(s, by) \/ TerminateRefused(s, by)
  \/ \E p \in Participants : Reap(p)
  \/ \E t \in Transports : RecycleOk(t)
  \/ \E b \in Subs : AddSubscriptionEnd(b)

Fault ==
  \/ \E s \in Sessions : \/ GetWorkerNodeFail(s) \/ InitiateFail(s)
                         \/ \E by \in {"request", "leave"} : TerminateLost(s, by)
  \/ \E t \in Transports : TransportFailed(t) \/ RecycleLost(t)
  \/ \E n \in Nodes : NodeLost(n)

Notification ==
  \/ \E s \in Sessions : TracksComplete(s)
  \/ \E t \in Transports : TransportReady(t)

Ask ==
  \/ \E p \in Participants : Join(p) \/ Leave(p) \/ Drop(p)
  \/ \E s \in Streams : Publish(s)
  \/ \E b \in Subs : Subscribe(b)
  \/ \E s \in Sessions : Terminate(s)

Next == Reply \/ Fault \/ Notification \/ Ask

\* Every RPC has a deadline (rpcRequest.js GRPC_TIMEOUT), so it ends: a reply that stays
\* possible is delivered.  Nothing is assumed of clients, faults or peer connections.
Fairness ==
  /\ \A s \in Sessions :
       /\ WF_vars(\E n \in Nodes : GetWorkerNodeOk(s, n))
       /\ WF_vars(InitiateOk(s))
       /\ \A by \in {"request", "leave"} :
            WF_vars(TerminateOk(s, by)) /\ WF_vars(TerminateRefused(s, by))
  /\ \A p \in Participants : WF_vars(Reap(p))
  /\ \A t \in Transports : WF_vars(RecycleOk(t))
  /\ \A b \in Subs : WF_vars(AddSubscriptionEnd(b))

Spec == Init /\ [][Next]_vars
FairSpec == Spec /\ Fairness

-----------------------------------------------------------------------------
(* Properties                                                               *)

\* The room never holds more participants than its limit, however many join at once:
\* that.join counts and adds without waiting in between (conference.js 1281-1325).
ParticipantLimitHeld ==
  participantLimit > 0 => Cardinality(participants) <= participantLimit

\* rtcController.js reads transports.get(operation.transportId).locality.node without a
\* check in terminate, terminateByOwner and setMute: an operation never outlives its
\* transport and never starts before it has a locality.
OperationHasTransport ==
  \A s \in Sessions : operations[s] # "none" =>
     /\ transports[TransportOf[s]] # "none"
     /\ locality[TransportOf[s]] \in Nodes

\* A session becomes ready only while its owner is in the room: whatever a node or the
\* room controller reports after a leave or a drop brings nothing of that participant
\* back (the 'Participant early left' checks of addStream and addSubscription).
NothingComesBack ==
  [][/\ \A s \in Streams : streams[s] # "ready" /\ streams'[s] = "ready"
                             => Owner[s] \in participants'
     /\ \A b \in Subs : subs[b] # "ready" /\ subs'[b] = "ready"
                             => Owner[b] \in participants']_vars

\* removeStream throws at a subscription that was set up over a client that is closed: the client
\* of a node is closed when a transport on it fails or is given back, or when the node is lost.
CutOffAt(s) == \E b \in Subs : SourceOf[b] = s /\ locality[TransportOf[b]] \in closed

\* Every stream and subscription of the room belongs to a participant in it: leave and drop take
\* all of them along, also those whose request is still under way, whatever RPCs fail.  Only a
\* stream with a subscriber on a node whose client was closed may stay.
SessionsOwned ==
  /\ \A s \in Streams : streams[s] # "none" => Owner[s] \in participants \/ CutOffAt(s)
  /\ \A b \in Subs : subs[b] # "none" => Owner[b] \in participants

\* A stream announced to the room has an operation to unpublish it by, completed on a transport
\* that is established, whatever RPCs fail, with the same exception.
ReadyStreamBacked ==
  \A s \in Streams : streams[s] = "ready" =>
     /\ operations[s] = "completed" \/ CutOffAt(s)
     /\ transports[TransportOf[s]] = "completed"

\* The room never has more inputs than room_config.inputLimit: streams in connecting are counted,
\* and no stream enters the map later than that, until an RPC fails.
InputLimitHeld == rpcFaults = 0 => InputCount <= inputLimit

\* Every transport is on nodes of its own.
Apart == \A t, u \in Transports : t # u => Placement[t] \cap Placement[u] = {}

\* As long as an agent keeps a node up for a transport, the conference holds a client of that
\* node, so it can still terminate what runs on it: when transports do not share nodes, until an
\* RPC fails.
LeasedNodeReachable == Apart /\ rpcFaults = 0 => \A l \in leases : l[1] \in clients

\* Every accepted publish or subscribe request is answered in the end.
RequestAnswered ==
  \A s \in Sessions : request[s] = "scheduling" ~> request[s] \in {"ok", "error"}

\* A subscription that still has an operation does not outlive its source: when the
\* source stream is gone its termination is under way, or starts once it is established.  Until
\* something fails: that very termination may be lost, or the node.
OrphanTerminated ==
  \A b \in Subs :
     subs[b] = "ready" /\ operations[b] # "none" /\ streams[SourceOf[b]] = "none"
       ~> subs[b] = "none" \/ operations[b] = "none" \/ rpcFaults + transportFaults > 0

\* An agent keeps a node up for the transport.
Leased(t) == \E n \in Nodes : <<n, t>> \in leases

\* A participant that has left gives back the node of each of its transports, with operations on it
\* or without, whatever request was under way and whichever of its terminations fail
\* (terminateByOwner, rtcController.js 321-343).  The exceptions are the transports in astray:
\*  - getWorkerNode was under way when the participant left, and the transport came afterwards;
\*  - it failed although the agent had given the node, or recycleNode failed, or it was never sent
\*    because the loop threw at a transport of the leaver whose client was closed;
\*  - the participant was dropped before it left (see DroppedReleasesNodes).
\* A leaver whose termination threw is still in participants (see LeaverIsOut).
\* The end of the room, which is not modelled, fails the transports the conference knows once more
\* (RtcController.destroy).
LeaverReleasesNodes ==
  \A s \in Sessions :
     client[Owner[s]] = "gone" /\ Owner[s] \notin participants
       ~> TransportOf[s] \in astray \/ ~Leased(TransportOf[s])

\* "3.3.2 Participant Leaves a Room" (doc/Client-Portal Protocol.md): a participant
\* that logs out is out of the room once the conference has handled it.
LeaverIsOut ==
  [][\A p \in Participants : client[p] = "in" /\ client'[p] = "gone" => p \notin participants']_vars

\* "All connections allocated by it should be released on access nodes"
\* (doc/Fault_Tolerance_in_v3.3.txt): the connections of a participant that is dropped,
\* as all those of a lost portal are, are released in the end.
DroppedReleasesNodes ==
  \A s \in Sessions :
     client[Owner[s]] = "in" /\ Owner[s] \notin participants /\ s \in onNode
       ~> s \notin onNode
=============================================================================
