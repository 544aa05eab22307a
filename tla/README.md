# Models of the Open WebRTC Toolkit server in TLA+

This directory holds TLA+ models of the control plane of this server: the JavaScript processes under
`source/` that admit participants, place their media on nodes and keep track of both. TLC checks the models
on small instances and TLAPS proves theorems about them for every instance.

The modules translate the code, not its documentation. Where the two disagree, a run shows it (see *Findings*).

## The system

| Component | State it keeps | Operations | Hard parts |
|---|---|---|---|
| **Conference** `agent/conference/conference.js` | participants, streams, subscriptions, track owners of one room | join, leave, publish, unpublish, subscribe, unsubscribe, control, drop, notifications of nodes | every handler is a promise chain: the room changes between its steps |
| **RTC controller** `agent/conference/rtcController.js` | transports (peer connections) and operations (sessions on them) | initiate, terminate, terminateByOwner, transport and track notifications | nodes and sessions come and go in any order |
| **RPC clients** `agent/conference/rpcRequest.js` | one gRPC client per node and agent | getWorkerNode, recycleWorkerNode, initiate, terminate | deadlines, lost answers, one client shared by many transports |
| **Access controller** `agent/conference/accessController.js` | sessions of streaming, recording and analytics nodes | initiate, terminate, participantLeave, faults | progress reports race the answers of RPCs |
| **Room controller** `agent/conference/roomController.js` | terminals, streams, mixers, transcoders, spreads | publish, subscribe, mix, rebuild | media may be spread, mixed or transcoded while its source goes |
| **Portal** `portal/` | signalling connections, clients, the participants it joined, buffered messages | login, relogin, logout, disconnect, notify, drop | network breaks, reconnection with a ticket, a waiting timer |
| **Cluster manager** `cluster_manager/` | workers, schedulers, reservations, replicated state | join, quit, report, schedule; follower, leader and candidate roles | heartbeats, reservation timers, elections |
| **Cluster worker** `common/clusterWorker.js` | its registration and tasks | join, keepAlive, recover, addTask | the manager restarts, is lost, forgets |
| **Node manager** `agent/nodeManager.js` | pool of worker processes, tasks of each | getNode, recycleNode, recover, dropAllNodes | processes start late, hang and die |
| **Agent connections** `agent/connections.js`, `internalConnectionRouter.js` | media links inside and between nodes | add, link, cut, remove | the far end may not be there yet |
| **WebRTC agent** `agent/webrtc/` | peer connections, tracks | publish, unpublish, signalling, destroyTransport | tracks appear after negotiation |
| **Audio and video agents** `agent/audio/`, `agent/video/` | inputs, places and regions of a mixer, a ranking, outputs | publish, unpublish, linkup, cutoff, layouts | inputs that wait, end by themselves or are refused; a ranking that is old |
| Streaming and recording agents `agent/streaming/`, `agent/recording/` | one connection per session | publish, subscribe and their ends, reports | a report races an answer |
| Management API, data access | none, database | REST, queries | I/O |
| Native media core `core/` | frames, native threads | | C++ media pipeline |

A client logs in at a *portal*, which asks the *cluster manager* for a conference agent and that agent's *node
manager* for a conference process. The conference asks the cluster manager and a node manager in the same way
for a WebRTC process for each new peer connection, calls that process to publish or subscribe, and is told by
its notifications when tracks and transports are there. Each process is single-threaded; concurrency is between
processes, and between the promise chains within one.

### What would make each component correct

- *Conference*: a session belongs to a participant that is in the room; a stream that is announced is backed by an
  established transport; limits hold; every request is answered; nothing outlives the participant.
- *RTC controller and RPC clients*: an operation has a transport; nodes are given back; no node is out of reach.
- *Access controller*: a session ends once, and its node is given back once.
- *Room controller*: a terminal exists as long as something uses it; a spread stream is cut when its last user goes.
- *Portal*: a participant without a connection leaves in the end; a reconnection neither loses nor repeats a message;
  a timer never removes a client that has reconnected.
- *Cluster manager*: a task is on one worker; a scheduled worker is alive as far as is known; at most one leader a term.
- *Node manager*: a node has tasks of one room, the pool is within its maximum, a node without tasks ends.
- *Agent connections*: a link has both ends; removing an end cuts it.

The places where these are at risk are listed, with their lines, under `hazards` in `PROJECT.json`.

## The modules

| Module | Of | Checked in |
|---|---|---|
| `ConferenceSessions` | conference, RTC controller, RPC clients, with nodes and portal as environment | `sessions_*` |
| `PortalConnections` | portal: login, relogin, waiting timer | `portal_connections`, `portal_silent` |
| `PortalMessages`, `MessageDelivery` | portal: numbering and replay of messages, which implements the abstract delivery | `portal_messages`, `portal_replay` |
| `ClusterSchedule` | cluster manager, scheduler and cluster workers | `cluster` |
| `NodePool` | node manager of an agent | `cluster` |
| `RoomTerminals` | room controller | `room` |
| `VideoMixer` | mixing video node and its layouts | `room` |
| `ServerSessions` | access controller, the sessions of the management API, end of the room | `room` |
| `MediaControls` | control of streams and subscriptions in the conference | `room` |
| `ClusterElection` | election and data copies of cluster managers | `agents`, `election_votes` |
| `SelectiveMixer`, `NodeInputs`, `MediaInputs` | audio mixers and video transcoder; `MediaInputs` puts the two together | `agents` |
| `WebrtcAgent` | peer connections, tracks and the links between them | `agents` |
| `ConferenceSessions_proofs` | theorems about `ConferenceSessions` | |
| `PortalConnections_proofs`, `PortalMessages_proofs` | theorems about the portal | |
| `ClusterElection_proofs` | theorem about the election | |
| `Scheduling_proofs` | theorems about `ClusterSchedule` and `NodePool` | |
| `ServerSessions_proofs` | theorem about `ServerSessions` | |
| `VideoMixer_proofs` | theorem about `VideoMixer` | |
| `Media_proofs` | theorems about `WebrtcAgent`, `SelectiveMixer`, `NodeInputs` and `MediaControls` | |

`MCConferenceSessions`, `MCPortalConnections`, `MCPortalMessages`, `MCCluster`, `MCRoom` and `MCAgents` give them their instances.

*Runs of several systems.* `MCCluster`, `MCRoom` and `MCAgents` each hold modules that share no variable. A variable `system`, chosen in
the initial state, says which of them runs; the variables of the others stay in one initial state in which nothing is due. A behaviour
of such a run is a behaviour of one module, so the run checks each module as a run of its own would: nothing is
hidden, and no interleaving of unrelated modules is enumerated. Fairness of a system that rests holds trivially, since none of its fair
actions is enabled. In these runs a property is a conjunction with named parts in its module.

Still worth doing: a theorem about `RoomTerminals` (`RoomConsistent`), the one module that only TLC checks; and an abstract *session life cycle* (asked for, established, gone, never
back) that `ConferenceSessions` and `ServerSessions` implement.

## ConferenceSessions

One room. A step is one *macrotask* of the conference process: the handler of a request, of a notification or of an
RPC's answer, with all the promise continuations that follow without waiting for another process. What separates two
steps in the model separates two macrotasks in the code, so every interleaving of the model can happen.

| Variable | In the code |
|---|---|
| `client` | what the portal believes of a participant |
| `participants`, `streams`, `subs` | the maps of `conference.js`; `"connecting"` is an entry with `isInConnecting`, `"ready"` one without |
| `adding` | subscriptions whose `roomController.subscribe` has not called back (`addSubscription`) |
| `request` | where the promise chain of a publish or subscribe request is |
| `transports`, `locality`, `operations` | `RtcController`'s maps |
| `terminating`, `reaping` | `rpcReq.terminate` calls in flight, and the transports `terminateByOwner` fails after them |
| `clients`, `recycling` | `rpcRequest.js` `grpcNode`, and `recycleNode` calls in flight |
| `closed` | history: nodes whose entry of `grpcNode` has been closed and deleted, at least once |
| `leases`, `onNode` | environment: tasks the agents keep nodes for, sessions a WebRTC process carries |
| `astray` | history: transports that nothing will fail any more, or whose node could not be given back |

`Join`, `Publish`, `Subscribe`, `Terminate` (unpublish and unsubscribe), `Leave` and `Drop` are the handlers of requests;
`GetWorkerNodeOk/Fail`, `InitiateOk/Fail`, `TerminateOk/Refused/Lost`, `Reap`, `RecycleOk/Lost` and `AddSubscriptionEnd` the
continuations after an RPC; `TracksComplete`, `TransportReady` and `TransportFailed` the notifications of a node;
`NodeLost` the end of a node's notification stream. `Established`, `RemoveParticipant`, `RemoveSession`, `FailTransports`
and `Initiate` are the calls these make of each other.

A session id is drawn by the portal for one request (`client.js`), so its owner, its transport and its source are
constants. Codecs, formats and layouts are left out: a request is one the room's configuration allows. Only the first
participants, the sessions and the limits are told apart, and the implicit participant `admin` is counted by hand.

Two environment assumptions: a client does not use a transport before the answer that tells it its id
(`TransportSettled`), and subscribes only to streams it has been told of.

### Runs

| Run | Instance | Shows |
|---|---|---|
| `sessions_apart` | 2 participants, 2 streams, 1 subscription, 2 transports on 2 nodes, input limit 1, one RPC fault in behaviours without the second stream, fairness | the input limit holds; nodes in use stay in reach; requests are answered; orphaned subscriptions end; whatever fails, a leaver's nodes are given back, with the exceptions below |
| `sessions_faults` | 3 participants, 1 stream, 1 subscription, 2 transports on 1 node, participant limit 2, one RPC fault and one transport fault, no fairness | types, the participant limit, operations have transports, nothing of a gone participant comes back, sessions belong to participants that are there and announced streams are backed by an established transport |
| `sessions_leave` | 2 participants, 2 transports on 1 node, no faults | finding: the second to leave stays in the room |
| `sessions_drop` | 2 participants, 2 transports on 2 nodes, no faults, fairness | finding: a dropped participant's session stays on its node |

*Bounds.* `MaxRpcFaults` and `MaxTransportFaults` bound the faults of a behaviour; one of each is enough to put a failure
between any two steps of the others. In `sessions_apart` an RPC fails only
when the second stream is not published (`FailsOrPublishesTwo`): that stream competes for the input limit, and what is said of the
limit is said until an RPC fails. Ids are used once, so behaviours end: deadlock is not checked (`CHECK_DEADLOCK FALSE`),
a room in which everybody has left has nothing left to do. Two participants, one subscription to one stream and a
second stream that competes for the input limit give every race of two handlers; a third participant matters for the
participant limit only.

*What does not hold of everything, and why.*
- `SessionsOwned` and `ReadyStreamBacked` have one exception, `CutOffAt`. The client of a node is closed when a transport on it is given back or fails, or when the node is lost. Then `removeStream` throws at a
  subscriber on that node and leaves the stream in the map, without owner and, once its own operation ends, without operation. This needs no fault: a transport that is given back is enough, if a publisher
  and a subscriber share a node and the stream's own publisher is on another one.
- An RPC that misses its deadline is a failure to the conference while the node or the agent goes on. So `InputLimitHeld` (a stream
  that was refused may be established later) and `LeasedNodeReachable` (the node of a lost answer is nobody's) are stated until an RPC fails,
  and so is `OrphanTerminated`: the termination it waits for may be the one that is lost.
- `LeaverReleasesNodes` is about every transport of everybody who has left, also one that `terminateByOwner` did not see. Each of its exceptions is a transport that the model puts in `astray` where the code loses it:
  `getWorkerNode` was under way when the owner left, and `_createTransportIfNeeded` enters the transport afterwards, which no leave looks at any more; `getWorkerNode` failed at
  the conference although the agent had given the node; `recycleNode` failed, after which `rpcRequest.js` closes the client and does not ask again; the loop of `terminateByOwner` threw at a transport whose client was closed (`destroyTransport` returns
  `undefined` then), and the ones after it were not reached; the participant was dropped (finding 2). The first and the last need no fault. The fourth needs two transports of a leaver, or two on one node, so it does not
  arise in `sessions_apart`. The end of the room, which this module does not have, fails every transport the
  conference knows once more (`RtcController.destroy`).
- With two transports on one node `LeasedNodeReachable` does not hold at all: that is the finding of `sessions_leave`. It is stated for transports that are `Apart`.

*Fairness.* `Fairness` is weak fairness of the answers of RPCs and of nothing else: every call has a deadline
(`GRPC_TIMEOUT` in `rpcRequest.js`), so its chain goes on. Clients need not ask anything, nodes need not report anything.

## PortalConnections

One portal process with its sockets, and the clients and the conference as its environment. A step is again one macrotask:
the handler of a socket's message, of its end, of a timer, of a notification or of an RPC's answer.

| Variable | In the code |
|---|---|
| `state`, `client_id`, `enabled`, `timer` | `state`, `client_id`, `reconnection.enabled`, `waiting_for_reconnecting_timer` of a `Connection` (`socketIOServer.js`) |
| `login` | where the promise chain of a login request is |
| `clients` | the dock: `clients[id].connection` of `SocketIOServer` |
| `participants` | `portal.js` |
| `calls` | joins and leaves of a participant on their way to the conference |
| `socket`, `session`, `tickets` | environment: sockets, what the client at the other end believes, who has a ticket |
| `members`, `drops` | environment: the conference's participants, its `drop` notifications under way |

`Login`/`BadLogin`, `Relogin`/`ReloginRefused`, `Logout`, `Disconnect` and `TimerFires` are the handlers of a connection,
`ControllerFound/Failed`, `JoinAnswered`, `JoinFailed` and `JoinLate` the continuations of a login, `DropArrives` and `DropAll` the
drops of one participant and of all when the cluster manager is lost. `JoinHandled/Refused`, `LeaveHandled` and `ConferenceDrops`
are what `conference.js` does of `join`, `leave` and `doDropParticipant`. `Leave`, `LeftBy` (`forceClientLeave`), `EndedBy`
(`close(false)`) and `DropClients` (`Client.drop`) are the calls these make of each other. A relogin is one step: nothing it
waits for is outside the process.

Left out: the token and its signature (a ticket is a participant id that has been given one), the refresh of tickets, the format of
answers. The close of a connection idle for three minutes is one of the ends `Disconnect` stands for.

Environment assumptions:
- A client sends no login or relogin before its last one is answered; it may log out. The SDKs wait. A client that did not would
  run two joins with one id, and its second answer would leave a client in the dock on a dead socket.
- Joins, leaves and notifications of one participant share a gRPC connection and are handled in the order they are sent. `DockedIsMember`
  rests on it.

| Run | Instance | Shows |
|---|---|---|
| `portal_connections` | 2 sockets, 2 logins on the first and 1 on the second, 1 failed RPC, fairness | a client that has been let in is served, one that has left is not; dock, `portal.js` and conference agree; who is waited for has a timer; one connection speaks for a participant; logins are answered, waiting ends, leavers leave |
| `portal_silent` | the same, no faults | finding: a client whose socket ends during its login is served without a timer |

*Bounds.* Two sockets give every race of a connection with the one that takes its client over; the second login on the first
socket, with the same id, gives the races of a stay with the next. `MaxFaults` counts RPCs that fail or are late. The
theorems below have no such bounds. Sockets connect once and logins are bounded, so behaviours end and deadlock is not checked.

*Fairness.* RPCs are answered or given up after their deadline, the conference handles what it receives, timers expire and
notifications arrive. Clients need not do anything. `LeaverLeaves` is stated for behaviours without failed RPCs: a leave that fails is only
logged, and a join that is given up may be handled later; then a member stays whom no portal knows.

## PortalMessages

The notifications of one participant. `SendMessage` and `Relogin` are `sendMessage` and the last parts of the relogin handler with
`drainPendingMessages`; `Disconnect` and `TimerFires` are as above. The variables of the connection that has the
client (`state`, `message_seq`, `message_buffer`, `pending_messages`) go to the next connection as they are, so the module has them once. The
client (`received`, `sequence`, `Receive`, `Unseen`) is outside this repository and follows `doc/design/relogin-message.md`. A relogin deletes the
times of the buffered messages, and their comparisons with NaN are false from then on: `NoTime` is that.

`MessageDelivery` is the abstract specification: notifications arrive in the order they were sent, and none is missed for good
but those that are not kept any more. `DeliversInOrder` is the refinement: `sent` is the number of notifications, `got` the set
of those processed, `expired` those outside the buffer (protocol 1.2) or all (1.1, which replays nothing).

| Run | Instance | Shows |
|---|---|---|
| `portal_messages` | 3 notifications, 3 seconds, 2 broken connections, keep time 1, both protocols, fairness | recent messages are in the buffer; the client processes messages in order; the refinement; what was sent is received unless it is too old or the client left; pending messages arrive |
| `portal_replay` | the same | finding: the latest message is processed twice after a relogin |

*Bounds.* Three messages put one before, one during and one after a break; two breaks let the buffer of a first relogin, without times, be replayed
by a second; a keep time of 1 in 3 seconds lets messages expire and stay. *Fairness*: pings find broken sockets, the timer fires, a
socket that is up delivers. No client has to come back: a property about a message is about a client that does, or leaves.

The buffer only grows after a relogin (`delete msg.time`), and `message_keep_time` is shorter than the time a client
may take to come back. Both are in the model; `SentIsReceived` promises only what is still kept.

## ClusterSchedule

One purpose (webrtc, say) of a cluster: the manager (`clusterManager.js`, `scheduler.js`) and a cluster worker per agent
(`clusterWorker.js`). A step is one macrotask of the manager or of a worker; whoever asks for a worker and then for a node is environment.

| Variable | In the code |
|---|---|
| `service`, `workers` | `state` and `workers` of `ClusterManager` |
| `available` | workers whose state and load let `isWorkerAvailable` choose them |
| `executing`, `scheduled` | `workers[w].tasks` and `tasks[t]` of `Scheduler`; `timer` is `reserve_timer` |
| `status`, `ownTasks` | `state` and `tasks` of `clusterWorker.js` |
| `casts` | `pickUpTasks`, `layDownTask` and `quit` on their way |
| `asked` | environment: a task that is being brought to the worker it was scheduled on |

`ScheduleAgain` and `Schedule` are the two halves of `schedule`; `ReservationExpires` is `repealTask`; `Join`, `WhoAreYou`, `KeepAliveLost`, `CheckAlive`, `Restart`
and `Serve` are registration, recovery and the restart of the manager. `PickUpTasks` and `LayDownTask` are `executeTask` and `cancelExecution`.

Assumptions: calls follow casts on one connection, so `join` comes after what was cast before. The 30 seconds of a reservation and the
`initial_time` of a manager outlive calls under way, unless a fault says otherwise: a timer that fires too early counts as one
(`lostCalls`). `alive_count` is "silent for too long". A load report is one step. Left out: queries, cloud registration, and `unschedule` and `rejectTask`, which nobody calls.

## NodePool

The processes an agent has in store and in use (`nodeManager.js`), for the three kinds of agents that `agent/index.js` tells apart: nodes
per task (media), per room (conference), and reused for other rooms (access).

| Variable | In the code |
|---|---|
| `processes`, `nodes`, `idle_nodes`, `spawn_failed` | variables of these names |
| `launched`, `child` | `node_index`, and the child process with what it has sent |
| `keys`, `entries` | rooms and tasks in `tasks[nodeId]` |
| `watched`, `timers` | `check_alive_interval`, callbacks of `setTimeout` |
| `call`, `where` | how far each `getNode` is, and its node |

`idle_nodes` may hold `undefined`: `AfterPick` shifts it out of an empty `nodes`, and `findNodeUsedByRoom`, which may find it there, has then found nothing. What is recycled on a node that
is gone is taken off `tasks[undefined]`, as the address of the node is not known any more. `Forget` and `NodeReady` keep that `addTask` throws when
the room of a waiting `getNode` has been recycled. `RoomTogether` is stated as long as no `undefined` is in the lists. `queryNode` is left out: it reads only.

| Run | Instance | Shows |
|---|---|---|
| `cluster` | 2 workers, 1 task, 2 casts under way, 1 lost call, 1 restart; or one agent of each kind with 2 `getNode` calls for one room or two, 3 processes, at most 2 at once, 1 failure; fairness | a task is on one worker; manager and workers agree; reservations end; the lists agree with the processes and stay within the maximum; calls are answered and the pool is filled again |

*Bounds.* Two workers and one task give every race for a task; a lost call and a restart may come anywhere. Two calls that wait at once,
with a third process to take the place of one that fails, give every race of `getNode` with `close`, `drop` and `recycle`. *Fairness*: calls are answered or given up, casts
arrive, timers expire, a killed process closes. *With losses*: `TaskNotSplit`, `ViewsAgree` and `HoldingEnds` hold until a call is lost, since a cast that is lost
is not repeated. `PoolRefills` does not hold after a process that could not be started: nothing in the code fills the pool then.

## RoomTerminals

The room controller: `terminals`, `streams` and the calls of media nodes it waits for. A step is one call of the conference or one callback.

| Variable | In the code |
|---|---|
| `room.terminals`, `room.streams` | `terminals` and `streams`, with `published`, `subscribed`, `subscribers` and `spread` |
| `room.pending` | calls of `getWorkerNode`, `init`, `generate`, `publish` and `linkup` that have not been answered, with the continuation |
| `room.inputs`, `room.outputs`, `room.silent` | environment: what the media nodes have |
| `room.told` | what the conference has been told of each subscribe and mix |
| `start`, `address` | `initView`, and the internal address a publisher's node tells |
| `scenario`, `windows`, `failures` | what is published and wanted; what a behaviour has been through; errors so far |

Seven scenarios make subscriptions share or follow each other: two formats of one source, one format twice, the mixed view, a recording of two
sources, both tracks of one, a stream that is mixed and transcoded, one mixed by two calls. A media node handles the calls of one controller in
order and at once, and only its answers come later; a failed call is a time-out.

`RoomConsistent` names what the code does not guard against as *windows*: a spread whose callback runs twice because `on_spread_start` does not end the wait
(`twice`), a stream that ends while its publish at a mixer is under way (`late`), an error of `init` or `generate` that leaves its transcoder (`init`, `generate`). Each part of the invariant holds of the
behaviours that have not been through the windows it names. That no call of the conference throws (`threw`) and no callback does (`crashed`) is among what is checked.
Left out: choice of formats, simulcast, data tracks, the audio selector, rebuilds after faults (nobody calls them), and `destroy`.

## VideoMixer

`vmixer.js` and `layout.js`: `active` and `pending` are `inputs` and `pendingInputs` of the `InputManager`, `free` is `freeIndex`, `list` and `shown` are `inputList` and the solution of the
`LayoutProcessor`, `remote` the sources of other nodes, `mixed` what the engine has in each place. A call runs to its end before the next one; the `disconnected` callback of a source comes between calls.

The engine may refuse an input, then the place is in `missing`: also when `setLayout` adds all inputs again and does not look at what it answers. `reset` of the `InputManager` calls a `constructor` that is not its own and changes nothing, so `setLayout`
neither limits the places nor renumbers them. `deinit` gives the places back in the order of the inputs, behind those that were free. `lost` are streams whose source ended by itself, and after `setLayout` the picture may show fewer (`arranged`).
Left out: outputs, `getRegion`, `drawText`, and streams that wait for a link, since the room always knows the address.

## ServerSessions

The sessions that the management API starts: a stream that is pulled in, and a recording, streaming or analytics session that takes it; `conference.js` with `accessController.js` and the nodes' side.

| Variable | In the code |
|---|---|
| `entry`, `adding` | `streams[id]` or `subscriptions[id]`, and the call of the room controller that has not been answered |
| `session`, `locality` | `sessions[id]` of `accessController.js` |
| `chain`, `ending` | promise chains of `initiate` and `rebuildAnalyticsSubscriber`; calls of `terminate`, of the stop after a late answer, and of `recycleWorkerNode` |
| `call` | the request of the management API, with the interval that polls the entry |
| `roomState`, `selfCleaning` | `destroyRoom`, and the timer of `selfClean` |
| `nodes`, `progress`, `notices` | environment: clients, leases and sessions of nodes; their reports |

A request that the room does not allow, or not with these formats, is a call that is refused. `SessionsAgree` is stated for times when nothing is under way, of behaviours
without a failed call (`losses = 0`; sessions may still end or fail at their node). Its exceptions are named in `odd`: *ghost* (an answer of the room controller enters a session that has ended; its source may go without it), *stuck* (`removeStream` threw at a
subscription without tracks), *misaddressed* (the call that should end a session names another), *unreleased* (a node was not given back).
The instance has one stream and one session on it, on one node or on two, of type analytics or not, and one trouble: a failed call, a lost node, an end, or a room that is destroyed.
Fairness: what a session waits for comes (`Awaited`), and a room that is being destroyed ends (`RoomGone`).

## MediaControls

`mix`, `unmix`, `pause` and `play` of a stream, by one operation of a client (`streamControl`) or a list of commands of the management API (`controlStream`), and the update of a subscription. `listed` is `info.inViews`,
`mixed` what the room controller has, `offAir` the status of tracks to the conference (`told`) and on the node; `sub` is the subscription's entry, the room's subscription and the session; `update` is `updateSubscription`.

`ControlsAgree` says that the list and the mixers agree, that mutes agree on both sides, and that an update leaves a subscription or its session ends. Exceptions, each necessary: `unlisted` (a view was mixed for one track only, or removed by
`splice(indexOf(view), 1)` when another one was meant), a mute whose call did not arrive, and an update in the middle of which the session ended or for which neither source could be had (`missed`). Calls of one connection
to a node are handled and answered in order. The instance has two streams, two views, two tracks each, two requests, or a subscription with two updates; one mishap.
Left out: layouts, formats and parameters, and the muting of a subscription, whose status is set the wrong way round (`conference.js:2738`) and nowhere read by the code modelled here.

| Run | Instance | Shows |
|---|---|---|
| `room` | one of the four above | subscriptions that were answered are served, nothing is left that nobody hears; places, engine and picture agree; sessions agree with their nodes; lists agree with what is mixed; every call is answered |

*Bounds.* One failed call, two subscriptions and two mixes put an error and an end between any two steps of another job. Three streams for two places let one wait, be promoted and be refused. *Fairness of
`RoomTerminals`* is stated by hand: calls of one job are records in a set, and `AnswersTo(j)` is weak fairness of their answers.

## ClusterElection

`runAsFollower`, `runAsCandidate` and `runAsLeader` of `clusterManager.js`. A handler holds the mutex of its process to its end, so a message is one step. `manager[n]` is the `state` of the three functions with `is_freshman` and the
data; `inbox[n]` is what the topics it has subscribed to bring, in order. A change of role ends the subscriptions and drops what was under way.

Assumptions: a message goes to those who are subscribed when it is published; a leader's own heartbeats are left out, and that it does not hear them is a step of its own (`LoseOwnHeartbeat`). Of the timers of snapshots that a role leaves
behind, and of restarts of a process, nothing is modelled. The data is the sequence of changes made to it. This commit's `index.js` runs one manager alone and starts no election: the module is about `exports.manager`.

`ElectionSafe` says that a leader has the votes of a majority, and, as long as no candidate has gone back to an earlier term (`regressed`), that a manager votes once per term, a term has one leader, and copies whose last entries
agree have the same data. `OneLeaderStays`: leaders of different terms are not leaders for ever.

Copies agree only if they are `Whole`, that is, have every change they count. A leader that gives up is a freshman again (`unserve`, `clusterManager.js:522`); `setUpdatedData` of a freshman returns at once (`:458`), while the follower's
`appendEntry` counts the change all the same (`:1145`). Such a manager is as up to date as any other in the eyes of the voters: it may be elected again, and serves then without what its successor was told (seen with 2 managers, 3 candidatures, 2 changes and 2
that give up). Its snapshots hand the gap on, so that `Whole` says more than "was never leader".

## SelectiveMixer and NodeInputs

`SelectiveMixer` is `selectiveMixer.js` with the thread of the native `AudioRanker`: `top` is the ranker's, `told` and `stashed` what it has passed on, `changes` the rankings on their way, `rank` and `heard` the node's `currentRank` and the inputs of the mixer behind it.
`again` are streams that were added while an older ranking still named them: the mixer may miss those.

`NodeInputs` is `audio/index.js` (mixing) and `vtranscoder.js` (transcoding): `node.inputs`, `node.outputs`, `node.unlinked` and `node.from` are their maps, `mixed` and `sources` the engine's, `remote` the router's. `orphans` are inputs whose
link was cut off at a mixer, which keeps them.

## WebrtcAgent

`webrtc/index.js`, `wrtcConnection.js`, `internalConnectionRouter.js` and `connections.js`. `peer` is `peerConnections` with `operationMap`, the sections of the remote description and `trackMap`; `started` is `mappingTransports`; `media` is `mediaTracks`; `direction`, `source` and `fed` are the
router's connections, their `audioFrom` or `videoFrom` and the native destinations. A section has one track, or one for several encodings that come and go together.

`AgentConsistent` names what the code lets happen: an offer that sets up a section whose operation was removed (`late`), one `tracks-complete` for several operations of an offer (`overtaken`), a simulcast section that the client closed before its operation
ended (`closedFirst`), a destination linked anew without being cut off (`relinked`). Left out: data tracks, layers, `mediaOnOff`, candidates.

| Run | Instance | Shows |
|---|---|---|
| `agents` | one of: 2 managers with 3 candidatures and 2 changes, or 3 with 2 and 1; 3 speakers for 2 places; 2 streams and 2 links; 3 operations on 2 connections with 2 sections, 3 offers, 2 calls of linkup | leaders are elected, copies agree, double leaders end; nodes have the inputs they were given; tracks and links agree with operations |
| `election_votes` | 3 managers, 3 candidatures | finding: a manager votes twice in a term |

*Bounds.* With three managers a majority is two, so two candidates of one term compete for one vote; candidatures bound the terms. One ranking under way while another is stashed makes it old when it is handled. Three offers
open two sections and close one. *Fairness*: messages are received and leaders send heartbeats.


## Findings

1. `sessions_leave`: `recycleWorkerNode` closes the conference's only client of a node while other transports of the room use
   it; a later `leave` throws before `removeParticipant`, and the participant stays in the room.
2. `sessions_drop`: `doDropParticipant` never terminates the operations of the participant, although
   `doc/Fault_Tolerance_in_v3.3.txt` promises their release.
3. `portal_silent`: a socket that ends while its login is under way is not noticed; the continuation of the login puts the
   client in the dock, and no timer will ever make it leave, although `doc/Client-Portal Protocol.md` starts one after every `disconnect` event of a client
   that may reconnect.
4. `portal_replay`: `sendMessage` increases the number before it binds it, `doc/design/relogin-message.md` afterwards; a client that filters as the
   design says processes the latest message again.
5. `election_votes`: a candidate that hears a heartbeat follows its sender without comparing terms (`clusterManager.js:1912`), while a
  follower and a leader compare. If the sender leads an earlier term, the candidate goes back to it; when it stands again its term is one in
  which it has voted, and `runAsCandidate` has forgotten the vote. So a manager may vote twice in a term, although each vote is given after
  a check "if we've voted in this election before".

## Theorems

Each theorem module states, for all constants that satisfy the named assumptions of the module it is about (which TLC evaluates on every run of it), that the specification implies
`[]` of properties that the runs check on small instances. The shape is the same everywhere: an invariant that holds initially and that every action keeps, with a lemma per action or group of actions, and
the properties as consequences. What follows says what each invariant is and why the property alone would not do.

### `ConferenceSessions_proofs`

They rest on `SessionAssumption` (an id has one owner, transport and source, and nobody shares a transport), `PlacementAssumption` and `LimitAssumption`.

- `TypeCorrect`: `Spec => []TypeOK`.
- `OperationAlwaysHasTransport`: `Spec => []OperationHasTransport`. It is not inductive alone: an operation may start on a
  transport that is already in the map, so the invariant is `IInv == TypeOK /\ TransportPlaced /\ RecycledPlaced /\ OperationHasTransport`,
  where `TransportPlaced` says that a transport in the map has a locality, and `RecycledPlaced` the same of one that is given back. One lemma per kind of step
  (`AskKeeps`, `ReplyKeeps`, `FaultKeeps`, `NotificationKeeps`) has one step per action.
- `GoneStaysGone`: `Spec => NothingComesBack`, from the fact that most steps make nothing ready (`ReadiesNothing`) and that
  `Established` and `AddSubscriptionEnd` look at the participants first.
- `LimitNeverExceeded`: `Spec => []ParticipantLimitHeld`, from `JoinsOnly`, that only `Join` adds a participant and that it
  counts first.

The second part of the module, about who owns what is in the room, adds to `IInv` that a transport is set up for one request alone (`SchedulingAlone`), that the conference has a client of the node of every transport or has closed it (`ClientKept`), and that a session
has nothing before its request has a transport (`NotYet`). On this `Base` rest:

- `NobodysSessionStays` (`SessionsOwned`) and `AnnouncedIsBacked` (`ReadyStreamBacked`), whatever fails. Only steps in which somebody leaves can break the first one: what `RemoveParticipant` leaves behind is what `removeStream` throws at, which is
  `CutOffAt` by `ClientKept`. An exception once made stays, since `closed` only grows and a locality does not change while it matters (`CutOffStays`).
- `InputsNeverExceed` (`InputLimitHeld`). The limit is checked when a publish request comes and the stream is entered in the same macrotask; what could enter one later is `Established` or the continuation of a
  request, so the invariant adds that whatever is under way is counted (`UnderWayCounted`) and that only clients that are in have asked (`AskedByClients`).
- `LeasedStayReachable` (`LeasedNodeReachable`). The invariant adds where transports may be (`PlacedAsAllowed`) and that a lease belongs to a transport that is there (`LeasesUsed`): so the one transport of a node goes before its client does.

### `PortalConnections_proofs`

For any set of sockets, any number of logins on each and any number of faults (`ConnectionAssumption`):

- `PortalTypeCorrect`: `Spec => []TypeOK`.
- `DockAndPortalAgree`, `ClientsAreServed`, `WaitingHasTimer`, `OneVoiceOnly`: `Spec => []` of `DockAgreesWithPortal`, `ServedWhileIn`,
  `WaitingIsTimed` and `OneVoice`. They follow from one inductive invariant, `IInv`: the types, `DockAgreesWithPortal`, and
  `DockKnowsConnection` (a docked client's connection has its id), `LoginUnderWay` (while a chain of a login runs, its connection
  has the id of its socket and nobody is in `portal.js` under it), `SessionAgrees` (what a client with an open socket believes is
  what its connection is) and `TimerAgrees` (only ended sockets have timers, and who is waited for has one). None of the
  four properties is inductive alone: a relogin takes a client from a connection about which `ServedWhileIn` says
  nothing, and a late answer to a login is harmless only because of `LoginUnderWay`. There is one lemma per action
  (`LoginKeeps`, `ReloginKeeps`, ...) with one step per conjunct.
- `DockedInConference`: `Spec => []DockedIsMember`, from a second invariant, `CallsInOrder`, about the calls under way: after them a
  docked participant is a member or about to be dropped. `AppendedCalls`, `TakenLeave` and `TakenJoin` are the facts about queues it needs.

### `PortalMessages_proofs`

For any number of notifications and breaks and any time messages are kept (`MessageAssumption`):

- `MessageTypes` (`TypeOK`), `ClientGoesOn` (`InOrder`), `RecentIsKept` (`BufferHoldsRecent`).
- `PortalDelivers`: `Spec => DeliversInOrder`, the refinement of `MessageDelivery`: a notification is an abstract send, what the client processes an abstract receipt, every other step a stutter.

The invariant is `MessageInv`. With protocol 1.2 (`Numbered`) the buffer is a run of successive notifications up to the latest, the wire takes up where the client's count is, and whatever the client has missed has left the buffer; the count may be one
behind the number of what the client has (the finding of `portal_replay`), which is why `InOrder` allows a repetition there. With 1.1 (`Pending`) everything on the wire, and after it everything that is pending, is newer than what the client has.
`TimesAgree` and `Kept` are what `BufferHoldsRecent` needs: an entry that has been replayed has no time, and is never too old. Lemmas about the lists come first (`FromOnIs`, `TrimmedIs`, `UnseenIs`, ...).

### `Scheduling_proofs`

*The cluster manager and its workers*, for any workers, tasks and bounds (`ScheduleAssumption`):

- `TaskStaysWhole` (`TaskNotSplit`) and `ViewsStayTogether` (`ScheduleConsistent`), until a call is lost.

A worker's tasks and what the manager takes them to be differ while casts are under way, so `ScheduleInv` relates them through the queue: the worker has exactly the tasks the manager would have it execute *after* all its casts (`ViewsMeet`),
and a cast lays down only what one before it, or the manager's list, has picked up (`LaidDownInOrder`). That no two workers get one task (`OneHasIt`) counts who has it, may yet get it, or will be taken to have it; while the manager is in service its scheduler
names that worker (`ScheduledWhereItIs`), and while it recovers nobody is scheduled.

*The pool of nodes of an agent.* `PoolStaysConsistent` (`PoolConsistent`) rests on `PoolAssumption`: at least one node is started ahead of its use, and `maxNodeNum` is positive. Its invariant has three parts, and `PoolConsistent` follows from them.

- `Placed`: the two lists hold the processes, each once, and besides at most what is not a node. That there are never more than `maxNodeNum` is not inductive by itself: `fillNodes` looks at the lengths of the lists, not at the processes, so
  the proof goes through "no more processes than places in the lists" (`NoMoreThanPlaces`, `LaunchPlaces`). An `undefined` takes a place and can only make the pool smaller.
- `Typed`: the types, and that children that have not been started are in no state.
- `TasksAgree`: only a node that is there has rooms, a call waits for a node that was started, and a room is on one node (`Together`). That whoever is given a node is in its tasks needs more, and holds for agents that do not reuse nodes (`NotReused`):
  a node has tasks of one room only, none while it is idle, and the room of whoever waits for it. With it the room of a waiting call cannot be recycled under it, and `addTask` does not throw.

The lemmas on lists (`CutOut`, `WithoutOne`, `Appended`, `Shifted`, `WithNew`) say what `splice`, `push` and `shift` make of a list with each element once; `NodeLeaves` and `FillNodesKeeps` are what the events of the children have in common.

### `ClusterElection_proofs`

- `ElectionIsSafe` (`ElectionHolds`), for any number of managers, candidatures, changes and leaders that give up (`ElectionAssumption`).

`ElectionInv` says that the mailboxes hold what the topics of the role bring (`Formed`), that whom a leader or candidate counts did vote for it (`Elected`), and, until a candidate goes back, that the votes of a manager are for terms up to that of the
last vote it remembers (`Once`) and that the copies agree (`Copied`). `Once` makes votes unique in a term; as two majorities meet, so are leaders, and a leader alone numbers the entries of its term. The copies themselves say too little to be compared, since what
a manager counts but has left is nowhere: `Copied` says that there is *some* history, a function from place (term and index) to data, which every whole copy and every message under way agrees with. Each step either keeps the history or extends it at the
next place of a leader, about which nobody has said anything before.

### `Media_proofs`

- `TracksAndLinksAgree` (`WebrtcAgrees`), for any connections, operations, sections, streams and number of offers (`OperationsAssumption`, `NamesAssumption`: streams of other nodes have ids of their own).
- `NodesKeepInputs` (`MediaInputsAgree`), for any streams, places, links and formats (`SelectiveAssumption`, `NodeAssumption`: the empty names are no stream's).
- `ControlsLeaveAgreement` (`ControlsAgree`), for any streams, views, tracks and requests (`ControlAssumption`, the same).

The WebRTC node: `AgentInv` says in addition that a section with an operation has been started, that a section with a track was offered and its operation completed (`SectionsAgree`), and that the tracks of the connections, the public tracks and the router's
connections are one set (`TracksMeet`): `destroyTransport` and the end of an operation clean up these three separately.

The selecting mixer (`SelectiveInv`): a place of the ranker names an input or nobody, every ranking under way names a stream once and the last one is what was told last (`RankingsAgree`); what is heard has a place, and what has a place
and is an input is heard unless it was added again while an old ranking named it (`HeardAgrees`). The other nodes (`NodeInv`): a link that waits is linked to nothing, and a transcoder has one input, one link that waits and one
that is linked up (`LinksKept`). The last is what keeps `cutoff` of one link from ending the input of another.

The controls (`ControlsInv`) fall apart into streams and subscription, which share no more than the streams that are there. For streams: a request that waits for a track has a view and is not at its mutes (`RequestsKept`); mutes agree also
while calls of `mediaOnOff` are under way (`MutesKept`). That `splice(indexOf(view), 1)` keeps a list without doubles is a lemma about `DropView`, also when the view is not in the list. For the subscription:
while the owner is there, an update has its session or has seen it end, and it names streams, not the absence of one (`UpdateKept`).

### `VideoMixer_proofs`

`MixerStaysConsistent` (`MixerConsistent`) rests on `MixerAssumption`: there is a place, and nothing is mixed under a stream's name but the stream.

`MixerConsistent` speaks of lists (`active`, `pending`, `free`, `list`), whose order decides who gets which place and region; what must hold of them does not depend on it. So `MixerInv` says that each is a list without repetitions and reads them as sets:

- `Placed`: every place is free or one stream's, which no other has, and nobody waits while one is free. `MixedIn`: the engine has in a place its stream, or nothing if it refused it. `Listed`: what the picture shows has a place, and until `setLayout` what has one
  is shown, unless it was refused. `SetsAgree` is the three together. `Waits`, `TakesPlace`, `LeavesPlace` and `TakesOver` say once for sets what happens when a stream waits, gets a place, loses it or takes another's, and `addInput`, `removeInput` and
  `enable` are chains of these: a removed input's place is free for a moment and then the first one's that waits.
- `Pictured`: the regions show what is in the list, in its order when a layout that is wide enough was configured (`Positioned`). `choseTemplate` keeps the layout it had when none is wide enough, so this needs to hold only while the list fits.
- `RoomKnows`: the streams of the node and their sources are those of the room, until the engine refuses one.

`setLayout` is the hard case: every input gives its place back and gets one in an order of its own. `ReorderedIs` and `PlacesAgain` show that the streams are the same and that as many of them get exactly the places that were taken before, from which
`Rearranged` has it that the list, which is not touched, still shows places that are taken, also if the call then throws. What the lists compute is proved by their indices and not by induction: `Kept` ranks the positions (`Ranked`), `Reversed`, `Divided` and `FoundAt` say what reversing, dividing and
looking up yield.

### `ServerSessions_proofs`

`SessionsStayInAgreement` (`SessionsAgree`), for any streams, subscriptions, numbers of calls and of troubles, under `SourceAssumption`: a subscription takes one of the streams, the ids are finitely many, and a session has a node it may be given.

`SessionsAgree` speaks of times when nothing is under way, so it says nothing about the steps in between. `IInv` has the types (`Parts`, `OtherTypes`) and, as long as no call has been lost, `Calm`. That is `NoFault` (what could only follow a loss has not happened) and, for each session, `Good`:

- `EntryBacked`: an entry of the conference has a session that is not about to end, or is a ghost or stuck. `SessionNamed`: a session has an entry, or a call that will make it ready, or its end is on the way. `SessionCarried`: the node of a session
  has been leased for it and carries it, or is about to be recycled.
- `LeaseUsed`: a session has one lease at most, and there is somebody who uses it or is about to give it back. Without it the recycling of one node could leave another lease of the same session behind.
- `InOrder`: what cannot be there before a node is found (`Unplaced`). Without it a `terminate` could be answered by a node that does not carry the session yet.
- `SourceReady`: a subscription that is ready has a ready source, unless it is a ghost.

There is one lemma per action. `removeStream`, `destroyRoom` and a node's loss end a set of sessions, in the model a fold over the set: that its function exists, that each session of the set is ended once and that the others are left alone (`SubscribersFolded`, `SessionsEnded`, `SessionsImpacted`) is
shown for the parts of a finite set, from each to the next larger one (`OneByOne`, `Taken`).

### What the proofs found

Four statements that TLC had found true of a small instance turned out not to follow, and a larger instance showed them false. They are now stated as far as they are true:
`SessionsOwned` and `ReadyStreamBacked` do not need a fault to fail, only a node that a publisher and a subscriber share (`CutOffAt`); a former leader may be elected again with copies that lack changes (`Whole`). Their conditions on faults, in turn, were too strong.
In `SessionsAgree`, a subscription was said to be ready only while its source is; a ghost, which takes a second trouble to leave alone, is not removed with its source.
In `VideoMixer`, `Deinit` was once a fold over the inputs; written by what the lists become, it showed that an earlier form gave the places back in another order than the code.

### What stays with TLC

The liveness properties (`RequestAnswered`, `LoginAnswered`, `SentIsReceived`, `HoldingEnds`, `PoolServes`, `CallsAnswered`, `OneLeaderStays` and the others): the prover has no rule for fairness. The invariant `RoomConsistent` of `RoomTerminals`
is checked on its instance and not proved: an end of a stream there is a fold over lists whose steps change the lists of other streams and terminals, and what such a fold leaves behind has to be shown for every list.

## What is not modelled

Of handlers that are modelled, these branches are left out:

- `rtcController.js`: a `destroyTransport` that fails (168-172, caught: the sessions stay on the node until it is recycled), and a second `tracks-complete` of an operation that is completed, which emits `session-established` again (246-253).
- `accessController.js`: a `recycleWorkerNode` that fails, which is only logged.
- `roomController.js` 650-652: a spread that is found connected when it is about to start is one that need not start.
- `nodeManager.js` 148-157: any other message of a process than `READY` and `IMOK`, after which it is killed and dropped, when it comes after the process was dropped.
- `video/layout.js` 151-154: the early return when a region is given the input it shows already.
- `AudioRanker.cpp`: a change of the mark of major or minor alone (270-277), and the time-out of `removeInput` (114-117).
- `audio/index.js` 308-315 and `vtranscoder.js` 413-416: a link whose address is refused (*Invalid link address*), and a link without video at an audio node, which throws.
- `wrtcConnection.js` 575-579: a section that is closed in the offer that first names it, and one that is offered again. A repeated `unpublish` of one operation.

`PROJECT.json` lists every component with what is left out of it. In short:

- The native media core and what wraps it: frames, encoders, ICE and SRTP. The models stop where JavaScript calls an engine, which accepts or refuses.
- `management_api/` and `data_access/`: handlers without state, and database I/O. What they ask of a conference is in `ServerSessions` and `MediaControls`.
- `quicController.js`, a near copy of `rtcController.js` for QUIC transports.
- `strategy.js` and `matcher.js`: choices among candidates. `ClusterSchedule` allows every choice.
- `sdpInfo.js`, codecs and formats, negotiation of resolutions and bit rates: text and tables, about which no property here speaks.
- `initRoom`, which lets no request through before it is done, permissions of participants, SIP, configuration loaders, logging, scripts and tests.
