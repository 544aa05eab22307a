----------------------------- MODULE WebrtcAgent -----------------------------
(***************************************************************************)
(* A WebRTC node (source/agent/webrtc/index.js and wrtcConnection.js): peer  *)
(* connections, the operations (publish, subscribe) on their media sections, *)
(* and the tracks that an offer of the client sets up; and what links the    *)
(* tracks (source/agent/internalConnectionRouter.js and connections.js).     *)
(*                                                                         *)
(* A media section has one track.  A track is known by its connection and    *)
(* its section, a stream of another node by itself.                          *)
(***************************************************************************)
EXTENDS Integers, Sequences, FiniteSets, FiniteSetsExt, Functions

CONSTANTS Connections,      \* ids of peer connections: transports
          Mids,             \* media sections of an offer
          Simulcast,        \* those offered with several encodings (rids)
          Operations, ConnectionOf, MidsOf,
          PublishOperations, \* the others subscribe
          RemoteStreams,    \* streams of other nodes
          Unlinked,         \* no operation, no source
          MaxOffers,        \* bound: offers of the clients
          MaxLinkups        \* bound: calls of linkup

ASSUME OperationsAssumption ==
  /\ ConnectionOf \in [Operations -> Connections] /\ MidsOf \in [Operations -> SUBSET Mids]
  /\ PublishOperations \subseteq Operations /\ Simulcast \subseteq Mids

Tracks == Connections \X Mids
ConnectionIds == Tracks \cup RemoteStreams

\* Streams of other nodes have ids of their own.
ASSUME NamesAssumption ==
  RemoteStreams \cap Tracks = {} /\ Unlinked \notin Operations \cup ConnectionIds

Directions == {"none", "in", "out", "internal"}

VARIABLES
  peer,      \* peerConnections, and the state of each
  started,   \* mappingTransports: operations that were ever started
  media,     \* mediaTracks and mappingPublicId
  direction, \* of each connection of the router; "internal" is a source of another node
  source,    \* audioFrom or videoFrom of each connection
  fed,       \* native links: <<source, destination>>
  completed, \* operations that were reported complete
  reported,  \* tracks the controller was told of and not told to be gone
  late, overtaken, closedFirst, relinked, \* what has happened: see the invariant
  offers, linkups \* counters

agentVars == <<peer, started, media, direction, source, fed, completed, reported,
               late, overtaken, closedFirst, relinked, offers, linkups>>
routerVars == <<direction, source, fed>>

NoPeer == [there |-> FALSE, op |-> [m \in Mids |-> Unlinked], enabled |-> {},
           offered |-> {}, closed |-> {}, tracks |-> {}]

AgentInit ==
  /\ peer = [c \in Connections |-> NoPeer]
  /\ started = {} /\ media = {} /\ completed = {} /\ reported = {}
  /\ direction = [id \in ConnectionIds |-> "none"]
  /\ source = [id \in ConnectionIds |-> Unlinked] /\ fed = {}
  /\ late = {} /\ overtaken = {} /\ closedFirst = {} /\ relinked = {}
  /\ offers = 0 /\ linkups = 0

-----------------------------------------------------------------------------
(* connections.js                                                           *)

Exists(id) == direction[id] # "none"

\* addLocalSource, addLocalDestination: the track of a publication is a source.
AddConnections(ids) ==
  direction' = [id \in ConnectionIds |->
    IF id \notin ids THEN direction[id]
    ELSE IF peer[id[1]].op[id[2]] \in PublishOperations THEN "in" ELSE "out"]

\* cutOffFrom of the sources, cutOffTo of the destinations that are removed.
CutOffTo(ids) ==
  {l \in fed : l[2] \in ids /\ source[l[2]] = l[1] /\ Exists(l[1])}
CutOff(ids) ==
  CutOffTo(ids) \cup {l \in fed : l[1] \in ids /\ source[l[2]] = l[1] /\ direction[l[2]] = "out"}

RemoveConnections(ids) ==
  /\ direction' = [id \in ConnectionIds |-> IF id \in ids THEN "none" ELSE direction[id]]
  /\ source' = [id \in ConnectionIds |->
       IF id \in ids \/ source[id] \in ids THEN Unlinked ELSE source[id]]
  /\ fed' = fed \ CutOff(ids)

\* linkupConnection: an earlier source is not cut off.
LinkupConnection(dst, src) ==
  /\ source' = [source EXCEPT ![dst] = src]
  /\ fed' = fed \cup {<<src, dst>>}
  /\ relinked' = IF source[dst] \in {Unlinked, src} THEN relinked ELSE relinked \cup {<<source[dst], dst>>}

-----------------------------------------------------------------------------
(* Tracks the node makes public, and reports to the controller.             *)

AddTracks(ids) == AddConnections(ids) /\ media' = media \cup ids /\ reported' = reported \cup ids
RemoveTracks(ids) == RemoveConnections(ids) /\ media' = media \ ids /\ reported' = reported \ ids

-----------------------------------------------------------------------------
(* Operations: publish, subscribe, unpublish, unsubscribe.                  *)

CreateWebRTCConnection(c) == [peer[c] EXCEPT !.there = TRUE]
GetWebRTCConnection(op) == op \in started /\ peer[ConnectionOf[op]].there

\* addTrackOperation: a section keeps its first operation.
AddTrackOperation(conn, op) ==
  LET free == {m \in MidsOf[op] : conn.op[m] = Unlinked}
  IN  [conn EXCEPT !.op = [m \in Mids |-> IF m \in free THEN op ELSE @[m]],
                   !.enabled = @ \cup free]

Start(op) ==
  LET c == ConnectionOf[op]
  IN  /\ op \notin started /\ started' = started \cup {op}
      /\ peer' = [peer EXCEPT ![c] = AddTrackOperation(CreateWebRTCConnection(c), op)]
      /\ UNCHANGED <<media, routerVars, completed, reported, late, overtaken, closedFirst, relinked, offers, linkups>>
Publish(op) == op \in PublishOperations /\ Start(op)
Subscribe(op) == op \notin PublishOperations /\ Start(op)

\* destroyTransport of a section looks for the encodings that the offer had; a closed one has none.
FoundAgain(c, m) == m \in peer[c].tracks /\ (m \in Simulcast => m \notin peer[c].closed)

\* removeTrackOperation, and handleTrackInfo for each track that was removed.  When the peer
\* connection is gone there is no answer.
Stop(op) ==
  LET c     == ConnectionOf[op]
      mids  == {m \in Mids : peer[c].op[m] = op}
      gone  == {m \in mids : FoundAgain(c, m)}
      ids   == {c} \X gone
  IN  /\ GetWebRTCConnection(op) /\ mids \cap peer[c].enabled # {}
      /\ peer' = [peer EXCEPT ![c].enabled = @ \ mids, ![c].tracks = @ \ gone]
      /\ closedFirst' = closedFirst \cup ({c} \X {m \in mids \ gone : m \in peer[c].tracks})
      /\ RemoveTracks(ids)
      /\ UNCHANGED <<started, completed, late, overtaken, relinked, offers, linkups>>
Unpublish(op) == op \in PublishOperations /\ Stop(op)
Unsubscribe(op) == op \notin PublishOperations /\ Stop(op)

-----------------------------------------------------------------------------
(* onTransportSignaling: an offer opens some sections and closes others.    *)

\* Of a first or later offer: sections without an operation are closed, the others set up.
SetUp(c, opened) == {m \in opened : peer[c].op[m] # Unlinked}

\* setupTransport: the track of a section whose operation was removed is set up as well.
Offer(c, opened, closed) ==
  LET set  == SetUp(c, opened)
      ids  == {c} \X set
      ops  == {peer[c].op[m] : m \in set}
  IN  /\ peer[c].there /\ offers < MaxOffers /\ offers' = offers + 1
      /\ opened # {} /\ opened \cap peer[c].offered = {} /\ closed \subseteq peer[c].offered
      /\ peer' = [peer EXCEPT ![c].offered = @ \cup opened,
                              ![c].closed = @ \cup closed \cup (opened \ set),
                              ![c].tracks = @ \cup set]
      /\ AddTracks(ids)
      /\ late' = late \cup ({c} \X (set \ peer[c].enabled))
      \* tracks-complete is for the operation of the last section.
      /\ IF ops = {} THEN UNCHANGED <<completed, overtaken>>
         ELSE \E op \in ops : /\ completed' = completed \cup {op}
                              /\ overtaken' = overtaken \cup (ops \ {op})
      /\ UNCHANGED <<started, source, fed, closedFirst, relinked, linkups>>

\* An offer that only closes sections.
Close(c, closed) ==
  /\ peer[c].there /\ offers < MaxOffers /\ offers' = offers + 1
  /\ closed # {} /\ closed \subseteq peer[c].offered \ peer[c].closed
  /\ peer' = [peer EXCEPT ![c].closed = @ \cup closed]
  /\ UNCHANGED <<started, media, routerVars, completed, reported, late, overtaken, closedFirst, relinked, linkups>>

\* destroyTransport: every public track of the connection, then the connection.
DestroyTransport(c) ==
  LET ids == {id \in media : id[1] = c}
  IN  /\ peer[c].there
      /\ peer' = [peer EXCEPT ![c] = NoPeer]
      /\ RemoveTracks(ids)
      /\ UNCHANGED <<started, completed, late, overtaken, closedFirst, relinked, offers, linkups>>

-----------------------------------------------------------------------------
(* internalConnectionRouter.js                                              *)

\* linkup of a track with a source of this node or of another one; that one is kept, even when
\* the destination is not there.
Linkup(dst, src) ==
  /\ linkups < MaxLinkups /\ linkups' = linkups + 1
  /\ dst \in Tracks /\ direction[dst] # "in" /\ direction[src] # "out" /\ dst # src
  /\ src \in RemoteStreams \/ Exists(src)
  /\ direction' = [direction EXCEPT ![src] = IF @ = "none" THEN "internal" ELSE @]
  /\ IF direction[dst] = "out" THEN LinkupConnection(dst, src) ELSE UNCHANGED <<source, fed, relinked>>
  /\ UNCHANGED <<peer, started, media, completed, reported, late, overtaken, closedFirst, offers>>

Cutoff(dst) ==
  /\ direction[dst] = "out" /\ source[dst] # Unlinked
  /\ fed' = fed \ CutOffTo({dst}) /\ source' = [source EXCEPT ![dst] = Unlinked]
  /\ UNCHANGED <<peer, started, media, direction, completed, reported, late, overtaken, closedFirst,
                 relinked, offers, linkups>>

\* The connection to the node of a stream has ended: destroyRemoteSource.
RemoteEnds(src) ==
  /\ direction[src] = "internal"
  /\ RemoveConnections({src})
  /\ UNCHANGED <<peer, started, media, completed, reported, late, overtaken, closedFirst, relinked, offers, linkups>>

AgentNext ==
  \/ \E op \in Operations : Publish(op) \/ Subscribe(op) \/ Unpublish(op) \/ Unsubscribe(op)
  \/ \E c \in Connections :
       \/ DestroyTransport(c)
       \/ \E closed \in SUBSET Mids : Close(c, closed) \/ \E opened \in SUBSET Mids : Offer(c, opened, closed)
  \/ \E dst \in Tracks : Cutoff(dst) \/ \E src \in ConnectionIds : Linkup(dst, src)
  \/ \E src \in RemoteStreams : RemoteEnds(src)

AgentSpec == AgentInit /\ [][AgentNext]_agentVars

-----------------------------------------------------------------------------

\* Types of the variables of the node.
AgentTypeOK ==
  /\ \A c \in Connections :
       /\ peer[c].there \in BOOLEAN /\ peer[c].op \in [Mids -> Operations \cup {Unlinked}]
       /\ \A x \in {peer[c].enabled, peer[c].offered, peer[c].closed, peer[c].tracks} : x \subseteq Mids
  /\ started \subseteq Operations /\ completed \subseteq Operations
  /\ media \subseteq Tracks /\ reported \subseteq Tracks
  /\ direction \in [ConnectionIds -> Directions]
  /\ source \in [ConnectionIds -> ConnectionIds \cup {Unlinked}]
  /\ fed \subseteq ConnectionIds \X ConnectionIds

\* Every track of a connection is the track of an operation that is on, unless the offer came after
\* the end of the operation, or the client had closed the section of a simulcast track before; and
\* an operation with tracks was reported complete, unless another one came in the same offer.
TracksAgree ==
  /\ media = {id \in Tracks : direction[id] # "none"}
  /\ reported = media
  /\ \A id \in media :
       LET p == peer[id[1]] IN
       /\ p.there /\ p.op[id[2]] \in started
       /\ id[2] \in p.enabled \/ id \in late \cup closedFirst
       /\ p.op[id[2]] \in completed \cup overtaken
  /\ \A c \in Connections : {c} \X peer[c].tracks \subseteq media

\* A source feeds the destinations that name it, of which one that was linked up anew without
\* being cut off is an exception; and both are connections of the node.
LinksAgree ==
  /\ \A l \in fed \ relinked : source[l[2]] = l[1] /\ Exists(l[1]) /\ direction[l[2]] = "out"
  /\ \A id \in ConnectionIds : source[id] # Unlinked => <<source[id], id>> \in fed

AgentConsistent == TracksAgree /\ LinksAgree

\* The tracks of a WebRTC node belong to operations and connections that are on, and a track is
\* fed by what it is linked to.
WebrtcAgrees == AgentTypeOK /\ AgentConsistent
=============================================================================
