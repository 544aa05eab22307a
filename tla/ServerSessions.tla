--------------------------- MODULE ServerSessions ---------------------------
(***************************************************************************)
(* The sessions a room starts for the management API: streams that are       *)
(* pulled in, and recordings, streamings and analytics of them              *)
(* (conference.js with accessController.js, over rpcRequest.js; the nodes    *)
(* are source/agent/streaming and source/agent/recording).  A step is one    *)
(* macrotask of the conference, or one event at a node.                      *)
(***************************************************************************)
EXTENDS Naturals, FiniteSets, FiniteSetsExt

CONSTANTS StreamingIns, ServerOutputs,  \* ids of streaming-in and of server side subscriptions
          SourceOf,         \* subscription -> the stream it takes
          AnalyticsChoices, \* sets of subscriptions that may be of type analytics
          AccessNodes, NoWhere, Spare, \* nodes, no node, the node that replaces one
          Placements,       \* the nodes the cluster may find for the sessions: one type, one node
          MaxTroubles       \* bound: calls that fail, nodes that are lost, sessions that are
                            \* deleted or fail, calls that destroy the room

SessionIds == StreamingIns \cup ServerOutputs

ASSUME SourceAssumption ==
  /\ SourceOf \in [ServerOutputs -> StreamingIns] /\ Placements \subseteq [SessionIds -> AccessNodes]
  /\ NoWhere \notin AccessNodes /\ Spare \in AccessNodes /\ MaxTroubles \in Nat
  /\ IsFiniteSet(SessionIds) /\ StreamingIns \cap ServerOutputs = {}

Chains == SessionIds \X {"first", "rebuild"}

VARIABLES
  roomState,  \* "up", "leaving" (destroyRoom waits), "gone"
  selfCleaning, \* selfCleanTimer is set
  entry,      \* streams[id], subscriptions[id]: "none", "connecting", "ready"
  adding,     \* roomController.publish or subscribe has not answered yet
  call,       \* the request of the management API
  session,    \* sessions[id].state of accessController.js
  locality,   \* sessions[id].locality
  chain,      \* where initiate and rebuildAnalyticsSubscriber are, and with which node
  ending,     \* calls of terminate and recycleWorkerNode without an answer
  analytics, placement, \* subscriptions of type analytics, nodes of the sessions
  nodes,      \* gRPC clients of the conference, leases, sessions on the nodes, nodes that are down
  progress,   \* what the node has reported of a session
  notices,    \* reports on their way to the conference
  odd,        \* <<id, what happened>>: see SessionsAgree
  losses, ends \* counters

sessionVars == <<session, locality, chain, ending>>
serverVars == <<roomState, selfCleaning, entry, adding, call, sessionVars, analytics, placement,
                nodes, progress, notices, odd, losses, ends>>
chosen == <<analytics, placement>>

Idle == [step |-> "none", node |-> NoWhere]
NoEnding == [i \in SessionIds |-> [terminate |-> 0, stop |-> 0, recycle |-> 0]]

ServerInit ==
  /\ roomState = "up" /\ selfCleaning = FALSE
  /\ entry = [i \in SessionIds |-> "none"] /\ adding = {} /\ call = [i \in SessionIds |-> "new"]
  /\ session = [i \in SessionIds |-> "none"] /\ locality = [i \in SessionIds |-> NoWhere]
  /\ chain = [c \in Chains |-> Idle] /\ ending = NoEnding
  /\ analytics \in AnalyticsChoices /\ placement \in Placements
  /\ nodes = [clients |-> {}, leases |-> {}, carried |-> {}, down |-> {}]
  /\ progress = [i \in SessionIds |-> "quiet"] /\ notices = {} /\ odd = {} /\ losses = 0 /\ ends = 0

-----------------------------------------------------------------------------
(* A step of the conference works on c, the part of the state it changes     *)
(* with the calls it makes.                                                  *)

Conference == [entry |-> entry, session |-> session, ending |-> ending, chain |-> chain,
               odd |-> odd, threw |-> FALSE]
Become(c) ==
  /\ entry' = c.entry /\ session' = c.session /\ ending' = c.ending
  /\ chain' = c.chain /\ odd' = c.odd

Throws(c) == [c EXCEPT !.threw = TRUE]
Note(c, i, what) == [c EXCEPT !.odd = @ \cup {<<i, what>>}]

\* terminateSession throws when the client of the node is gone.
TerminateSession(c, i) ==
  IF c.session[i] \notin {"connecting", "connected"} THEN [c EXCEPT !.session[i] = "none"]
  ELSE IF locality[i] \notin nodes.clients THEN Throws(c)
  ELSE [c EXCEPT !.ending[i].terminate = @ + 1]

RemoveSubscription(c, o) == [c EXCEPT !.entry[o] = "none"]

\* accessController.terminate: a session it does not have is left to the other controllers.
EndOutput(c, o) ==
  IF c.session[o] = "none" THEN c
  ELSE LET on == TerminateSession(c, o) IN IF on.threw THEN on ELSE RemoveSubscription(on, o)

\* removeStream ends the subscriptions to the stream.  It reads media.tracks of every one, which
\* one in connecting does not have: it throws then, and the stream stays.
EndSubscriber(o, c, i) ==
  IF c.threw \/ c.entry[o] = "none" THEN c
  ELSE IF c.entry[o] = "connecting" THEN Throws(c)
  ELSE IF SourceOf[o] = i THEN EndOutput(c, o) ELSE c

StreamForgetsSubscribers(c, i) == [c EXCEPT !.entry[i] = "none"]
RemoveStream(c, i) ==
  LET ended == FoldSet(LAMBDA o, x : EndSubscriber(o, x, i), c, ServerOutputs)
  IN  IF c.entry[i] = "none" THEN c
      ELSE IF ended.threw THEN [Note(ended, i, "stuck") EXCEPT !.threw = FALSE]
      ELSE [ended EXCEPT !.entry[i] = "none"]

\* onSessionAborted; what removeStream throws there is not passed on.
Aborted(c, i) == IF i \in StreamingIns THEN RemoveStream(c, i) ELSE RemoveSubscription(c, i)

\* accessController.terminate, or onFailed: the session, then its entry.
Terminate(c, i) ==
  IF c.session[i] = "none" THEN c
  ELSE LET on == TerminateSession(c, i) IN IF on.threw THEN on ELSE Aborted(on, i)

-----------------------------------------------------------------------------
(* Requests of the management API                                           *)

\* The call is answered with an error: the entry goes, and the room may be idle.
RefusedCall(c, i) == Aborted(c, i)
AnswerCall(i, answer) == call' = [call EXCEPT ![i] = answer]

\* What is asked for is not allowed in this room, or not with these formats.
RefuseCall(i) == AnswerCall(i, "error") /\ selfCleaning' = TRUE /\ UNCHANGED <<entry, session, chain, ending, odd>>
InitiateSession(i) ==
  /\ AnswerCall(i, "initiating")
  /\ Become([Conference EXCEPT !.entry[i] = "connecting", !.session[i] = "initialized",
                               !.chain[<<i, "first">>] = [Idle EXCEPT !.step = "scheduling"]])
  /\ UNCHANGED selfCleaning

AddStreamingIn(i) ==
  /\ roomState # "gone" /\ i \in StreamingIns /\ call[i] = "new"
  /\ InitiateSession(i) \/ RefuseCall(i)
  /\ UNCHANGED <<roomState, adding, locality, chosen, nodes, progress, notices, losses, ends>>

\* A source that is not ready is refused as well.
AddServerSideSubscription(i) ==
  /\ roomState # "gone" /\ i \in ServerOutputs /\ call[i] = "new"
  /\ (entry[SourceOf[i]] = "ready" /\ InitiateSession(i)) \/ RefuseCall(i)
  /\ UNCHANGED <<roomState, adding, locality, chosen, nodes, progress, notices, losses, ends>>

\* The promise chain of a request ends; that of a rebuild has nobody to tell.
Ended(c, k, ok) ==
  LET i == k[1]
      on == [c EXCEPT !.chain[k] = Idle]
      early == i \in ServerOutputs /\ c.entry[SourceOf[i]] = "none"
  IN  IF k[2] = "rebuild" THEN Become(on) /\ UNCHANGED <<call, selfCleaning>>
      ELSE IF ok /\ ~early THEN Become(on) /\ AnswerCall(i, "waiting") /\ UNCHANGED selfCleaning
      \* The source has been released: the session is not named in the call that should end it.
      ELSE /\ Become(RefusedCall(IF ok THEN Note(on, i, "misaddressed") ELSE on, i))
           /\ AnswerCall(i, "error") /\ selfCleaning' = TRUE

\* A call fails, or a node is lost; a session ends that need not.
Lose == losses + ends < MaxTroubles /\ losses' = losses + 1
End == losses + ends < MaxTroubles /\ ends' = ends + 1

\* getWorkerNode has answered, and initiate is called: the session may have been ended by then.
\* A node that refuses answers like one that does not, and reports the failure.
Scheduled(k) ==
  LET i == k[1]
      n == IF placement[i] \in nodes.down THEN Spare ELSE placement[i] IN
  /\ roomState # "gone" /\ chain[k].step = "scheduling"
  /\ \E refuses \in BOOLEAN :
       /\ IF refuses THEN session[i] # "none" /\ Lose ELSE UNCHANGED losses
       /\ nodes' = [nodes EXCEPT !.clients = @ \cup {n}, !.leases = @ \cup {<<n, i>>},
                       !.carried = IF session[i] = "none" \/ refuses THEN @ ELSE @ \cup {<<n, i>>}]
       /\ notices' = IF refuses THEN notices \cup {<<i, "failed">>} ELSE notices
  /\ IF session[i] = "none"
       THEN /\ Ended([Conference EXCEPT !.ending[i].recycle = @ + 1], k, FALSE)
            /\ UNCHANGED <<locality, progress>>
       ELSE /\ Become([Conference EXCEPT !.chain[k] = [step |-> "initiating", node |-> n]])
            /\ locality' = [locality EXCEPT ![i] = n] /\ progress' = [progress EXCEPT ![i] = "quiet"]
            /\ UNCHANGED <<call, selfCleaning>>
  /\ UNCHANGED <<roomState, adding, chosen, ends>>

\* initiate has been answered.  The state becomes 'connecting', even if it was 'connected'.
InitiatedAt(c, i, n) ==
  IF c.session[i] # "none" THEN [c EXCEPT !.session[i] = "connecting"]
  ELSE IF n \notin nodes.clients THEN Note(c, i, "unreleased")
  ELSE [c EXCEPT !.ending[i].stop = @ + 1, !.ending[i].recycle = @ + 1]
Initiated(k) ==
  LET i == k[1] IN
  /\ roomState # "gone" /\ chain[k].step = "initiating" /\ chain[k].node \notin nodes.down
  /\ Ended(InitiatedAt(Conference, i, chain[k].node), k, session[i] # "none")
  /\ UNCHANGED <<roomState, adding, locality, chosen, nodes, progress, notices, losses, ends>>

\* getWorkerNode or initiate fails: the session is forgotten, its node is not released.
InitiateFails(k) ==
  LET i == k[1] IN
  /\ roomState # "gone" /\ chain[k].step # "none"
  /\ IF chain[k].step = "initiating" /\ chain[k].node \in nodes.down THEN UNCHANGED losses ELSE Lose
  /\ \E took \in BOOLEAN :
       nodes' = IF chain[k].step = "initiating" /\ ~took
                  THEN [nodes EXCEPT !.carried = @ \ {<<chain[k].node, i>>}] ELSE nodes
  /\ Ended([Conference EXCEPT !.session[i] = "none"], k, FALSE)
  /\ UNCHANGED <<roomState, adding, locality, chosen, progress, notices, ends>>

\* An interval that waits for the entry alone.
PollUntilReady(i) ==
  /\ roomState # "gone" /\ call[i] = "waiting" /\ entry[i] = "ready" /\ AnswerCall(i, "ok")
  /\ UNCHANGED <<roomState, selfCleaning, entry, session, chain, ending, odd, adding, locality, chosen,
                 nodes, progress, notices, losses, ends>>

\* The interval looks: the entry is there, is gone, or has been awaited for too long.  The call
\* that should end the session then names the participant in its place.
Poll(i) ==
  /\ roomState # "gone" /\ call[i] = "waiting"
  /\ IF entry[i] = "ready"
       THEN AnswerCall(i, "ok") /\ UNCHANGED <<selfCleaning, entry, session, chain, ending, odd>>
       ELSE /\ AnswerCall(i, "error") /\ selfCleaning' = TRUE
            /\ Become(RefusedCall(IF session[i] = "none" \/ ending[i] # NoEnding[i] THEN Conference
                              ELSE Note(Conference, i, "misaddressed"), i))
  /\ UNCHANGED <<roomState, adding, locality, chosen, nodes, progress, notices, losses, ends>>

DeleteSession(i) ==
  LET c == Terminate(Conference, i) IN
  /\ roomState # "gone" /\ entry[i] # "none" /\ End
  /\ ~c.threw /\ Become(c) /\ selfCleaning' = TRUE
  /\ UNCHANGED <<roomState, adding, call, locality, chosen, nodes, progress, notices, losses>>
DeleteStream(i) == i \in StreamingIns /\ DeleteSession(i)
DeleteSubscription(i) == i \in ServerOutputs /\ DeleteSession(i)

-----------------------------------------------------------------------------
(* Answers of the nodes and agents                                          *)

\* A node that does not carry the session answers an error, and the session stays.
TerminateAnswered(i) ==
  LET n == locality[i] IN
  /\ roomState # "gone" /\ ending[i].terminate > 0
  /\ IF <<n, i>> \in nodes.carried
       THEN ending' = [ending EXCEPT ![i].terminate = @ - 1, ![i].recycle = @ + 1]
       ELSE ending' = [ending EXCEPT ![i].terminate = @ - 1]
  /\ nodes' = [nodes EXCEPT !.carried = @ \ {<<n, i>>}]
  /\ UNCHANGED <<roomState, selfCleaning, entry, adding, call, session, locality, chain, chosen,
                 progress, notices, odd, losses, ends>>

\* The session was ended while it was set up.
StopAnswered(i) ==
  /\ roomState # "gone" /\ ending[i].stop > 0
  /\ ending' = [ending EXCEPT ![i].stop = @ - 1]
  /\ nodes' = [nodes EXCEPT !.carried = @ \ {<<locality[i], i>>}]
  /\ UNCHANGED <<roomState, selfCleaning, entry, adding, call, session, locality, chain, chosen,
                 progress, notices, odd, losses, ends>>

OnNodes(S, i) == \E n \in AccessNodes : <<n, i>> \in S

\* recycleWorkerNode closes the client of the node, which other sessions may be on.
RecycleAnswered(i) ==
  /\ roomState # "gone" /\ ending[i].recycle > 0
  /\ \E n \in AccessNodes :
       /\ OnNodes(nodes.leases, i) => <<n, i>> \in nodes.leases
       /\ nodes' = [nodes EXCEPT !.leases = @ \ {<<n, i>>}, !.clients = @ \ {n}]
  /\ ending' = [ending EXCEPT ![i].recycle = @ - 1]
  /\ session' = [session EXCEPT ![i] = "none"]
  /\ UNCHANGED <<roomState, selfCleaning, entry, adding, call, locality, chain, chosen,
                 progress, notices, odd, losses, ends>>

EndingFails(i) ==
  /\ roomState # "gone" /\ ending[i].terminate > 0 /\ Lose
  /\ ending' = [ending EXCEPT ![i].terminate = @ - 1]
  /\ UNCHANGED <<roomState, selfCleaning, entry, adding, call, session, locality, chain, chosen,
                 nodes, progress, notices, odd, ends>>

\* onSessionProgress of the node: ready once, failed at most once.
Reports(i, what) ==
  /\ \E n \in AccessNodes : <<n, i>> \in nodes.carried
  /\ progress[i] # "failed" /\ progress[i] # what
  /\ IF what = "failed" THEN End ELSE UNCHANGED ends
  /\ progress' = [progress EXCEPT ![i] = what] /\ notices' = notices \cup {<<i, what>>}
  /\ UNCHANGED <<roomState, selfCleaning, entry, adding, call, sessionVars, chosen, nodes, odd, losses>>

\* addStream or addSubscription, up to the call of the room controller.  A subscription whose
\* source has gone is terminated.
OnSessionEstablished(i) ==
  LET known == [Conference EXCEPT !.session[i] = "connected"]
  IN  IF i \in ServerOutputs /\ entry[SourceOf[i]] = "none"
        THEN Become(Terminate(known, i)) /\ UNCHANGED adding
        ELSE Become(known) /\ adding' = adding \cup {i}

\* onSessionStatus: onReady, onFailed.
SessionStatus(i, what) ==
  /\ roomState # "gone" /\ <<i, what>> \in notices /\ notices' = notices \ {<<i, what>>}
  /\ IF session[i] = "none" THEN Become(Conference) /\ UNCHANGED adding
     ELSE IF what = "failed" THEN Become(Terminate(Conference, i)) /\ UNCHANGED adding
     ELSE OnSessionEstablished(i)
  /\ UNCHANGED <<roomState, selfCleaning, call, locality, chosen, nodes, progress, losses, ends>>

\* The room controller has answered: the entry is set, whatever has happened to the session.
\* It refuses a subscription to a stream that it does not have.
Added(i) ==
  LET gone == session[i] = "none" \/ entry[i] = "none" \/ ending[i].terminate + ending[i].recycle > 0
      ready == [Conference EXCEPT !.entry[i] = "ready"]
  IN  /\ roomState # "gone" /\ i \in adding /\ adding' = adding \ {i}
      /\ \/ /\ i \in ServerOutputs => entry[SourceOf[i]] = "ready"
            /\ Become(IF gone THEN Note(ready, i, "ghost") ELSE ready)
            /\ UNCHANGED losses
         \/ /\ i \in ServerOutputs /\ entry[SourceOf[i]] # "ready" /\ UNCHANGED losses
            /\ Become(Terminate(Conference, i))
         \/ Lose /\ Become(Terminate(Conference, i))
      /\ UNCHANGED <<roomState, selfCleaning, call, locality, chosen, nodes, progress, notices, ends>>

-----------------------------------------------------------------------------
(* Nodes that are lost, and the end of the room                             *)

NodeLost(n) ==
  /\ n \notin nodes.down /\ \E i \in SessionIds : <<n, i>> \in nodes.leases
  /\ Lose
  /\ nodes' = [nodes EXCEPT !.down = @ \cup {n}, !.carried = {x \in @ : x[1] # n},
                            !.leases = {x \in @ : x[1] # n}]
  /\ notices' = notices \cup {<<n, "fault">>}
  /\ UNCHANGED <<roomState, selfCleaning, entry, adding, call, sessionVars, chosen, progress, odd, ends>>

\* rebuildAnalyticsSubscriber: a promise chain with the steps of the first one.
RebuildAnalyticsSubscriber(c, i) ==
  [c EXCEPT !.session[i] = "initialized",
            !.chain[<<i, "rebuild">>] = [Idle EXCEPT !.step = "scheduling"]]

\* onFaultDetected of one session: an analytics session is set up again, the others are ended.
Impacted(c, i) ==
  LET on == Aborted(c, i)
  IN  IF c.threw THEN c
      ELSE IF i \in analytics THEN RebuildAnalyticsSubscriber(on, i) ELSE TerminateSession(on, i)
FaultDetected(n) ==
  /\ roomState # "gone" /\ <<n, "fault">> \in notices /\ notices' = notices \ {<<n, "fault">>}
  /\ Become(FoldSet(LAMBDA i, c : Impacted(c, i), Conference,
                    {i \in SessionIds : session[i] # "none" /\ locality[i] = n}))
  /\ UNCHANGED <<roomState, selfCleaning, adding, call, locality, chosen, nodes, progress, losses, ends>>

\* destroyRoom: participantLeave of 'admin' ends every session; when one cannot be ended, it throws.
Destroy(c) ==
  FoldSet(LAMBDA i, s : IF s.threw THEN s ELSE
                      LET on == TerminateSession(s, i) IN IF on.threw THEN on ELSE Aborted(on, i),
          c, {i \in SessionIds : c.session[i] # "none"})
DestroyRoom ==
  LET c == Destroy(Conference) IN
  /\ roomState = "up" /\ Become(c)
  /\ roomState' = IF c.threw THEN roomState ELSE "leaving"
  /\ UNCHANGED <<adding, call, locality, chosen, nodes, progress, notices, losses>>

SelfClean ==
  /\ selfCleaning /\ selfCleaning' = FALSE
  /\ IF \A i \in SessionIds : entry[i] = "none" THEN DestroyRoom /\ UNCHANGED ends
     ELSE UNCHANGED <<roomState, entry, adding, call, sessionVars, chosen, nodes, progress,
                      notices, odd, losses, ends>>
DestroyByApi == DestroyRoom /\ End /\ UNCHANGED selfCleaning

\* The sessions that were there have been ended, or not: the process ends.  What is still on its
\* way is not released.
RoomGone ==
  LET left == {i \in SessionIds : session[i] # "none" \/ ending[i] # NoEnding[i]
                            \/ \E k \in Chains : k[1] = i /\ chain[k] # Idle}
  IN  /\ roomState = "leaving" /\ roomState' = "gone"
      /\ \A i \in SessionIds : session[i] # "none" => ending[i].terminate + ending[i].recycle = 0
      /\ entry' = [i \in SessionIds |-> "none"] /\ session' = [i \in SessionIds |-> "none"]
      /\ chain' = [k \in Chains |-> Idle] /\ adding' = {} /\ notices' = {}
      /\ ending' = NoEnding /\ selfCleaning' = FALSE /\ odd' = odd \cup (left \X {"unreleased"})
      /\ UNCHANGED <<call, locality, chosen, nodes, progress, losses, ends>>

ServerNext ==
  \/ \E i \in SessionIds :
       \/ AddStreamingIn(i) \/ AddServerSideSubscription(i) \/ DeleteStream(i) \/ DeleteSubscription(i)
       \/ Poll(i) \/ Added(i)
       \/ TerminateAnswered(i) \/ StopAnswered(i) \/ RecycleAnswered(i) \/ EndingFails(i)
       \/ \E what \in {"ready", "failed"} : Reports(i, what) \/ SessionStatus(i, what)
  \/ \E k \in Chains : Initiated(k) \/ InitiateFails(k) \/ Scheduled(k)
  \/ \E n \in AccessNodes : NodeLost(n) \/ FaultDetected(n)
  \/ SelfClean \/ DestroyByApi \/ RoomGone

\* What a session waits for comes: calls are answered, the interval looks.
Awaited(i) ==
  \/ \E k \in {i} \X {"first", "rebuild"} : Initiated(k) \/ InitiateFails(k) \/ Scheduled(k)
  \/ Poll(i) \/ TerminateAnswered(i) \/ StopAnswered(i) \/ RecycleAnswered(i)
ServerFairness == (\A i \in SessionIds : WF_serverVars(Awaited(i))) /\ WF_serverVars(RoomGone)

ServerSpec == ServerInit /\ [][ServerNext]_serverVars /\ ServerFairness

-----------------------------------------------------------------------------

\* Types of the variables of the sessions.
ServerTypeOK ==
  /\ roomState \in {"up", "leaving", "gone"} /\ selfCleaning \in BOOLEAN
  /\ entry \in [SessionIds -> {"none", "connecting", "ready"}] /\ adding \subseteq SessionIds
  /\ call \in [SessionIds -> {"new", "initiating", "waiting", "ok", "error"}]
  /\ session \in [SessionIds -> {"none", "initialized", "connecting", "connected"}]
  /\ locality \in [SessionIds -> AccessNodes \cup {NoWhere}]
  /\ chain \in [Chains -> [step : {"none", "scheduling", "initiating"}, node : AccessNodes \cup {NoWhere}]]
  /\ ending \in [SessionIds -> [terminate : Nat, stop : Nat, recycle : Nat]]
  /\ nodes.leases \cup nodes.carried \subseteq AccessNodes \X SessionIds
  /\ progress \in [SessionIds -> {"quiet", "ready", "failed"}] /\ losses \in 0..MaxTroubles

Odd(i) == {x[2] : x \in {y \in odd : y[1] = i}}

\* Nothing is under way that belongs to a session.
Settled ==
  /\ \A k \in Chains : chain[k] = Idle
  /\ ending = NoEnding /\ adding = {} /\ notices = {}
  /\ \A i \in SessionIds : call[i] \notin {"initiating", "waiting"}

\* When nothing is under way and no call has failed, a stream or subscription of the room is ready
\* exactly if accessController has its session, a node carries it and its task is leased; a room
\* that is gone leaves nothing behind; and a subscription is ready only while its source is.  The
\* exceptions are named: an entry set after its session ended (ghost), one whose removal threw
\* (stuck), a session that was not named in the call that should have ended it (misaddressed), a
\* node that was not released (unreleased).
SessionsAgree ==
  /\ ServerTypeOK
  /\ losses = 0 /\ Settled => \A i \in SessionIds :
      /\ entry[i] # "none" => session[i] # "none" \/ Odd(i) \cap {"ghost", "stuck"} # {}
      /\ session[i] # "none" => entry[i] = "ready" \/ "misaddressed" \in Odd(i)
      /\ session[i] # "none" => OnNodes(nodes.carried, i) /\ OnNodes(nodes.leases, i)
      /\ OnNodes(nodes.leases, i) => session[i] # "none" \/ "unreleased" \in Odd(i)
      /\ i \in ServerOutputs /\ entry[i] = "ready" => entry[SourceOf[i]] = "ready" \/ "ghost" \in Odd(i)

\* Every call of the management API is answered, unless the room ends, and a room that is being
\* destroyed ends: as each session is asked for once, there is a time again and again when no call
\* and no room waits.
ServerCallsEnd ==
  []<>(roomState # "leaving" /\
       (roomState = "gone" \/ \A i \in SessionIds : call[i] \notin {"initiating", "waiting"}))
=============================================================================
