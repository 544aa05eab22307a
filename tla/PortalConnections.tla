------------------------- MODULE PortalConnections -------------------------
(***************************************************************************)
(* The signalling connections of one portal (source/portal): Connection and *)
(* SocketIOServer of socketIOServer.js, the Client objects that move from   *)
(* connection to connection, and the participants of portal.js, with the    *)
(* clients, their sockets and the conference as the environment.            *)
(*                                                                          *)
(* The portal is one JavaScript process: a step is one macrotask, that is   *)
(* the handler of a message of a socket, of the end of a socket, of a       *)
(* timer, of a notification or of the answer of an RPC, with every promise  *)
(* continuation that follows at once.                                       *)
(*                                                                          *)
(* A participant id is the id of the socket it logged in on, so connections *)
(* name both.                                                               *)
(***************************************************************************)
EXTENDS Naturals, Sequences

CONSTANTS Connections,  \* sockets that may ever connect
          NoConnection, \* clients[id] of nobody, and the id of a connection that has none
          MaxLogins,    \* bound: logins on each socket
          MaxFaults     \* bound: RPCs that fail, are lost or miss their deadline

Ids == Connections
States == {"initialized", "connecting", "connected", "waiting_for_reconnecting"}

ASSUME ConnectionAssumption ==
  /\ NoConnection \notin Connections
  /\ MaxLogins \in [Connections -> Nat] /\ MaxFaults \in Nat

VARIABLES
  socket,       \* of a connection: "off", "open" or "closed"
  state,        \* Connection.state
  client_id,    \* Connection.client_id
  enabled,      \* Connection.reconnection.enabled
  timer,        \* Connection.waiting_for_reconnecting_timer is pending
  login,        \* where the promise chain of a login request is
  clients,      \* SocketIOServer clients[id].connection
  participants, \* portal.js participants
  calls,        \* joins and leaves of a participant on their way to the conference
  members,      \* the participants the conference has
  drops,        \* 'drop' notifications on their way to the portal
  session,      \* what the client at the other end of a socket believes
  tickets,      \* participants whose client has been given a reconnection ticket
  logins, faults

connVars == <<socket, state, client_id, enabled, timer>>
roomVars == <<calls, members, drops>>
dockVars == <<clients, participants>>
userVars == <<session, tickets>>
vars == <<connVars, login, dockVars, roomVars, userVars, logins, faults>>

TypeOK ==
  /\ socket \in [Connections -> {"off", "open", "closed"}]
  /\ state \in [Connections -> States]
  /\ client_id \in [Connections -> Ids \cup {NoConnection}]
  /\ enabled \in [Connections -> BOOLEAN]
  /\ timer \in [Connections -> BOOLEAN]
  /\ login \in [Connections -> {"none", "scheduling", "joining", "joined", "refused"}]
  /\ clients \in [Ids -> Connections \cup {NoConnection}]
  /\ participants \subseteq Ids
  /\ calls \in [Ids -> Seq({"join", "leave"})]
  /\ members \subseteq Ids
  /\ drops \subseteq Ids
  /\ session \in [Connections -> {"out", "asked", "in"}]
  /\ tickets \subseteq Ids
  /\ logins \in [Connections -> Nat]
  /\ faults \in Nat

Init ==
  /\ socket = [c \in Connections |-> "off"]
  /\ state = [c \in Connections |-> "initialized"]
  /\ client_id = [c \in Connections |-> NoConnection]
  /\ enabled = [c \in Connections |-> FALSE]
  /\ timer = [c \in Connections |-> FALSE]
  /\ login = [c \in Connections |-> "none"]
  /\ clients = [id \in Ids |-> NoConnection]
  /\ participants = {} /\ members = {} /\ drops = {} /\ tickets = {}
  /\ calls = [id \in Ids |-> <<>>]
  /\ session = [c \in Connections |-> "out"]
  /\ logins = [c \in Connections |-> 0]
  /\ faults = 0

Fault == faults < MaxFaults /\ faults' = faults + 1

-----------------------------------------------------------------------------
(* Calls one handler makes of another                                       *)

\* The client of c's client_id is in the dock and is c's: the condition under which
\* forceClientLeave does anything.
Docked(c) == client_id[c] # NoConnection /\ clients[client_id[c]] = c

\* Mutant: forceClientLeave does not take the client out of the dock.
KeptInDock(ids) == clients

\* dock.onClientLeft.
Undocked(ids) == [id \in Ids |-> IF id \in ids THEN NoConnection ELSE clients[id]]

\* Mutant: a call overtakes the one before it.
CallOvertakes(id, call) == <<call>> \o calls[id]

\* The calls of a participant on their way to the conference after one more is sent: they
\* share a connection and arrive in order.
CallSent(id, call) == Append(calls[id], call)

\* Mutant: portal.leave forgets the participant without telling the conference.
LeavesForgotten(ids) == calls

\* The leaves portal.leave sends: none for whom it does not have.
LeavesSent(ids) == [id \in Ids |-> IF id \in ids \cap participants
                                   THEN CallSent(id, "leave") ELSE calls[id]]

\* client.leave() and dock.onClientLeft of these ids.
Leave(ids) ==
  /\ clients' = Undocked(ids)
  /\ participants' = participants \ ids
  /\ calls' = LeavesSent(ids)

\* The ids forceClientLeave of c takes out, and the connection's variables after it.
LeftBy(c) == IF Docked(c) THEN {client_id[c]} ELSE {}
IdAfterLeave(c) == IF Docked(c) THEN NoConnection ELSE client_id[c]
StateAfterLeave(c) == IF Docked(c) THEN "initialized" ELSE state[c]

\* The 'disconnect' handler of a connection waits for a relogin instead of leaving.
Waits(c) == state[c] = "connected" /\ enabled[c]

\* Mutant: waiting starts without a timer.
TimerNeverStarted(c) == timer[c]

\* The waiting timer after the 'disconnect' handler.
TimerOnDisconnect(c) == IF Waits(c) THEN TRUE ELSE timer[c]

\* Mutant: the answer of the join is taken for granted.
AnyState(c) == TRUE

\* What the login's answer is checked against: the client has not left meanwhile.
StillConnecting(c) == state[c] = "connecting"

\* Mutant: the old connection is closed, and its client_id reset, before it is read.
ConnectionInfoAfterClose(old) == NoConnection

\* What reconnect() hands over of the connection a client leaves.
ConnectionInfoId(old) == client_id[old]

\* Mutant: resetConnection does not close the connection it takes the client from.
NothingEndedBy(old) == {}

\* The socket that close(false) of the old connection ends, if it is still open: its
\* 'disconnect' handler runs at once.
EndedBy(old) == {d \in {old} : socket[d] = "open"}

\* Mutant: the ticket's time is checked after reconnect().
ReachesExpired(id, expired) == clients[id] # NoConnection

\* A relogin goes as far as reconnect() of the connection the client has.
Reaches(id, expired) == ~expired /\ clients[id] # NoConnection

\* Mutant: a refusal is not passed on.
RefusalSwallowed(id, result) ==
  login' = [login EXCEPT ![id] = IF @ # "joining" THEN @
                                 ELSE IF result = "refused" THEN "none" ELSE result]

\* What the answer of the conference to a join makes of the login's chain, unless the chain
\* has given up waiting.
JoinResult(id, result) ==
  login' = [login EXCEPT ![id] = IF @ = "joining" THEN result ELSE @]

\* A login's chain that ends in its .catch, or whose client left early: the connection
\* is back where it began and its socket closed.
LoginFails(c) ==
  /\ login' = [login EXCEPT ![c] = "none"]
  /\ state' = [state EXCEPT ![c] = "initialized"]
  /\ socket' = [socket EXCEPT ![c] = "closed"]
  /\ session' = [session EXCEPT ![c] = "out"]
  /\ UNCHANGED <<client_id, enabled, timer, tickets>>

\* Client.drop of the clients of these ids.
DropClients(ids) ==
  LET dropped == {clients[id] : id \in ids} IN
  /\ Leave(ids)
  /\ socket' = [c \in Connections |-> IF c \in dropped THEN "closed" ELSE socket[c]]
  /\ session' = [c \in Connections |-> IF c \in dropped THEN "out" ELSE session[c]]
  /\ state' = [c \in Connections |-> IF c \in dropped THEN "initialized" ELSE state[c]]
  /\ client_id' = [c \in Connections |-> IF c \in dropped THEN NoConnection ELSE client_id[c]]
  /\ enabled' = [c \in Connections |-> enabled[c] /\ c \notin dropped]
  /\ timer' = [c \in Connections |-> timer[c] /\ c \notin dropped]

-----------------------------------------------------------------------------
(* Requests of clients                                                      *)

\* A client sends no second request before the answer to its login, a logout excepted.
CanAsk(c) == /\ socket[c] = "open" /\ session[c] = "out"
             /\ state[c] = "initialized" /\ login[c] = "none"

Connect(c) ==
  /\ socket[c] = "off"
  /\ socket' = [socket EXCEPT ![c] = "open"]
  /\ UNCHANGED <<state, client_id, enabled, timer, login, dockVars, roomVars, userVars, logins, faults>>

\* 'login' with a valid token, up to the call of getController.  Whether reconnection is
\* enabled depends on the client's SDK.
Login(c, reconnEnabled) ==
  /\ CanAsk(c) /\ c \notin participants
  /\ logins[c] < MaxLogins[c] /\ logins' = [logins EXCEPT ![c] = @ + 1]
  /\ state' = [state EXCEPT ![c] = "connecting"]
  /\ client_id' = [client_id EXCEPT ![c] = c]
  /\ enabled' = [enabled EXCEPT ![c] = reconnEnabled]
  /\ login' = [login EXCEPT ![c] = "scheduling"]
  /\ session' = [session EXCEPT ![c] = "asked"]
  /\ UNCHANGED <<socket, timer, dockVars, roomVars, tickets, faults>>

\* 'login' with a bad user agent or token, or of a participant portal.js still has.
BadLogin(c, reconnEnabled) ==
  /\ CanAsk(c)
  /\ client_id' = [client_id EXCEPT ![c] = c]
  /\ enabled' = [enabled EXCEPT ![c] = reconnEnabled]
  /\ socket' = [socket EXCEPT ![c] = "closed"]
  /\ UNCHANGED <<state, timer, login, dockVars, roomVars, userVars, logins, faults>>

\* 'relogin' with a valid ticket of a client in the dock: it moves to this connection.
Relogin(c, id) ==
  LET old == clients[id] IN
  /\ CanAsk(c) /\ id \in tickets
  /\ old # NoConnection /\ enabled[old]
  /\ client_id' = [client_id EXCEPT ![c] = ConnectionInfoId(old)]
  /\ state' = [d \in Connections |->
                 IF d = c THEN "connected"
                 ELSE IF d \in EndedBy(old) /\ Waits(d) THEN "waiting_for_reconnecting"
                 ELSE state[d]]
  /\ timer' = [timer EXCEPT ![old] = old \in EndedBy(old) /\ Waits(old)]
  /\ enabled' = [enabled EXCEPT ![old] = FALSE, ![c] = TRUE]
  /\ socket' = [d \in Connections |-> IF d \in EndedBy(old) THEN "closed" ELSE socket[d]]
  /\ clients' = [clients EXCEPT ![id] = c]
  /\ tickets' = tickets \cup {ConnectionInfoId(old)}
  /\ session' = [d \in Connections |->
                   IF d = c THEN "in" ELSE IF d \in EndedBy(old) THEN "out" ELSE session[d]]
  /\ UNCHANGED <<participants, login, roomVars, logins, faults>>

\* 'relogin' with a ticket that has expired, of a client that has left, or of one that
\* may not reconnect; reconnect() has stopped the timer of the last.
ReloginRefused(c, id, expired) ==
  /\ CanAsk(c) /\ id \in tickets
  /\ ~expired /\ clients[id] # NoConnection => ~enabled[clients[id]]
  /\ timer' = [d \in Connections |-> timer[d] /\ ~(Reaches(id, expired) /\ d = clients[id])]
  /\ Leave(LeftBy(c))
  /\ client_id' = [client_id EXCEPT ![c] = IdAfterLeave(c)]
  /\ socket' = [socket EXCEPT ![c] = "closed"]
  /\ UNCHANGED <<state, enabled, login, members, drops, userVars, logins, faults>>

Logout(c) ==
  /\ socket[c] = "open" /\ session[c] \in {"asked", "in"}
  /\ session' = [session EXCEPT ![c] = "out"]
  /\ enabled' = [enabled EXCEPT ![c] = FALSE]
  /\ state' = [state EXCEPT ![c] = "initialized"]
  /\ Leave(LeftBy(c))
  /\ client_id' = [client_id EXCEPT ![c] = IdAfterLeave(c)]
  /\ UNCHANGED <<socket, timer, login, members, drops, tickets, logins, faults>>

\* The socket ends: 'disconnect'.  For an idle one this is also the end of its three
\* minutes without a login.
Disconnect(c) ==
  LET leaves == ~Waits(c) /\ state[c] \in {"connecting", "connected"} IN
  /\ socket[c] = "open"
  /\ socket' = [socket EXCEPT ![c] = "closed"]
  /\ session' = [session EXCEPT ![c] = "out"]
  /\ timer' = [timer EXCEPT ![c] = TimerOnDisconnect(c)]
  /\ Leave(IF leaves THEN LeftBy(c) ELSE {})
  /\ state' = [state EXCEPT ![c] = IF Waits(c) THEN "waiting_for_reconnecting"
                                   ELSE IF leaves THEN StateAfterLeave(c) ELSE @]
  /\ client_id' = [client_id EXCEPT ![c] = IF leaves THEN IdAfterLeave(c) ELSE @]
  /\ UNCHANGED <<enabled, login, members, drops, tickets, logins, faults>>

\* The waiting timer of a connection expires.
TimerFires(c) ==
  /\ timer[c]
  /\ timer' = [timer EXCEPT ![c] = FALSE]
  /\ Leave(LeftBy(c))
  /\ state' = [state EXCEPT ![c] = StateAfterLeave(c)]
  /\ client_id' = [client_id EXCEPT ![c] = IdAfterLeave(c)]
  /\ UNCHANGED <<socket, enabled, login, members, drops, userVars, logins, faults>>

-----------------------------------------------------------------------------
(* The promise chain of a login                                             *)

\* The cluster and the agent name the conference process: portal.join goes on to it.
ControllerFound(c) ==
  /\ login[c] = "scheduling"
  /\ login' = [login EXCEPT ![c] = "joining"]
  /\ calls' = [calls EXCEPT ![c] = CallSent(c, "join")]
  /\ UNCHANGED <<connVars, dockVars, members, drops, userVars, logins, faults>>

ControllerFailed(c) ==
  /\ login[c] = "scheduling" /\ Fault
  /\ LoginFails(c)
  /\ UNCHANGED <<dockVars, roomVars, logins>>

\* The join has succeeded: portal.js has the participant, and the connection checks
\* whether its client is still waiting for the answer.
JoinAnswered(c) ==
  /\ login[c] = "joined"
  /\ IF StillConnecting(c)
     THEN /\ login' = [login EXCEPT ![c] = "none"]
          /\ participants' = participants \cup {c}
          /\ state' = [state EXCEPT ![c] = "connected"]
          /\ clients' = [clients EXCEPT ![client_id[c]] = c]
          /\ session' = [session EXCEPT ![c] = IF @ = "asked" THEN "in" ELSE @]
          /\ tickets' = IF enabled[c] /\ session[c] = "asked"
                        THEN tickets \cup {client_id[c]} ELSE tickets
          /\ UNCHANGED <<socket, client_id, enabled, timer, calls>>
     ELSE /\ LoginFails(c)
          /\ calls' = [calls EXCEPT ![c] = CallSent(c, "leave")]
          /\ UNCHANGED dockVars
  /\ UNCHANGED <<members, drops, logins, faults>>

JoinFailed(c) ==
  /\ login[c] = "refused"
  /\ LoginFails(c)
  /\ UNCHANGED <<dockVars, roomVars, logins, faults>>

\* No answer within GRPC_TIMEOUT, whatever the conference does with the call.
JoinLate(c) ==
  /\ login[c] \in {"joining", "joined", "refused"} /\ Fault
  /\ LoginFails(c)
  /\ UNCHANGED <<dockVars, roomVars, logins>>

-----------------------------------------------------------------------------
(* Notifications and the loss of the cluster manager                        *)

\* A notification comes over the connection that carries the answers of the conference, and
\* not before the answer to a join sent ahead of it.
DropArrives(id) ==
  /\ id \in drops /\ login[id] # "joined"
  /\ drops' = drops \ {id}
  /\ IF clients[id] # NoConnection
     THEN DropClients({id})
     ELSE UNCHANGED <<connVars, dockVars, calls, session>>
  /\ UNCHANGED <<login, members, tickets, logins, faults>>

\* drop('all') when the cluster manager is lost.
DropAll ==
  /\ \E id \in Ids : clients[id] # NoConnection
  /\ DropClients({id \in Ids : clients[id] # NoConnection})
  /\ UNCHANGED <<login, members, drops, tickets, logins, faults>>

-----------------------------------------------------------------------------
(* The conference, as far as portals see it                                 *)

NextCall(id, call) == calls[id] # <<>> /\ Head(calls[id]) = call
CallTaken(id) == calls' = [calls EXCEPT ![id] = Tail(@)]

JoinHandled(id) ==
  /\ NextCall(id, "join") /\ CallTaken(id)
  /\ members' = members \cup {id}
  /\ JoinResult(id, "joined")
  /\ UNCHANGED <<connVars, dockVars, drops, userVars, logins, faults>>

JoinRefused(id) ==
  /\ NextCall(id, "join") /\ CallTaken(id)
  /\ JoinResult(id, "refused")
  /\ UNCHANGED <<connVars, dockVars, members, drops, userVars, logins, faults>>

LeaveHandled(id) ==
  /\ NextCall(id, "leave") /\ CallTaken(id)
  /\ members' = members \ {id}
  /\ UNCHANGED <<connVars, login, dockVars, drops, userVars, logins, faults>>

\* The portal only logs a leave that fails.
LeaveLost(id) ==
  /\ NextCall(id, "leave") /\ CallTaken(id) /\ Fault
  /\ UNCHANGED <<connVars, login, dockVars, members, drops, userVars, logins>>

\* doDropParticipant: the conference drops a participant and notifies the portal.
ConferenceDrops(id) ==
  /\ id \in members
  /\ members' = members \ {id}
  /\ drops' = drops \cup {id}
  /\ UNCHANGED <<connVars, login, dockVars, calls, userVars, logins, faults>>

-----------------------------------------------------------------------------
Request ==
  \E c \in Connections :
    \/ Connect(c) \/ Logout(c) \/ Disconnect(c)
    \/ \E reconnEnabled \in BOOLEAN : Login(c, reconnEnabled) \/ BadLogin(c, reconnEnabled)
    \/ \E id \in Ids : Relogin(c, id) \/ \E expired \in BOOLEAN : ReloginRefused(c, id, expired)

Answer ==
  \E c \in Connections :
    \/ ControllerFound(c) \/ ControllerFailed(c)
    \/ JoinAnswered(c) \/ JoinFailed(c) \/ JoinLate(c)

Conference ==
  \E id \in Ids :
    \/ JoinHandled(id) \/ JoinRefused(id) \/ LeaveHandled(id) \/ LeaveLost(id)
    \/ ConferenceDrops(id)

Drop == DropAll \/ \E id \in Ids : DropArrives(id)

Next == Request \/ Answer \/ Conference \/ Drop \/ \E c \in Connections : TimerFires(c)

\* RPCs are answered or miss their deadline, timers expire, the conference serves calls.
\* Nothing is asked of clients, and a conference need not drop anybody.
Fairness ==
  \A c \in Connections :
    /\ WF_vars(ControllerFound(c)) /\ WF_vars(JoinAnswered(c)) /\ WF_vars(JoinFailed(c))
    /\ WF_vars(JoinHandled(c) \/ JoinRefused(c)) /\ WF_vars(LeaveHandled(c))
    /\ WF_vars(TimerFires(c)) /\ WF_vars(DropArrives(c))

Spec == Init /\ [][Next]_vars
FairSpec == Spec /\ Fairness

-----------------------------------------------------------------------------
(* Safety                                                                   *)

\* As long as its socket is open a client and the portal agree on whether it is in: a client
\* that has been let in is connected, in the dock and a participant of portal.js, and one
\* that has logged out or been refused is not in the dock.  Timers of connections it has
\* left, answers that come late and drops meant for an earlier stay never change that behind
\* its back (forceClientLeave, the continuation of login, relogin).
ServedWhileIn ==
  \A c \in Connections : socket[c] = "open" =>
    /\ session[c] = "in" => state[c] = "connected" /\ client_id[c] \in participants
    /\ session[c] = "in" <=> \E id \in Ids : clients[id] = c

\* The dock of socketIOServer.js and the participants of portal.js name the same ids,
\* however logins, leaves and drops are interleaved.
DockAgreesWithPortal == participants = {id \in Ids : clients[id] # NoConnection}

\* A client that is waited for has a timer running: a relogin that is refused, or another
\* connection's, never stops the only thing that will make it leave.
WaitingIsTimed ==
  \A c \in Connections : Docked(c) /\ state[c] = "waiting_for_reconnecting" => timer[c]

\* Who is in the dock is in the conference or about to be dropped from the portal: no leave
\* of an earlier stay on the same socket overtakes the join of the present one.
DockedIsMember == \A id \in Ids : clients[id] # NoConnection => id \in members \cup drops

\* At most one live connection speaks for a participant: whoever relogs in silences the
\* connection it has left (resetConnection).
OneVoice ==
  \A c, d \in Connections :
    /\ socket[c] = "open" /\ socket[d] = "open"
    /\ state[c] = "connected" /\ state[d] = "connected"
    /\ client_id[c] = client_id[d]
    => c = d

\* A client that may reconnect and whose socket has ended is waited for with a timer: "The
\* waiting for reconnecting timer (Timer100) will be started right after receiving the
\* 'disconnect' event" (doc/Client-Portal Protocol.md).
SilentIsTimed ==
  \A c \in Connections : Docked(c) /\ enabled[c] /\ socket[c] = "closed" => timer[c]

-----------------------------------------------------------------------------
(* Liveness                                                                 *)

NoFaults == [](faults = 0)

\* Every login is answered, or its client has gone.
LoginAnswered == \A c \in Connections : session[c] = "asked" ~> session[c] # "asked"

\* A client that is waited for relogs in on a socket or leaves the portal.
WaitingEnds ==
  \A c \in Connections :
    Docked(c) /\ state[c] = "waiting_for_reconnecting"
      ~> ~(Docked(c) /\ state[c] = "waiting_for_reconnecting")

\* Who has left the portal, by logout, timeout, drop or a login given up, is out of the
\* conference in the end or is logging in again, when no RPC fails.
LeaverLeaves ==
  NoFaults => \A id \in Ids :
    id \notin participants /\ login[id] = "none"
      ~> id \notin members \/ id \in participants \/ login[id] # "none"
=============================================================================
