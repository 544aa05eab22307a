---------------------- MODULE PortalConnections_proofs ----------------------
(***************************************************************************)
(* Theorems about PortalConnections: for any number of sockets, logins and  *)
(* faults, the dock, portal.js, the connections and the clients agree.      *)
(***************************************************************************)
EXTENDS PortalConnections, SequenceTheorems, TLAPS

(* The inductive invariant                                                  *)

\* A connection in the dock has the id it is there for, and is served or waited for.
DockKnowsConnection ==
  \A id \in Ids : clients[id] # NoConnection =>
    /\ client_id[clients[id]] = id
    /\ state[clients[id]] \in {"connected", "waiting_for_reconnecting"}

\* A login under way has its connection to itself and its id is nobody's yet.
LoginUnderWay ==
  \A c \in Connections :
    /\ login[c] # "none" => /\ state[c] \in {"initialized", "connecting"}
                            /\ client_id[c] = c /\ c \notin participants
    /\ state[c] = "connecting" => login[c] # "none"

\* What a client with an open socket believes is what its connection is.
SessionAgrees ==
  \A c \in Connections :
    /\ session[c] = "asked" => socket[c] = "open" /\ state[c] = "connecting"
    /\ session[c] = "in" => socket[c] = "open" /\ state[c] = "connected"
    /\ socket[c] = "open" /\ state[c] = "connecting" => session[c] = "asked"
    /\ socket[c] = "open" /\ state[c] = "connected" => session[c] = "in" /\ Docked(c)
    /\ socket[c] = "open" => state[c] # "waiting_for_reconnecting"
    /\ socket[c] = "off" => state[c] = "initialized"

\* Only a connection whose socket has ended has a timer, and one that is waited for has it.
TimerAgrees ==
  \A c \in Connections :
    /\ timer[c] => socket[c] = "closed"
    /\ Docked(c) /\ state[c] = "waiting_for_reconnecting" => timer[c] /\ enabled[c]

IInv ==
  /\ TypeOK /\ DockAgreesWithPortal
  /\ DockKnowsConnection /\ LoginUnderWay /\ SessionAgrees /\ TimerAgrees

-----------------------------------------------------------------------------
(* Types                                                                    *)

LEMMA SequencesOfCalls ==
  ASSUME TypeOK, NEW id \in Ids, NEW call \in {"join", "leave"}
  PROVE  CallSent(id, call) \in Seq({"join", "leave"})
BY DEF TypeOK, CallSent

LEMMA LeaveTypes ==
  ASSUME TypeOK, NEW ids \in SUBSET Ids, Leave(ids)
  PROVE  /\ clients' \in [Ids -> Connections \cup {NoConnection}]
         /\ participants' \subseteq Ids
         /\ calls' \in [Ids -> Seq({"join", "leave"})]
<1>1. \A id \in Ids : CallSent(id, "leave") \in Seq({"join", "leave"})
  BY SequencesOfCalls
<1>2. clients' \in [Ids -> Connections \cup {NoConnection}]
  BY DEF Leave, Undocked, TypeOK
<1>3. calls' \in [Ids -> Seq({"join", "leave"})]
  BY <1>1 DEF Leave, LeavesSent, TypeOK
<1> QED
  BY <1>2, <1>3 DEF Leave, TypeOK

LEMMA LeftByTypes ==
  ASSUME TypeOK, NEW c \in Connections
  PROVE  /\ LeftBy(c) \in SUBSET Ids
         /\ IdAfterLeave(c) \in Ids \cup {NoConnection}
         /\ StateAfterLeave(c) \in States
BY ConnectionAssumption DEF TypeOK, LeftBy, IdAfterLeave, StateAfterLeave, Docked, Ids, States

LEMMA LoginFailsTypes ==
  ASSUME TypeOK, NEW c \in Connections, LoginFails(c)
  PROVE  /\ login' \in [Connections -> {"none", "scheduling", "joining", "joined", "refused"}]
         /\ state' \in [Connections -> States]
         /\ socket' \in [Connections -> {"off", "open", "closed"}]
         /\ session' \in [Connections -> {"out", "asked", "in"}]
         /\ UNCHANGED <<client_id, enabled, timer, tickets>>
BY DEF LoginFails, TypeOK, States

LEMMA DropClientsTypes ==
  ASSUME TypeOK, NEW ids \in SUBSET Ids, DropClients(ids)
  PROVE  /\ clients' \in [Ids -> Connections \cup {NoConnection}]
         /\ participants' \subseteq Ids
         /\ calls' \in [Ids -> Seq({"join", "leave"})]
         /\ socket' \in [Connections -> {"off", "open", "closed"}]
         /\ session' \in [Connections -> {"out", "asked", "in"}]
         /\ state' \in [Connections -> States]
         /\ client_id' \in [Connections -> Ids \cup {NoConnection}]
         /\ enabled' \in [Connections -> BOOLEAN]
         /\ timer' \in [Connections -> BOOLEAN]
<1>1. Leave(ids)
  BY DEF DropClients
<1> QED
  BY <1>1, LeaveTypes DEF DropClients, TypeOK, States

\* The one step whose types need more than types: a relogin takes over the id of a
\* connection in the dock, which has one.
LEMMA RequestTypes ==
  ASSUME TypeOK, DockKnowsConnection, Request
  PROVE  TypeOK'
<1> USE DEF connVars, dockVars, roomVars, userVars
<1>1. ASSUME NEW c \in Connections, Connect(c) PROVE TypeOK'
  BY <1>1 DEF Connect, TypeOK
<1>2. ASSUME NEW c \in Connections, Logout(c) PROVE TypeOK'
  BY <1>2, LeaveTypes, LeftByTypes DEF Logout, TypeOK, States
<1>3. ASSUME NEW c \in Connections, Disconnect(c) PROVE TypeOK'
  <2> DEFINE leaves == ~Waits(c) /\ state[c] \in {"connecting", "connected"}
             left   == IF leaves THEN LeftBy(c) ELSE {}
  <2>1. left \in SUBSET Ids /\ Leave(left)
    BY <1>3, LeftByTypes DEF Disconnect
  <2>2. /\ clients' \in [Ids -> Connections \cup {NoConnection}]
        /\ participants' \subseteq Ids
        /\ calls' \in [Ids -> Seq({"join", "leave"})]
    BY <2>1, LeaveTypes
  <2>3. /\ state' \in [Connections -> States]
        /\ client_id' \in [Connections -> Ids \cup {NoConnection}]
    BY <1>3, LeftByTypes DEF Disconnect, TypeOK, States
  <2>4. TimerOnDisconnect(c) \in BOOLEAN
    BY DEF TimerOnDisconnect, TypeOK
  <2> QED
    BY <1>3, <2>2, <2>3, <2>4 DEF Disconnect, TypeOK
<1>4. ASSUME NEW c \in Connections, NEW reconnEnabled \in BOOLEAN, Login(c, reconnEnabled)
      PROVE TypeOK'
  BY <1>4 DEF Login, TypeOK, States, Ids
<1>5. ASSUME NEW c \in Connections, NEW reconnEnabled \in BOOLEAN, BadLogin(c, reconnEnabled)
      PROVE TypeOK'
  BY <1>5 DEF BadLogin, TypeOK, Ids
<1>6. ASSUME NEW c \in Connections, NEW id \in Ids, Relogin(c, id) PROVE TypeOK'
  <2>1. ConnectionInfoId(clients[id]) = id
    BY <1>6 DEF Relogin, ConnectionInfoId, DockKnowsConnection
  <2> QED
    BY <1>6, <2>1 DEF Relogin, TypeOK, States, Ids
<1>7. ASSUME NEW c \in Connections, NEW id \in Ids, NEW expired \in BOOLEAN,
             ReloginRefused(c, id, expired)
      PROVE TypeOK'
  BY <1>7, LeaveTypes, LeftByTypes DEF ReloginRefused, TypeOK
<1> QED
  BY <1>1, <1>2, <1>3, <1>4, <1>5, <1>6, <1>7 DEF Request

\* The other one: the answer to a login puts the connection's id in the dock and in a ticket.
LEMMA AnswerTypes ==
  ASSUME TypeOK, LoginUnderWay, Answer
  PROVE  TypeOK'
<1> USE DEF connVars, dockVars, roomVars, userVars
<1>1. ASSUME NEW c \in Connections, ControllerFound(c) PROVE TypeOK'
  BY <1>1, SequencesOfCalls DEF ControllerFound, TypeOK, Ids
<1>2. ASSUME NEW c \in Connections, ControllerFailed(c) PROVE TypeOK'
  BY <1>2, LoginFailsTypes DEF ControllerFailed, Fault, TypeOK
<1>3. ASSUME NEW c \in Connections, JoinAnswered(c) PROVE TypeOK'
  <2>1. CASE StillConnecting(c)
    <3>1. client_id[c] \in Ids
      BY <1>3 DEF JoinAnswered, LoginUnderWay, Ids
    <3>2. tickets' \subseteq Ids
      BY <1>3, <2>1, <3>1 DEF JoinAnswered, TypeOK
    <3>3. /\ login' = [login EXCEPT ![c] = "none"]
          /\ participants' = participants \cup {c}
          /\ state' = [state EXCEPT ![c] = "connected"]
          /\ clients' = [clients EXCEPT ![client_id[c]] = c]
          /\ session' = [session EXCEPT ![c] = IF @ = "asked" THEN "in" ELSE @]
          /\ UNCHANGED <<socket, client_id, enabled, timer, calls, members, drops, logins, faults>>
      BY <1>3, <2>1 DEF JoinAnswered
    <3> QED
      BY <3>2, <3>3 DEF TypeOK, States, Ids
  <2>2. CASE ~StillConnecting(c)
    BY <1>3, <2>2, LoginFailsTypes, SequencesOfCalls DEF JoinAnswered, TypeOK, Ids
  <2> QED
    BY <2>1, <2>2
<1>4. ASSUME NEW c \in Connections, JoinFailed(c) PROVE TypeOK'
  BY <1>4, LoginFailsTypes DEF JoinFailed, TypeOK
<1>5. ASSUME NEW c \in Connections, JoinLate(c) PROVE TypeOK'
  BY <1>5, LoginFailsTypes DEF JoinLate, Fault, TypeOK
<1> QED
  BY <1>1, <1>2, <1>3, <1>4, <1>5 DEF Answer

LEMMA CallTakenType ==
  ASSUME TypeOK, NEW id \in Ids, NEW call, NextCall(id, call), CallTaken(id)
  PROVE  calls' \in [Ids -> Seq({"join", "leave"})]
<1>1. Tail(calls[id]) \in Seq({"join", "leave"})
  BY DEF TypeOK, NextCall
<1> QED
  BY <1>1 DEF CallTaken, TypeOK

LEMMA ConferenceTypes ==
  ASSUME TypeOK, Conference
  PROVE  TypeOK'
<1> USE DEF connVars, dockVars, roomVars, userVars
<1>1. ASSUME NEW id \in Ids, JoinHandled(id) PROVE TypeOK'
  BY <1>1, CallTakenType DEF JoinHandled, JoinResult, TypeOK
<1>2. ASSUME NEW id \in Ids, JoinRefused(id) PROVE TypeOK'
  BY <1>2, CallTakenType DEF JoinRefused, JoinResult, TypeOK
<1>3. ASSUME NEW id \in Ids, LeaveHandled(id) PROVE TypeOK'
  BY <1>3, CallTakenType DEF LeaveHandled, TypeOK
<1>4. ASSUME NEW id \in Ids, LeaveLost(id) PROVE TypeOK'
  BY <1>4, CallTakenType DEF LeaveLost, Fault, TypeOK
<1>5. ASSUME NEW id \in Ids, ConferenceDrops(id) PROVE TypeOK'
  BY <1>5 DEF ConferenceDrops, TypeOK
<1> QED
  BY <1>1, <1>2, <1>3, <1>4, <1>5 DEF Conference

LEMMA DropTypes ==
  ASSUME TypeOK, Drop
  PROVE  TypeOK'
<1> USE DEF connVars, dockVars, roomVars, userVars
<1>1. CASE DropAll
  BY <1>1, DropClientsTypes DEF DropAll, TypeOK
<1>2. ASSUME NEW id \in Ids, DropArrives(id) PROVE TypeOK'
  <2>1. CASE clients[id] # NoConnection
    BY <1>2, <2>1, DropClientsTypes DEF DropArrives, TypeOK
  <2>2. CASE clients[id] = NoConnection
    BY <1>2, <2>2 DEF DropArrives, TypeOK
  <2> QED
    BY <2>1, <2>2
<1> QED
  BY <1>1, <1>2 DEF Drop

LEMMA TimerTypes ==
  ASSUME TypeOK, NEW c \in Connections, TimerFires(c)
  PROVE  TypeOK'
BY LeaveTypes, LeftByTypes DEF TimerFires, TypeOK, userVars

LEMMA ConnectKeeps ==
  ASSUME IInv, NEW c \in Connections, Connect(c)
  PROVE  IInv'
<1> USE DEF IInv, connVars, dockVars, roomVars, userVars, Ids
<1>1. TypeOK'
  BY RequestTypes DEF Request
<1>2. DockAgreesWithPortal'
  BY DEF DockAgreesWithPortal, DockKnowsConnection, LoginUnderWay, TypeOK, Docked, Connect
<1>3. DockKnowsConnection'
  BY DEF DockKnowsConnection, Connect
<1>4. LoginUnderWay'
  BY DEF LoginUnderWay, Connect
<1>5. SessionAgrees'
  BY DEF SessionAgrees, Docked, Connect
<1>6. TimerAgrees'
  BY DEF TimerAgrees, Docked, Connect
<1> QED
  BY <1>1, <1>2, <1>3, <1>4, <1>5, <1>6

LEMMA LoginKeeps ==
  ASSUME IInv, NEW c \in Connections, NEW reconnEnabled \in BOOLEAN, Login(c, reconnEnabled)
  PROVE  IInv'
<1> USE DEF IInv, connVars, dockVars, roomVars, userVars, Ids
<1>1. TypeOK'
  BY RequestTypes DEF Request
<1>2. DockAgreesWithPortal'
  BY DEF DockAgreesWithPortal, DockKnowsConnection, LoginUnderWay, TypeOK, Docked, Login, CanAsk
<1>3. DockKnowsConnection'
  BY DEF DockKnowsConnection, Login, CanAsk
<1>4. LoginUnderWay'
  BY DEF LoginUnderWay, TypeOK, Login
<1>5. SessionAgrees'
  BY DEF SessionAgrees, TypeOK, Docked, Login, CanAsk
<1>6. TimerAgrees'
  BY DEF TimerAgrees, Docked, Login, CanAsk
<1> QED
  BY <1>1, <1>2, <1>3, <1>4, <1>5, <1>6

LEMMA BadLoginKeeps ==
  ASSUME IInv, NEW c \in Connections, NEW reconnEnabled \in BOOLEAN, BadLogin(c, reconnEnabled)
  PROVE  IInv'
<1> USE DEF IInv, connVars, dockVars, roomVars, userVars, Ids
<1>1. TypeOK'
  BY RequestTypes DEF Request
<1>2. DockAgreesWithPortal'
  BY DEF DockAgreesWithPortal, DockKnowsConnection, LoginUnderWay, TypeOK, Docked, BadLogin, CanAsk
<1>3. DockKnowsConnection'
  BY DEF DockKnowsConnection, BadLogin, CanAsk
<1>4. LoginUnderWay'
  BY DEF LoginUnderWay, BadLogin
<1>5. SessionAgrees'
  BY DEF SessionAgrees, Docked, BadLogin, CanAsk
<1>6. TimerAgrees'
  BY DEF TimerAgrees, Docked, BadLogin, CanAsk
<1> QED
  BY <1>1, <1>2, <1>3, <1>4, <1>5, <1>6

LEMMA ReloginKeeps ==
  ASSUME IInv, NEW c \in Connections, NEW id \in Ids, Relogin(c, id)
  PROVE  IInv'
<1> USE DEF IInv, connVars, dockVars, roomVars, userVars, Ids
<1>1. TypeOK'
  BY RequestTypes DEF Request
<1>2. DockAgreesWithPortal'
  BY ConnectionAssumption DEF DockAgreesWithPortal, Relogin
<1>3. DockKnowsConnection'
  BY DEF DockKnowsConnection, TypeOK, Relogin, CanAsk, ConnectionInfoId
<1>4. LoginUnderWay'
  BY DEF LoginUnderWay, Relogin, CanAsk, Waits
<1>5. SessionAgrees'
  BY ConnectionAssumption DEF DockKnowsConnection, SessionAgrees, TypeOK, Docked, Relogin,
     CanAsk, ConnectionInfoId, EndedBy
<1>6. TimerAgrees'
  BY DEF DockKnowsConnection, TimerAgrees, TypeOK, Docked, Relogin, EndedBy
<1> QED
  BY <1>1, <1>2, <1>3, <1>4, <1>5, <1>6

LEMMA ReloginRefusedKeeps ==
  ASSUME IInv, NEW c \in Connections, NEW id \in Ids, NEW expired \in BOOLEAN, ReloginRefused(c, id, expired)
  PROVE  IInv'
<1> USE DEF IInv, connVars, dockVars, roomVars, userVars, Ids
<1>1. TypeOK'
  BY RequestTypes DEF Request
<1>2. DockAgreesWithPortal'
  BY DEF DockAgreesWithPortal, ReloginRefused, Leave, Undocked
<1>3. DockKnowsConnection'
  BY DEF DockKnowsConnection, ReloginRefused, Leave, LeftBy, Undocked, IdAfterLeave
<1>4. LoginUnderWay'
  BY DEF LoginUnderWay, ReloginRefused, CanAsk, Leave
<1>5. SessionAgrees'
  BY DEF SessionAgrees, TypeOK, Docked, ReloginRefused, CanAsk, Leave, LeftBy, Undocked
<1>6. TimerAgrees'
  BY DEF DockKnowsConnection, TimerAgrees, TypeOK, Docked, States, ReloginRefused, CanAsk,
     Reaches, Leave, LeftBy, Undocked
<1> QED
  BY <1>1, <1>2, <1>3, <1>4, <1>5, <1>6

LEMMA LogoutKeeps ==
  ASSUME IInv, NEW c \in Connections, Logout(c)
  PROVE  IInv'
<1> USE DEF IInv, connVars, dockVars, roomVars, userVars, Ids
<1>1. TypeOK'
  BY RequestTypes DEF Request
<1>2. DockAgreesWithPortal'
  BY DEF DockAgreesWithPortal, Logout, Leave, Undocked
<1>3. DockKnowsConnection'
  BY ConnectionAssumption DEF DockKnowsConnection, Docked, Logout, Leave, LeftBy, Undocked
<1>4. LoginUnderWay'
  BY DEF DockAgreesWithPortal, LoginUnderWay, Docked, Logout, Leave, IdAfterLeave
<1>5. SessionAgrees'
  BY DEF SessionAgrees, TypeOK, Docked, Logout, Leave, LeftBy, Undocked
<1>6. TimerAgrees'
  BY ConnectionAssumption DEF TimerAgrees, TypeOK, Docked, Logout, Leave, Undocked
<1> QED
  BY <1>1, <1>2, <1>3, <1>4, <1>5, <1>6

LEMMA DisconnectKeeps ==
  ASSUME IInv, NEW c \in Connections, Disconnect(c)
  PROVE  IInv'
<1> USE DEF IInv, connVars, dockVars, roomVars, userVars, Ids
<1>1. TypeOK'
  BY RequestTypes DEF Request
<1>2. DockAgreesWithPortal'
  BY DEF DockAgreesWithPortal, Disconnect, Leave, Undocked
<1>3. DockKnowsConnection'
  BY DEF DockKnowsConnection, Disconnect, Leave, LeftBy, Undocked, IdAfterLeave, StateAfterLeave
<1>4. LoginUnderWay'
  BY DEF DockKnowsConnection, LoginUnderWay, Docked, Disconnect, Waits, Leave, IdAfterLeave,
     StateAfterLeave
<1>5. SessionAgrees'
  BY DEF SessionAgrees, TypeOK, Docked, Disconnect, Leave, LeftBy, Undocked
<1>6. TimerAgrees'
  BY ConnectionAssumption DEF TimerAgrees, TypeOK, Docked, Disconnect, Waits, TimerOnDisconnect,
     Leave, Undocked, StateAfterLeave
<1> QED
  BY <1>1, <1>2, <1>3, <1>4, <1>5, <1>6

LEMMA TimerFiresKeeps ==
  ASSUME IInv, NEW c \in Connections, TimerFires(c)
  PROVE  IInv'
<1> USE DEF IInv, connVars, dockVars, roomVars, userVars, Ids
<1>1. TypeOK'
  BY TimerTypes DEF TimerFires
<1>2. DockAgreesWithPortal'
  BY DEF DockAgreesWithPortal, TimerFires, Leave, Undocked
<1>3. DockKnowsConnection'
  BY DEF DockKnowsConnection, TimerFires, Leave, LeftBy, Undocked, IdAfterLeave, StateAfterLeave
<1>4. LoginUnderWay'
  BY DEF DockAgreesWithPortal, LoginUnderWay, Docked, TimerFires, Leave, IdAfterLeave,
     StateAfterLeave
<1>5. SessionAgrees'
  BY DEF SessionAgrees, TimerAgrees, TypeOK, Docked, TimerFires, Leave, LeftBy, Undocked
<1>6. TimerAgrees'
  BY ConnectionAssumption DEF TimerAgrees, TypeOK, Docked, TimerFires, Leave, Undocked, IdAfterLeave
<1> QED
  BY <1>1, <1>2, <1>3, <1>4, <1>5, <1>6

LEMMA ControllerFoundKeeps ==
  ASSUME IInv, NEW c \in Connections, ControllerFound(c)
  PROVE  IInv'
<1> USE DEF IInv, connVars, dockVars, roomVars, userVars, Ids
<1>1. TypeOK'
  BY AnswerTypes DEF Answer
<1>2. DockAgreesWithPortal'
  BY DEF DockAgreesWithPortal, DockKnowsConnection, LoginUnderWay, TypeOK, Docked, ControllerFound
<1>3. DockKnowsConnection'
  BY DEF DockKnowsConnection, ControllerFound
<1>4. LoginUnderWay'
  BY DEF LoginUnderWay, ControllerFound
<1>5. SessionAgrees'
  BY DEF SessionAgrees, Docked, ControllerFound
<1>6. TimerAgrees'
  BY DEF TimerAgrees, Docked, ControllerFound
<1> QED
  BY <1>1, <1>2, <1>3, <1>4, <1>5, <1>6

LEMMA ControllerFailedKeeps ==
  ASSUME IInv, NEW c \in Connections, ControllerFailed(c)
  PROVE  IInv'
<1> USE DEF IInv, connVars, dockVars, roomVars, userVars, Ids
<1>1. TypeOK'
  BY AnswerTypes DEF Answer
<1>2. DockAgreesWithPortal'
  BY DEF DockAgreesWithPortal, ControllerFailed
<1>3. DockKnowsConnection'
  BY ConnectionAssumption DEF DockAgreesWithPortal, DockKnowsConnection, LoginUnderWay,
     ControllerFailed, LoginFails
<1>4. LoginUnderWay'
  BY DEF LoginUnderWay, TypeOK, ControllerFailed, LoginFails
<1>5. SessionAgrees'
  BY DEF SessionAgrees, TypeOK, Docked, ControllerFailed, LoginFails
<1>6. TimerAgrees'
  BY DEF TimerAgrees, Docked, ControllerFailed, LoginFails
<1> QED
  BY <1>1, <1>2, <1>3, <1>4, <1>5, <1>6

LEMMA JoinAnsweredKeeps ==
  ASSUME IInv, NEW c \in Connections, JoinAnswered(c)
  PROVE  IInv'
<1> USE DEF Ids
<1>1. TypeOK'
  BY AnswerTypes DEF Answer, IInv
<1>2. client_id[c] = c /\ c \notin participants /\ login[c] = "joined"
  BY DEF IInv, JoinAnswered, LoginUnderWay
<1>3. clients[c] = NoConnection
  BY <1>2 DEF IInv, DockAgreesWithPortal
<1>4. CASE StillConnecting(c)
  <2>1. /\ login' = [login EXCEPT ![c] = "none"]
        /\ participants' = participants \cup {c}
        /\ state' = [state EXCEPT ![c] = "connected"]
        /\ clients' = [clients EXCEPT ![c] = c]
        /\ session' = [session EXCEPT ![c] = IF @ = "asked" THEN "in" ELSE @]
        /\ UNCHANGED <<socket, client_id, enabled, timer>>
    BY <1>2, <1>4 DEF JoinAnswered
  <2>2. state[c] = "connecting"
    BY <1>4 DEF StillConnecting
  <2>3. DockAgreesWithPortal'
    BY <1>2, <1>3, <2>1, <2>2, ConnectionAssumption DEF IInv, DockAgreesWithPortal, TypeOK
  <2>4. DockKnowsConnection'
    BY <1>2, <1>3, <2>1, <2>2 DEF IInv, DockKnowsConnection, TypeOK
  <2>5. LoginUnderWay'
    BY <1>2, <1>3, <2>1, <2>2 DEF IInv, LoginUnderWay, TypeOK
  <2>6. SessionAgrees'
    BY <1>2, <1>3, <2>1, <2>2, ConnectionAssumption DEF IInv, SessionAgrees, TypeOK, Docked
  <2>7. TimerAgrees'
    BY <1>2, <1>3, <2>1, <2>2 DEF IInv, TimerAgrees, Docked
  <2> QED
    BY <1>1, <2>3, <2>4, <2>5, <2>6, <2>7 DEF IInv
<1>5. CASE ~StillConnecting(c)
  <2>1. /\ login' = [login EXCEPT ![c] = "none"]
        /\ state' = [state EXCEPT ![c] = "initialized"]
        /\ socket' = [socket EXCEPT ![c] = "closed"]
        /\ session' = [session EXCEPT ![c] = "out"]
        /\ UNCHANGED <<client_id, enabled, timer, participants, clients>>
    BY <1>5 DEF JoinAnswered, LoginFails, dockVars
  <2>2. DockAgreesWithPortal'
    BY <1>2, <1>3, <2>1 DEF IInv, DockAgreesWithPortal
  <2>3. DockKnowsConnection'
    BY <1>2, <1>3, <2>1 DEF IInv, DockKnowsConnection
  <2>4. LoginUnderWay'
    BY <1>2, <1>3, <2>1 DEF IInv, LoginUnderWay, TypeOK
  <2>5. SessionAgrees'
    BY <1>2, <1>3, <2>1 DEF IInv, SessionAgrees, TypeOK, Docked
  <2>6. TimerAgrees'
    BY <1>2, <1>3, <2>1 DEF IInv, TimerAgrees, Docked
  <2> QED
    BY <1>1, <2>2, <2>3, <2>4, <2>5, <2>6 DEF IInv
<1> QED
  BY <1>4, <1>5

LEMMA JoinFailedKeeps ==
  ASSUME IInv, NEW c \in Connections, JoinFailed(c)
  PROVE  IInv'
<1> USE DEF IInv, connVars, dockVars, roomVars, userVars, Ids
<1>1. TypeOK'
  BY AnswerTypes DEF Answer
<1>2. DockAgreesWithPortal'
  BY DEF DockAgreesWithPortal, DockKnowsConnection, LoginUnderWay, TypeOK, Docked, JoinFailed,
     LoginFails
<1>3. DockKnowsConnection'
  BY ConnectionAssumption DEF DockAgreesWithPortal, DockKnowsConnection, LoginUnderWay,
     JoinFailed, LoginFails
<1>4. LoginUnderWay'
  BY DEF LoginUnderWay, TypeOK, JoinFailed, LoginFails
<1>5. SessionAgrees'
  BY DEF SessionAgrees, TypeOK, Docked, JoinFailed, LoginFails
<1>6. TimerAgrees'
  BY DEF TimerAgrees, Docked, JoinFailed, LoginFails
<1> QED
  BY <1>1, <1>2, <1>3, <1>4, <1>5, <1>6

LEMMA JoinLateKeeps ==
  ASSUME IInv, NEW c \in Connections, JoinLate(c)
  PROVE  IInv'
<1> USE DEF IInv, connVars, dockVars, roomVars, userVars, Ids
<1>1. TypeOK'
  BY AnswerTypes DEF Answer
<1>2. DockAgreesWithPortal'
  BY DEF DockAgreesWithPortal, DockKnowsConnection, LoginUnderWay, TypeOK, Docked, JoinLate,
     LoginFails
<1>3. DockKnowsConnection'
  BY ConnectionAssumption DEF DockAgreesWithPortal, DockKnowsConnection, LoginUnderWay,
     JoinLate, LoginFails
<1>4. LoginUnderWay'
  BY DEF LoginUnderWay, TypeOK, JoinLate, LoginFails
<1>5. SessionAgrees'
  BY DEF SessionAgrees, TypeOK, Docked, JoinLate, LoginFails
<1>6. TimerAgrees'
  BY DEF TimerAgrees, Docked, JoinLate, LoginFails
<1> QED
  BY <1>1, <1>2, <1>3, <1>4, <1>5, <1>6

LEMMA ConferenceKeeps ==
  ASSUME IInv, Conference
  PROVE  IInv'
<1> USE DEF IInv, connVars, dockVars, roomVars, userVars, Ids
<1>1. TypeOK'
  BY ConferenceTypes
<1>2. DockAgreesWithPortal'
  BY DEF DockAgreesWithPortal, Conference, JoinHandled, JoinRefused, LeaveHandled, LeaveLost,
     ConferenceDrops
<1>3. DockKnowsConnection'
  BY DEF DockKnowsConnection, Conference, JoinHandled, JoinRefused, LeaveHandled, LeaveLost,
     ConferenceDrops
<1>4. LoginUnderWay'
  BY DEF LoginUnderWay, TypeOK, Conference, JoinHandled, JoinRefused, JoinResult, LeaveHandled,
     LeaveLost, ConferenceDrops
<1>5. SessionAgrees'
  BY DEF SessionAgrees, Docked, Conference, JoinHandled, JoinRefused, LeaveHandled, LeaveLost,
     ConferenceDrops
<1>6. TimerAgrees'
  BY DEF TimerAgrees, Docked, Conference, JoinHandled, JoinRefused, LeaveHandled, LeaveLost,
     ConferenceDrops
<1> QED
  BY <1>1, <1>2, <1>3, <1>4, <1>5, <1>6

LEMMA DropClientsKeeps ==
  ASSUME IInv, NEW ids \in SUBSET Ids, \A id \in ids : clients[id] # NoConnection,
         DropClients(ids), UNCHANGED login
  PROVE  /\ DockAgreesWithPortal' /\ DockKnowsConnection'
         /\ LoginUnderWay' /\ SessionAgrees' /\ TimerAgrees'
<1> USE DEF IInv, Ids
<1>2. DockAgreesWithPortal'
  BY DEF DockAgreesWithPortal, DropClients, Leave, Undocked
<1>3. DockKnowsConnection'
  BY DEF DockKnowsConnection, TypeOK, DropClients, Leave, Undocked
<1>4. LoginUnderWay'
  BY DEF DockAgreesWithPortal, DockKnowsConnection, LoginUnderWay, DropClients, Leave
<1>5. SessionAgrees'
  BY DEF SessionAgrees, TypeOK, Docked, DropClients, Leave, Undocked
<1>6. TimerAgrees'
  BY ConnectionAssumption DEF TimerAgrees, TypeOK, Docked, DropClients, Leave, Undocked
<1> QED
  BY <1>2, <1>3, <1>4, <1>5, <1>6

LEMMA DropKeeps ==
  ASSUME IInv, Drop
  PROVE  IInv'
<1> USE DEF IInv, Ids
<1>1. TypeOK'
  BY DropTypes
<1>2. CASE DropAll
  BY <1>1, <1>2, DropClientsKeeps DEF DropAll
<1>3. ASSUME NEW id \in Ids, DropArrives(id) PROVE IInv'
  <2>1. CASE clients[id] # NoConnection
    BY <1>1, <1>3, <2>1, DropClientsKeeps DEF DropArrives
  <2>2. CASE clients[id] = NoConnection
    <3>1. UNCHANGED <<socket, state, client_id, enabled, timer, login, clients, participants, session>>
      BY <1>3, <2>2 DEF DropArrives, connVars, dockVars
    <3> QED
      BY <1>1, <3>1 DEF DockAgreesWithPortal, DockKnowsConnection, LoginUnderWay,
                        SessionAgrees, TimerAgrees, Docked
  <2> QED
    BY <2>1, <2>2
<1> QED
  BY <1>2, <1>3 DEF Drop

LEMMA InitIInv == Init => IInv
BY ConnectionAssumption DEF Init, IInv, TypeOK, States, Ids, DockAgreesWithPortal,
   DockKnowsConnection, LoginUnderWay, SessionAgrees, TimerAgrees, Docked

LEMMA StepIInv == IInv /\ [Next]_vars => IInv'
<1> SUFFICES ASSUME IInv, [Next]_vars PROVE IInv'
  OBVIOUS
<1>1. CASE Request
  BY <1>1, ConnectKeeps, LogoutKeeps, DisconnectKeeps, LoginKeeps, BadLoginKeeps,
     ReloginKeeps, ReloginRefusedKeeps DEF Request
<1>2. CASE Answer
  BY <1>2, ControllerFoundKeeps, ControllerFailedKeeps, JoinAnsweredKeeps, JoinFailedKeeps,
     JoinLateKeeps DEF Answer
<1>3. CASE Conference
  BY <1>3, ConferenceKeeps
<1>4. CASE Drop
  BY <1>4, DropKeeps
<1>5. ASSUME NEW c \in Connections, TimerFires(c) PROVE IInv'
  BY <1>5, TimerFiresKeeps
<1>6. CASE UNCHANGED vars
  BY <1>6 DEF vars, connVars, dockVars, roomVars, userVars, IInv, TypeOK,
     DockAgreesWithPortal, DockKnowsConnection, LoginUnderWay, SessionAgrees, TimerAgrees, Docked
<1> QED
  BY <1>1, <1>2, <1>3, <1>4, <1>5, <1>6 DEF Next

LEMMA IInvAlways == Spec => []IInv
BY InitIInv, StepIInv, PTL DEF Spec

-----------------------------------------------------------------------------
(* The calls on their way to the conference                                 *)

OnlyLeaves(q) == \A i \in 1..Len(q) : q[i] = "leave"

\* A sequence of leaves with one join at its end.
JoinLast(q) ==
  /\ q # <<>> /\ q[Len(q)] = "join"
  /\ \A i \in 1..Len(q) : i < Len(q) => q[i] = "leave"

Calls == Seq({"join", "leave"})

LEMMA AppendedCalls ==
  ASSUME NEW q \in Calls, OnlyLeaves(q)
  PROVE  OnlyLeaves(Append(q, "leave")) /\ JoinLast(Append(q, "join"))
<1>1. Len(q) \in Nat
  BY LenProperties DEF Calls
<1>2. ASSUME NEW call \in {"join", "leave"}
      PROVE  /\ Append(q, call) # <<>> /\ Len(Append(q, call)) = Len(q) + 1
             /\ Append(q, call)[Len(q) + 1] = call
             /\ \A i \in 1..Len(q) : Append(q, call)[i] = q[i]
  <2>1. Append(q, call) # <<>>
    BY <1>2, AppendProperties, Zenon DEF Calls
  <2>2. Len(Append(q, call)) = Len(q) + 1
    BY <1>2 DEF Calls
  <2>3. Append(q, call)[Len(q) + 1] = call
    BY <1>1, <1>2 DEF Calls
  <2>4. \A i \in 1..Len(q) : Append(q, call)[i] = q[i]
    BY <1>1, <1>2 DEF Calls
  <2> QED
    BY <2>1, <2>2, <2>3, <2>4
<1>3. OnlyLeaves(Append(q, "leave"))
  BY <1>1, <1>2 DEF OnlyLeaves
<1>4. JoinLast(Append(q, "join"))
  BY <1>1, <1>2 DEF OnlyLeaves, JoinLast
<1> QED
  BY <1>3, <1>4

LEMMA TakenLeave ==
  ASSUME NEW q \in Calls, q # <<>>, Head(q) = "leave"
  PROVE  /\ OnlyLeaves(q) => OnlyLeaves(Tail(q))
         /\ JoinLast(q) => JoinLast(Tail(q))
<1> DEFINE t == Tail(q)
<1>1. Len(q) \in Nat \ {0}
  BY EmptySeq DEF Calls
<1>2. /\ t \in Calls /\ Len(t) = Len(q) - 1
      /\ \A i \in 1..Len(t) : t[i] = q[i + 1]
  BY HeadTailProperties DEF Calls
<1>3. Head(q) = q[1]
  OBVIOUS
<1>4. OnlyLeaves(q) => OnlyLeaves(t)
  BY <1>1, <1>2 DEF OnlyLeaves
<1>5. ASSUME JoinLast(q) PROVE JoinLast(t)
  <2>1. Len(q) # 1
    BY <1>3, <1>5 DEF JoinLast
  <2>2. Len(t) \in Nat \ {0} /\ t # <<>>
    BY <1>1, <1>2, <2>1, EmptySeq
  <2>3. t[Len(t)] = q[Len(q)]
    BY <1>1, <1>2, <2>2
  <2>4. \A i \in 1..Len(t) : i < Len(t) => t[i] = "leave"
    BY <1>1, <1>2, <1>5 DEF JoinLast
  <2> QED
    BY <1>5, <2>2, <2>3, <2>4 DEF JoinLast
<1> QED
  BY <1>4, <1>5

LEMMA TakenJoin ==
  ASSUME NEW q \in Calls, q # <<>>, Head(q) = "join"
  PROVE  ~OnlyLeaves(q) /\ (JoinLast(q) => Tail(q) = <<>>)
<1>1. Len(q) \in Nat \ {0}
  BY EmptySeq DEF Calls
<1>2. Head(q) = q[1]
  OBVIOUS
<1>3. ~OnlyLeaves(q)
  BY <1>1, <1>2 DEF OnlyLeaves
<1>4. ASSUME JoinLast(q) PROVE Tail(q) = <<>>
  <2>1. Len(q) = 1
    <3>1. 1 \in 1..Len(q) /\ q[1] = "join"
      BY <1>1, <1>2
    <3>2. ~(1 < Len(q))
      BY <1>4, <3>1 DEF JoinLast
    <3> HIDE DEF Calls
    <3> DEFINE n == Len(q)
    <3>3. n \in Nat \ {0} /\ ~(1 < n)
      BY <1>1, <3>2
    <3> HIDE DEF n
    <3>4. n = 1
      BY <3>3
    <3> QED
      BY <3>4 DEF n
  <2>2. Tail(q) \in Calls /\ Len(Tail(q)) = 0
    BY <2>1, HeadTailProperties DEF Calls
  <2> QED
    BY <2>2, EmptySeq DEF Calls
<1> QED
  BY <1>3, <1>4

\* Nothing is on its way for who is in the dock or about to be; the join of a login follows
\* the leaves of earlier stays; and where a login may still begin there are leaves only.
CallsInOrder ==
  \A id \in Ids :
    /\ clients[id] # NoConnection \/ login[id] = "joined" =>
         calls[id] = <<>> /\ id \in members \cup drops
    /\ login[id] = "joining" => JoinLast(calls[id])
    /\ login[id] = "scheduling" => OnlyLeaves(calls[id])
    /\ login[id] = "none" /\ socket[id] # "closed" => OnlyLeaves(calls[id])

LEMMA LeaveOfDocked ==
  ASSUME IInv, CallsInOrder, NEW ids \in SUBSET Ids, Leave(ids)
  PROVE  \A id \in Ids :
           /\ clients'[id] # NoConnection =>
                clients[id] # NoConnection /\ calls'[id] = calls[id]
           /\ login[id] # "none" => calls'[id] = calls[id]
           /\ OnlyLeaves(calls[id]) => OnlyLeaves(calls'[id])
           /\ clients[id] = NoConnection => calls'[id] = calls[id]
           /\ clients[id] # NoConnection => OnlyLeaves(calls'[id])
<1> SUFFICES ASSUME NEW id \in Ids
    PROVE /\ clients'[id] # NoConnection =>
                clients[id] # NoConnection /\ calls'[id] = calls[id]
          /\ login[id] # "none" => calls'[id] = calls[id]
          /\ OnlyLeaves(calls[id]) => OnlyLeaves(calls'[id])
          /\ clients[id] = NoConnection => calls'[id] = calls[id]
          /\ clients[id] # NoConnection => OnlyLeaves(calls'[id])
  OBVIOUS
<1>1. id \in participants <=> clients[id] # NoConnection
  BY DEF IInv, DockAgreesWithPortal
<1>2. login[id] # "none" => id \notin participants
  BY DEF IInv, LoginUnderWay, Ids
<1>3. calls[id] \in Calls
  BY DEF IInv, TypeOK, Calls
<1>4. clients[id] # NoConnection => OnlyLeaves(calls[id])
  BY EmptySeq DEF CallsInOrder, OnlyLeaves
<1>5. CASE id \in ids \cap participants
  <2>1. clients'[id] = NoConnection /\ calls'[id] = Append(calls[id], "leave")
    BY <1>5 DEF Leave, Undocked, LeavesSent, CallSent
  <2>2. OnlyLeaves(calls'[id])
    BY <1>1, <1>3, <1>4, <1>5, <2>1, AppendedCalls
  <2> QED
    BY <1>1, <1>2, <1>5, <2>1, <2>2
<1>6. CASE id \notin ids \cap participants
  <2>1. calls'[id] = calls[id] /\ (clients'[id] # NoConnection => clients[id] # NoConnection)
    BY <1>6 DEF Leave, Undocked, LeavesSent
  <2> QED
    BY <1>4, <2>1
<1> QED
  BY <1>5, <1>6

\* Every request but a login leaves the calls to Leave, or leaves them alone.
LEMMA RequestKeepsOrder ==
  ASSUME IInv, CallsInOrder, Request
  PROVE  CallsInOrder'
<1> USE DEF Ids
<1>1. ASSUME NEW c \in Connections, Connect(c) PROVE CallsInOrder'
  BY <1>1 DEF Connect, CallsInOrder, dockVars, roomVars, IInv, TypeOK
<1>2. ASSUME NEW c \in Connections, Logout(c) PROVE CallsInOrder'
  <2>1. LeftBy(c) \in SUBSET Ids /\ Leave(LeftBy(c))
    BY <1>2, LeftByTypes DEF Logout, IInv
  <2> QED
    BY <1>2, <2>1, LeaveOfDocked DEF Logout, CallsInOrder
<1>3. ASSUME NEW c \in Connections, Disconnect(c) PROVE CallsInOrder'
  <2> DEFINE left == IF ~Waits(c) /\ state[c] \in {"connecting", "connected"} THEN LeftBy(c) ELSE {}
  <2>1. left \in SUBSET Ids /\ Leave(left)
    BY <1>3, LeftByTypes DEF Disconnect, IInv
  <2>2. /\ socket' = [socket EXCEPT ![c] = "closed"]
        /\ UNCHANGED <<login, members, drops>>
    BY <1>3 DEF Disconnect
  <2> HIDE DEF left
  <2> QED
    BY <2>1, <2>2, LeaveOfDocked DEF CallsInOrder, IInv, TypeOK
<1>4. ASSUME NEW c \in Connections, NEW reconnEnabled \in BOOLEAN, Login(c, reconnEnabled)
      PROVE CallsInOrder'
  BY <1>4 DEF Login, CanAsk, CallsInOrder, dockVars, roomVars, IInv, TypeOK
<1>5. ASSUME NEW c \in Connections, NEW reconnEnabled \in BOOLEAN, BadLogin(c, reconnEnabled)
      PROVE CallsInOrder'
  BY <1>5 DEF BadLogin, CanAsk, CallsInOrder, dockVars, roomVars, IInv, TypeOK
<1>6. ASSUME NEW c \in Connections, NEW id \in Ids, Relogin(c, id) PROVE CallsInOrder'
  BY <1>6 DEF Relogin, EndedBy, CanAsk, CallsInOrder, roomVars, IInv, TypeOK
<1>7. ASSUME NEW c \in Connections, NEW id \in Ids, NEW expired \in BOOLEAN,
             ReloginRefused(c, id, expired)
      PROVE CallsInOrder'
  <2>1. LeftBy(c) \in SUBSET Ids /\ Leave(LeftBy(c))
    BY <1>7, LeftByTypes DEF ReloginRefused, IInv
  <2>2. /\ socket' = [socket EXCEPT ![c] = "closed"]
        /\ UNCHANGED <<login, members, drops>>
    BY <1>7 DEF ReloginRefused
  <2> QED
    BY <2>1, <2>2, LeaveOfDocked DEF CallsInOrder, IInv, TypeOK
<1> QED
  BY <1>1, <1>2, <1>3, <1>4, <1>5, <1>6, <1>7 DEF Request

LEMMA AnswerKeepsOrder ==
  ASSUME IInv, CallsInOrder, Answer
  PROVE  CallsInOrder'
<1> USE DEF Ids
<1>1. ASSUME NEW c \in Connections, ControllerFound(c) PROVE CallsInOrder'
  <2>1. JoinLast(Append(calls[c], "join"))
    BY <1>1, AppendedCalls DEF ControllerFound, CallsInOrder, IInv, TypeOK, Calls
  <2> QED
    BY <1>1, <2>1 DEF ControllerFound, CallSent, CallsInOrder, connVars, dockVars, IInv, TypeOK,
                      DockAgreesWithPortal, LoginUnderWay
<1>2. ASSUME NEW c \in Connections, LoginFails(c), clients' = clients, calls' = calls,
             members' = members, drops' = drops
      PROVE CallsInOrder'
  BY <1>2 DEF LoginFails, CallsInOrder, IInv, TypeOK
<1>3. ASSUME NEW c \in Connections, JoinAnswered(c) PROVE CallsInOrder'
  <2>1. login[c] = "joined" /\ client_id[c] = c /\ calls[c] = <<>> /\ clients[c] = NoConnection
    BY <1>3 DEF JoinAnswered, CallsInOrder, IInv, LoginUnderWay, DockAgreesWithPortal
  <2>2. CASE StillConnecting(c)
    <3>1. /\ login' = [login EXCEPT ![c] = "none"]
          /\ clients' = [clients EXCEPT ![c] = c]
          /\ UNCHANGED <<socket, calls, members, drops>>
      BY <1>3, <2>1, <2>2 DEF JoinAnswered
    <3>2. OnlyLeaves(calls[c])
      BY <2>1, EmptySeq DEF OnlyLeaves
    <3> QED
      BY <2>1, <3>1, <3>2 DEF CallsInOrder, IInv, TypeOK
  <2>3. CASE ~StillConnecting(c)
    <3>1. /\ login' = [login EXCEPT ![c] = "none"]
          /\ socket' = [socket EXCEPT ![c] = "closed"]
          /\ calls' = [calls EXCEPT ![c] = CallSent(c, "leave")]
          /\ UNCHANGED <<clients, members, drops>>
      BY <1>3, <2>3 DEF JoinAnswered, LoginFails, dockVars
    <3> QED
      BY <2>1, <3>1 DEF CallsInOrder, IInv, TypeOK
  <2> QED
    BY <2>2, <2>3
<1> QED
  BY <1>1, <1>2, <1>3 DEF Answer, ControllerFailed, JoinFailed, JoinLate, dockVars, roomVars

LEMMA ConferenceKeepsOrder ==
  ASSUME IInv, CallsInOrder, Conference
  PROVE  CallsInOrder'
<1> USE DEF Ids
<1>1. ASSUME NEW id \in Ids PROVE calls[id] \in Calls
  BY <1>1 DEF IInv, TypeOK, Calls
<1>2. ASSUME NEW id \in Ids, JoinHandled(id) \/ JoinRefused(id) PROVE CallsInOrder'
  <2>1. /\ calls[id] # <<>> /\ ~OnlyLeaves(calls[id])
        /\ JoinLast(calls[id]) => Tail(calls[id]) = <<>>
    BY <1>1, <1>2, TakenJoin DEF JoinHandled, JoinRefused, NextCall
  <2>2. /\ calls' = [calls EXCEPT ![id] = Tail(@)]
        /\ members \subseteq members' /\ UNCHANGED <<socket, clients, drops>>
        /\ \A d \in Ids : d # id => login'[d] = login[d]
        /\ login[id] # "joining" => login'[id] = login[id]
        /\ login[id] = "joining" => \/ login'[id] = "joined" /\ id \in members'
                                   \/ login'[id] = "refused"
    BY <1>2 DEF JoinHandled, JoinRefused, CallTaken, JoinResult, connVars, dockVars, IInv, TypeOK
  <2>3. login[id] \notin {"joined", "scheduling"} /\ clients[id] = NoConnection
        /\ (login[id] = "none" => socket[id] = "closed")
    BY <2>1 DEF CallsInOrder
  <2> QED
    BY <2>1, <2>2, <2>3 DEF CallsInOrder, IInv, TypeOK
<1>3. ASSUME NEW id \in Ids, LeaveHandled(id) \/ LeaveLost(id) PROVE CallsInOrder'
  <2>1. /\ calls[id] # <<>>
        /\ OnlyLeaves(calls[id]) => OnlyLeaves(Tail(calls[id]))
        /\ JoinLast(calls[id]) => JoinLast(Tail(calls[id]))
    BY <1>1, <1>3, TakenLeave DEF LeaveHandled, LeaveLost, NextCall
  <2>2. /\ calls' = [calls EXCEPT ![id] = Tail(@)]
        /\ members \ {id} \subseteq members' /\ UNCHANGED <<socket, clients, drops, login>>
    BY <1>3 DEF LeaveHandled, LeaveLost, CallTaken, connVars, dockVars
  <2> QED
    BY <2>1, <2>2 DEF CallsInOrder, IInv, TypeOK
<1>4. ASSUME NEW id \in Ids, ConferenceDrops(id) PROVE CallsInOrder'
  BY <1>4 DEF ConferenceDrops, CallsInOrder, connVars, dockVars
<1> QED
  BY <1>2, <1>3, <1>4 DEF Conference

LEMMA DropKeepsOrder ==
  ASSUME IInv, CallsInOrder, Drop
  PROVE  CallsInOrder'
<1> USE DEF Ids
<1>1. ASSUME NEW ids \in SUBSET Ids, DropClients(ids), UNCHANGED <<login, members>>,
             \A id \in Ids : id \in drops /\ id \notin drops' =>
               login[id] # "joined" /\ (clients[id] # NoConnection => id \in ids)
      PROVE  CallsInOrder'
  <2>1. Leave(ids)
    BY <1>1 DEF DropClients
  <2>2. \A id \in Ids : id \in ids => clients'[id] = NoConnection
    BY <2>1 DEF Leave, Undocked
  <2>3. \A c \in Connections : socket'[c] # "closed" => socket[c] # "closed"
    BY <1>1 DEF DropClients
  <2> QED
    BY <1>1, <2>1, <2>2, <2>3, LeaveOfDocked DEF CallsInOrder
<1>2. CASE DropAll
  BY <1>1, <1>2 DEF DropAll
<1>3. ASSUME NEW id \in Ids, DropArrives(id) PROVE CallsInOrder'
  <2>1. CASE clients[id] # NoConnection
    BY <1>1, <1>3, <2>1 DEF DropArrives
  <2>2. CASE clients[id] = NoConnection
    BY <1>3, <2>2 DEF DropArrives, CallsInOrder, connVars, dockVars
  <2> QED
    BY <2>1, <2>2
<1> QED
  BY <1>2, <1>3 DEF Drop

LEMMA TimerKeepsOrder ==
  ASSUME IInv, CallsInOrder, NEW c \in Connections, TimerFires(c)
  PROVE  CallsInOrder'
<1>1. LeftBy(c) \in SUBSET Ids /\ Leave(LeftBy(c))
  BY LeftByTypes DEF TimerFires, IInv
<1>2. UNCHANGED <<socket, login, members, drops>>
  BY DEF TimerFires
<1> QED
  BY <1>1, <1>2, LeaveOfDocked DEF CallsInOrder

LEMMA InitOrder == Init => CallsInOrder
<1> SUFFICES ASSUME Init PROVE CallsInOrder
  OBVIOUS
<1>1. OnlyLeaves(<<>>)
  BY EmptySeq DEF OnlyLeaves
<1> QED
  BY <1>1 DEF Init, CallsInOrder, Ids

LEMMA StepOrder == IInv /\ CallsInOrder /\ [Next]_vars => CallsInOrder'
<1> SUFFICES ASSUME IInv, CallsInOrder, [Next]_vars PROVE CallsInOrder'
  OBVIOUS
<1>1. CASE UNCHANGED vars
  BY <1>1 DEF vars, connVars, dockVars, roomVars, CallsInOrder
<1> QED
  BY <1>1, RequestKeepsOrder, AnswerKeepsOrder, ConferenceKeepsOrder, DropKeepsOrder,
     TimerKeepsOrder DEF Next

LEMMA CallsInOrderAlways == Spec => []CallsInOrder
BY IInvAlways, InitOrder, StepOrder, PTL DEF Spec

-----------------------------------------------------------------------------
(* The theorems                                                             *)

\* Every variable keeps its type.  A relogin and the answer to a login put client_id in a
\* ticket and in the dock: that it is an id then is part of the invariant.
THEOREM PortalTypeCorrect == Spec => []TypeOK
BY IInvAlways, PTL DEF IInv

\* The dock of socketIOServer.js and the participants of portal.js always name the same ids.
THEOREM DockAndPortalAgree == Spec => []DockAgreesWithPortal
BY IInvAlways, PTL DEF IInv

\* As long as its socket is open, a client and the portal agree on whether it is in.
THEOREM ClientsAreServed == Spec => []ServedWhileIn
<1>1. IInv => ServedWhileIn
  <2> SUFFICES ASSUME IInv, NEW c \in Connections, socket[c] = "open"
               PROVE  /\ session[c] = "in" => state[c] = "connected" /\ client_id[c] \in participants
                      /\ session[c] = "in" <=> \E id \in Ids : clients[id] = c
    BY DEF ServedWhileIn
  <2>1. ASSUME session[c] = "in"
        PROVE  /\ state[c] = "connected" /\ client_id[c] \in participants
               /\ \E id \in Ids : clients[id] = c
    <3>1. state[c] = "connected" /\ Docked(c)
      BY <2>1 DEF IInv, SessionAgrees
    <3>2. client_id[c] \in Ids /\ clients[client_id[c]] = c
      BY <3>1 DEF IInv, TypeOK, Docked
    <3>3. client_id[c] \in participants
      BY <3>2, ConnectionAssumption DEF IInv, DockAgreesWithPortal
    <3> QED
      BY <3>1, <3>2, <3>3
  <2>2. ASSUME NEW id \in Ids, clients[id] = c PROVE session[c] = "in"
    <3>1. state[c] \in {"connected", "waiting_for_reconnecting"}
      BY <2>2, ConnectionAssumption DEF IInv, DockKnowsConnection
    <3> QED
      BY <3>1 DEF IInv, SessionAgrees
  <2> QED
    BY <2>1, <2>2
<1> QED
  BY <1>1, IInvAlways, PTL

\* A client that is waited for has its timer running.
THEOREM WaitingHasTimer == Spec => []WaitingIsTimed
<1>1. IInv => WaitingIsTimed
  BY DEF IInv, TimerAgrees, WaitingIsTimed
<1> QED
  BY <1>1, IInvAlways, PTL

\* No two live connections speak for one participant.
THEOREM OneVoiceOnly == Spec => []OneVoice
<1>1. IInv => OneVoice
  BY DEF IInv, SessionAgrees, OneVoice, Docked
<1> QED
  BY <1>1, IInvAlways, PTL

\* Who is in the dock is in the conference, or its drop is on the way.
THEOREM DockedInConference == Spec => []DockedIsMember
<1>1. CallsInOrder => DockedIsMember
  BY DEF CallsInOrder, DockedIsMember
<1> QED
  BY <1>1, CallsInOrderAlways, PTL
=============================================================================
