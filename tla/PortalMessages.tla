--------------------------- MODULE PortalMessages ---------------------------
(***************************************************************************)
(* The notifications of one participant on their way through the portal     *)
(* (source/portal/socketIOServer.js): sendMessage numbers them and keeps    *)
(* them in a buffer, a broken connection makes them pending, and a relogin  *)
(* moves both to a new connection.  The client is modelled from the design  *)
(* of the relogin message, doc/design/relogin-message.md.                   *)
(*                                                                          *)
(* Only the connection that has the client matters: a relogin hands its     *)
(* variables over to the next one in one macrotask (see PortalConnections). *)
(***************************************************************************)
EXTENDS Naturals, Sequences, SequencesExt

CONSTANTS NoTime,        \* the time of a message whose time has been deleted
          messageKeepTime, \* message_keep_time
          MaxMessages,   \* bound: notifications of the conference
          MaxTime,       \* bound: seconds that pass
          MaxBreaks      \* bound: connections that break

ASSUME MessageAssumption ==
  /\ messageKeepTime \in Nat /\ NoTime \notin Nat
  /\ MaxMessages \in Nat /\ MaxTime \in Nat /\ MaxBreaks \in Nat

VARIABLES
  protocol_version, \* of the client: "1.2" replays messages, "1.1" is sent the pending ones
  state,            \* of the connection: "connected", "waiting_for_reconnecting" or "initialized"
  message_seq,      \* the number of the latest message
  message_buffer,   \* the messages kept, with their numbers and times
  pending_messages, \* the messages sent while the client is waited for
  notified,         \* the times at which the conference sent its notifications 1, 2, ...
  now,              \* process.hrtime() in seconds
  link,             \* the socket: "up", "broken" before the portal notices, or "down"
  wire,             \* what is on its way to the client
  received,         \* the notifications the client has processed, in order
  sequence,         \* the client's own sequence number
  breaks

serverVars == <<protocol_version, state, message_seq, message_buffer, pending_messages>>
clientVars == <<received, sequence>>
vars == <<serverVars, clientVars, notified, now, link, wire, breaks>>

Messages == 1..MaxMessages

\* A message on the wire: an event, or the messages in the answer to a relogin.
Event(m) == [type |-> "event", messages |-> <<m>>]
Answer(messages) == [type |-> "relogin", messages |-> messages]

TypeOK ==
  /\ protocol_version \in {"1.1", "1.2"}
  /\ state \in {"connected", "waiting_for_reconnecting", "initialized"}
  /\ message_seq \in Nat
  /\ \A i \in DOMAIN message_buffer :
       message_buffer[i] \in [data : Messages, seq : Nat, time : 0..MaxTime \cup {NoTime}]
  /\ pending_messages \in Seq(Messages)
  /\ notified \in Seq(0..MaxTime) /\ now \in 0..MaxTime /\ breaks \in 0..MaxBreaks
  /\ link \in {"up", "broken", "down"}
  /\ \A i \in DOMAIN wire : wire[i].type \in {"event", "relogin"}
  /\ received \in Seq(Messages)
  /\ sequence \in Nat

Init ==
  /\ protocol_version \in {"1.1", "1.2"}
  /\ state = "connected" /\ link = "up"
  /\ message_seq = 0 /\ message_buffer = <<>> /\ pending_messages = <<>>
  /\ notified = <<>> /\ now = 0 /\ breaks = 0
  /\ wire = <<>> /\ received = <<>> /\ sequence = 0

-----------------------------------------------------------------------------
(* Parts of sendMessage and relogin                                         *)

\* Mutant: a message goes when its time is just reached.
ExpiredEarly(entry) == entry.time # NoTime /\ now - entry.time >= messageKeepTime

\* A message that is too old.  One whose time has been deleted never is: the comparison is
\* with NaN.
Expired(entry) == entry.time # NoTime /\ now - entry.time > messageKeepTime

\* A list from its place first on, or nothing of it.
FromOn(list, first) == IF first = 0 THEN <<>> ELSE SubSeq(list, first, Len(list))

\* The buffer without the expired messages at its head.
Trimmed(buffer) == FromOn(buffer, SelectInSeq(buffer, LAMBDA entry : ~Expired(entry)))

\* The entries sendMessage makes of messages sent one after the other, now.
Entries(messages) ==
  [i \in DOMAIN messages |-> [data |-> messages[i], seq |-> message_seq + i, time |-> now]]

\* The buffer in the answer to a relogin, whose messages lose their times.
Handed == [i \in DOMAIN message_buffer |-> [message_buffer[i] EXCEPT !.time = NoTime]]

\* Mutant: only what was sent while the client was away is replayed.
ReplayedPending == IF protocol_version = "1.2"
                   THEN SelectSeq(Handed, LAMBDA entry : entry.data \in ToSet(pending_messages))
                   ELSE <<>>

\* What the answer carries: the messages kept, for a client that knows of them.
Replayed == IF protocol_version = "1.2" THEN Handed ELSE <<>>

\* Mutant: drainPendingMessages before the connection is "connected" makes them pending again.
DrainedEarly == <<>>

\* What drainPendingMessages sends, after the answer.
Drained == IF protocol_version = "1.2" THEN <<>> ELSE pending_messages

\* Mutant: pending messages are sent and kept.
PendingKept == pending_messages

\* The pending messages after a relogin.
PendingAfterRelogin == IF protocol_version = "1.2" THEN pending_messages ELSE <<>>

\* Mutant: reconnect() hands no number over.
NoMessageSeq == NoTime

\* The number reconnect() hands over.
MessageSeq == message_seq

\* The messages of an answer the client has not seen by its own count: all from the first one,
\* for their numbers ascend.
Unseen(messages) == FromOn(messages, SelectInSeq(messages, LAMBDA entry : entry.seq >= sequence))

DataOf(entries) == [i \in DOMAIN entries |-> entries[i].data]

-----------------------------------------------------------------------------
(* The portal                                                               *)

\* The conference notifies the participant: sendMessage.
SendMessage ==
  LET m == Len(notified) + 1 IN
  /\ state # "initialized" /\ m <= MaxMessages
  /\ notified' = Append(notified, now)
  /\ wire' = IF state = "connected" /\ link = "up" THEN Append(wire, Event(m)) ELSE wire
  /\ pending_messages' = IF state = "connected" THEN pending_messages ELSE Append(pending_messages, m)
  /\ message_seq' = message_seq + 1
  /\ message_buffer' = Trimmed(message_buffer \o Entries(<<m>>))
  /\ UNCHANGED <<protocol_version, state, clientVars, now, link, breaks>>

\* The portal notices that the socket has ended: 'disconnect'.
Disconnect ==
  /\ link = "broken" /\ state = "connected"
  /\ link' = "down"
  /\ state' = "waiting_for_reconnecting"
  /\ UNCHANGED <<protocol_version, message_seq, message_buffer, pending_messages, clientVars,
                 notified, now, wire, breaks>>

\* The client comes back on another socket, before or after the portal has noticed.
Relogin ==
  /\ link # "up" /\ state # "initialized"
  /\ link' = "up"
  /\ state' = "connected"
  /\ wire' = <<Answer(Replayed)>> \o [i \in DOMAIN Drained |-> Event(Drained[i])]
  /\ message_seq' = IF Drained = <<>> THEN MessageSeq ELSE MessageSeq + Len(Drained)
  /\ message_buffer' = Trimmed(Handed \o Entries(Drained))
  /\ pending_messages' = PendingAfterRelogin
  /\ UNCHANGED <<protocol_version, clientVars, notified, now, breaks>>

\* The waiting timer: the client leaves.
TimerFires ==
  /\ state = "waiting_for_reconnecting"
  /\ state' = "initialized"
  /\ UNCHANGED <<protocol_version, message_seq, message_buffer, pending_messages, clientVars,
                 notified, now, link, wire, breaks>>

-----------------------------------------------------------------------------
(* The socket, the client and time                                          *)

Break ==
  /\ link = "up" /\ breaks < MaxBreaks
  /\ breaks' = breaks + 1
  /\ link' = "broken"
  /\ wire' = <<>>
  /\ UNCHANGED <<serverVars, clientVars, notified, now>>

\* The client counts an event it receives, and takes from the answer to a relogin what it
\* has not seen.
Receive ==
  /\ wire # <<>>
  /\ wire' = Tail(wire)
  /\ LET head == Head(wire)
         unseen == Unseen(head.messages) IN
     IF head.type = "event"
     THEN received' = received \o head.messages /\ sequence' = sequence + 1
     ELSE /\ received' = received \o DataOf(unseen)
          /\ sequence' = IF unseen = <<>> THEN sequence ELSE Last(unseen).seq + 1
  /\ UNCHANGED <<serverVars, notified, now, link, breaks>>

Tick ==
  /\ now < MaxTime
  /\ now' = now + 1
  /\ UNCHANGED <<serverVars, clientVars, notified, link, wire, breaks>>

-----------------------------------------------------------------------------
Next ==
  \/ SendMessage \/ Disconnect \/ Relogin \/ TimerFires
  \/ Break \/ Receive \/ Tick

\* Pings find broken sockets, the waiting timer expires and sockets that are up deliver.
\* No client has to come back.
Fairness == WF_vars(Disconnect) /\ WF_vars(TimerFires) /\ WF_vars(Receive)

Spec == Init /\ [][Next]_vars
FairSpec == Spec /\ Fairness

-----------------------------------------------------------------------------
(* Properties                                                               *)

InBuffer(m) == \E i \in DOMAIN message_buffer : message_buffer[i].data = m

\* The client never goes back: it processes notifications in the order they were sent,
\* replayed ones (protocol 1.2) before newer events, and without the buffer (1.1) none twice.
InOrder ==
  \A i, j \in DOMAIN received : i < j =>
    /\ received[i] <= received[j]
    /\ protocol_version = "1.1" => received[i] < received[j]

\* What was sent within message_keep_time of the latest message is in the buffer.
BufferHoldsRecent ==
  \A m \in DOMAIN notified :
    notified[Len(notified)] - notified[m] <= messageKeepTime => InBuffer(m)

\* The buffer is all that protocol 1.2 promises, and 1.1 does not promise what was on a
\* broken socket.
NotKept == IF protocol_version = "1.2"
           THEN {m \in DOMAIN notified : ~InBuffer(m)} ELSE DOMAIN notified

Delivery == INSTANCE MessageDelivery
            WITH sent <- Len(notified), got <- ToSet(received), expired <- NotKept

\* Across any number of reconnections the client misses nothing that is still kept, and
\* nothing is delivered late (sendMessage, relogin).
DeliversInOrder == Delivery!Spec

\* With protocol 1.2 a notification reaches the client, or is too old to be kept when the
\* client comes back, or the client has left.
SentIsReceived ==
  \A m \in Messages :
    m \in DOMAIN notified /\ protocol_version = "1.2"
      ~> m \in ToSet(received) \/ ~InBuffer(m) \/ state = "initialized"

\* With protocol 1.1 a notification sent while the client is waited for reaches it when it
\* comes back, if its new connection lasts.
PendingIsReceived ==
  \A m \in Messages, n \in 0..MaxBreaks :
    m \in ToSet(pending_messages) /\ protocol_version = "1.1" /\ breaks = n
      ~> m \in ToSet(received) \/ state = "initialized" \/ breaks > n

\* No notification is processed twice: "filter messages with sequence number >= client
\* sequence number", both counted from 0 (doc/design/relogin-message.md).
ReceivedOnce == \A i, j \in DOMAIN received : i # j => received[i] # received[j]
=============================================================================
