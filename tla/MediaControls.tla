---------------------------- MODULE MediaControls ----------------------------
(***************************************************************************)
(* What conference.js does when a client or the management API controls     *)
(* media that is there: a stream is put into views, taken out of them or    *)
(* muted (streamControl, controlStream), and a subscription of a WebRTC     *)
(* client gets another source (subscriptionControl, controlSubscription).   *)
(* Each control is several calls to the room controller or to a node, and   *)
(* several controls may be under way.                                       *)
(*                                                                          *)
(* Mixing is asynchronous and may fail for one track of the stream only;    *)
(* unmixing is done at once.  Calls of one connection to a node are handled *)
(* and answered in order.  The layout of a view, the parameters and formats *)
(* of tracks and the muting of a subscription are left out.                 *)
(***************************************************************************)
EXTENDS Naturals, Sequences, SequencesExt

CONSTANTS
  ControlStreams, ControlViews, MixTracks, \* streams, views of the room, tracks of each stream
  Requests,                                \* bound: requests about streams
  NoView, NoSource,
  MaxSourceChanges,                             \* bound: updates of the subscription
  MaxMishaps                               \* bound: calls that fail

ASSUME ControlAssumption ==
  /\ NoView \notin ControlViews /\ NoSource \notin ControlStreams
  /\ MaxSourceChanges \in Nat /\ MaxMishaps \in Nat

VARIABLES
  here,       \* streams of the conference and of the room controller
  listed,     \* streams[s].info.inViews
  mixed,      \* what the room controller has subscribed to its mixers
  offAir,     \* tracks that are muted: to the conference, on the node; and calls that did not arrive
  onOffs,     \* calls of mediaOnOff without an answer
  request,    \* how far each request is
  member,     \* the owner of the subscription has joined
  sub,        \* its entry in subscriptions, the room's subscription, its session in rtcController
  update,     \* updateSubscription under way
  unlisted,   \* <<stream, view>> that inViews has lost
  missed,     \* what met the subscription in the middle of an update
  updates, mishaps \* counters

controlVars == <<here, listed, mixed, offAir, onOffs, request, member, sub, update, unlisted, missed,
                 updates, mishaps>>
streamVars == <<listed, mixed, offAir, onOffs, request, unlisted>>
subVars == <<member, sub, update, missed, updates>>

NoRequest == [step |-> "new", stream |-> NoSource, view |-> NoView, waits |-> {}, mute |-> "keep"]
NoUpdate == [step |-> "none", new |-> NoSource, old |-> NoSource]
NoSubscription == [entry |-> NoSource, room |-> NoSource, session |-> FALSE, ending |-> FALSE]

ControlInit ==
  /\ here = ControlStreams /\ listed = [s \in ControlStreams |-> <<>>]
  /\ mixed = [s \in ControlStreams |-> {}]
  /\ offAir = [told |-> {}, node |-> {}, lost |-> {}] /\ onOffs = <<>>
  /\ request \in [Requests -> {NoRequest, [NoRequest EXCEPT !.step = "answered"]}]
  /\ update = NoUpdate
  /\ \/ member = FALSE /\ sub = NoSubscription
     \/ /\ member = TRUE
        /\ \E s \in ControlStreams : sub = [entry |-> s, room |-> s, session |-> TRUE, ending |-> FALSE]
  /\ unlisted = {} /\ missed = {} /\ updates = 0 /\ mishaps = 0

Mishap(ok) == (ok \/ mishaps < MaxMishaps) /\ mishaps' = mishaps + (IF ok THEN 0 ELSE 1)

-----------------------------------------------------------------------------

\* What a call of mix waits for: nothing if the view is in the list.
MixOps(s, v) == IF v = NoView \/ Contains(listed[s], v) THEN {} ELSE MixTracks

AddViewAgain(l, v) == Append(l, v)
AddView(l, v) == IF Contains(l, v) THEN l ELSE Append(l, v)

\* splice(indexOf(view), 1): the last view goes when the one to remove is not in the list.
DropView(l, v) ==
  IF Contains(l, v) THEN RemoveAt(l, CHOOSE i \in DOMAIN l : l[i] = v)
  ELSE IF l = <<>> THEN l ELSE Front(l)

MixedIn(m, v) == \E t \in MixTracks : <<t, v>> \in m

\* unmix: the room controller is done when it returns.
DoUnmix(s, v) ==
  IF v = NoView THEN UNCHANGED <<listed, mixed, unlisted>>
  ELSE /\ mixed' = [mixed EXCEPT ![s] = @ \ (MixTracks \X {v})]
       /\ listed' = [listed EXCEPT ![s] = DropView(@, v)]
       /\ unlisted' = {x \in unlisted : x # <<s, v>>}
                        \cup {<<s, w>> : w \in ToSet(listed[s]) \ (ToSet(listed'[s]) \cup {v})}

\* setStreamMute, once the views of the request are done.
SetStreamMute(r, req) ==
  /\ request' = [request EXCEPT ![r] = [req EXCEPT !.step = IF req.mute = "keep" THEN "answered" ELSE "muting"]]
  /\ onOffs' = IF req.mute = "keep" THEN onOffs
               ELSE Append(onOffs, [of |-> r, stream |-> req.stream, mute |-> req.mute])

Begin(r, req) ==
  IF req.waits # {} THEN request' = [request EXCEPT ![r] = req] /\ UNCHANGED onOffs
  ELSE SetStreamMute(r, req)

\* One operation of a client: mix, unmix, pause or play.
StreamControl(r, s, v, op) ==
  /\ request[r].step = "new" /\ s \in here
  /\ LET req == [NoRequest EXCEPT !.step = "mixing", !.stream = s]
     IN  CASE op = "mix" -> /\ Begin(r, [req EXCEPT !.view = v, !.waits = MixOps(s, v)])
                            /\ DoUnmix(s, NoView)
           [] op = "unmix" -> Begin(r, req) /\ DoUnmix(s, v)
           [] op \in {"pause", "play"} -> /\ Begin(r, [req EXCEPT !.mute = op])
                                          /\ DoUnmix(s, NoView)
  /\ UNCHANGED <<here, offAir, subVars, mishaps>>

\* A list of commands: they are begun in order, and tracks are muted when views are done, if the
\* conference did not have them in that state when the commands were read.
ControlStream(r, s, v, w, op) ==
  /\ request[r].step = "new" /\ s \in here
  /\ Begin(r, [NoRequest EXCEPT !.step = "mixing", !.stream = s, !.view = v, !.waits = MixOps(s, v),
                                !.mute = IF op = (IF s \in offAir.told THEN "pause" ELSE "play")
                                         THEN "keep" ELSE op])
  /\ DoUnmix(s, w)
  /\ UNCHANGED <<here, offAir, subVars, mishaps>>

\* The room controller has mixed a track, or not.
TrackMixed(r, t, ok) ==
  LET q == request[r]
      s == q.stream
      left == [q EXCEPT !.waits = q.waits \ {t}]
  IN  /\ t \in q.waits
      /\ IF s \notin here THEN UNCHANGED mishaps ELSE Mishap(ok)
      /\ mixed' = IF ok /\ s \in here THEN [mixed EXCEPT ![s] = @ \cup {<<t, q.view>>}] ELSE mixed
      /\ IF ok /\ q.step = "mixing" /\ left.waits = {} /\ s \in here
           THEN /\ listed' = [listed EXCEPT ![s] = AddView(@, q.view)]
                /\ unlisted' = unlisted \ {<<s, q.view>>}
                /\ SetStreamMute(r, left)
         ELSE /\ request' = [request EXCEPT ![r] = [left EXCEPT
                               !.step = IF ok /\ left.waits # {} THEN q.step ELSE "answered"]]
              /\ unlisted' = IF q.step = "answered" \/ ~ok THEN unlisted \cup {<<s, q.view>>} ELSE unlisted
              /\ UNCHANGED <<listed, onOffs>>
      /\ UNCHANGED <<here, offAir, subVars>>

\* mediaOnOff: the conference takes an error of the node for an answer, as rtcController logs it.
MutesAnswered(ok) ==
  /\ onOffs # <<>> /\ onOffs' = Tail(onOffs)
  /\ LET c == Head(onOffs)
         Set(X) == IF c.mute = "pause" THEN X \cup {c.stream} ELSE X \ {c.stream}
     IN  /\ IF c.stream \in here THEN Mishap(ok) ELSE UNCHANGED mishaps
         /\ offAir' = IF c.stream \notin here THEN offAir
                      ELSE [told |-> Set(offAir.told), node |-> IF ok THEN Set(offAir.node) ELSE offAir.node,
                            lost |-> IF ok THEN offAir.lost \ {c.stream} ELSE offAir.lost \cup {c.stream}]
         /\ request' = [request EXCEPT ![c.of].step = "answered"]
  /\ UNCHANGED <<here, listed, mixed, unlisted, subVars>>

\* A stream goes; rtcController is asked to end the sessions of the subscriptions to it.
RemoveControlStream(s) ==
  /\ s \in here /\ here' = here \ {s}
  /\ listed' = [listed EXCEPT ![s] = <<>>] /\ mixed' = [mixed EXCEPT ![s] = {}]
  /\ unlisted' = {x \in unlisted : x[1] # s}
  /\ offAir' = [told |-> offAir.told \ {s}, node |-> offAir.node \ {s}, lost |-> offAir.lost \ {s}]
  /\ sub' = [sub EXCEPT !.room = IF @ = s THEN NoSource ELSE @,
                        !.ending = @ \/ (sub.entry = s /\ sub.session)]
  /\ UNCHANGED <<onOffs, request, member, update, missed, updates, mishaps>>

-----------------------------------------------------------------------------

\* addSubscription of an update calls the room controller, unless the owner or the source is gone:
\* then the subscription there was is added again, if that can be.
Recovering(old, gone) ==
  IF member /\ old \notin gone THEN [step |-> "recovering", new |-> old, old |-> old] ELSE NoUpdate
AddUpdated(new, old, gone) ==
  IF member /\ new \notin gone THEN [step |-> "adding", new |-> new, old |-> old]
  ELSE Recovering(old, gone)

Abandoned(u) == IF u = NoUpdate /\ sub.session THEN missed \cup {"abandoned"} ELSE missed

\* updateSubscription: the entry is removed before the new one is added.
UpdateSubscription(new) ==
  /\ sub.entry # NoSource /\ updates < MaxSourceChanges /\ updates' = updates + 1
  /\ sub' = [sub EXCEPT !.entry = NoSource, !.room = NoSource]
  /\ update' = AddUpdated(new, sub.entry, ControlStreams \ here)
  /\ missed' = Abandoned(update')
  /\ UNCHANGED <<here, streamVars, member, mishaps>>

SubscriptionControl(new) == member /\ UpdateSubscription(new)

\* The management API names streams that are there only.
ControlSubscription(new) == new \in here /\ UpdateSubscription(new)

\* The room controller has the subscription, or not; it refuses one to a stream that is gone.
Updated(ok) ==
  /\ update.step # "none"
  /\ IF update.new \in here THEN Mishap(ok) ELSE ~ok /\ UNCHANGED mishaps
  /\ IF ok /\ member
       THEN /\ sub' = [sub EXCEPT !.entry = update.new, !.room = update.new]
            /\ update' = NoUpdate /\ missed' = missed
     ELSE /\ update' = IF update.step = "recovering" THEN NoUpdate
                       ELSE Recovering(update.old, ControlStreams \ here)
          /\ missed' = Abandoned(update')
          /\ UNCHANGED sub
  /\ UNCHANGED <<here, streamVars, member, updates>>

\* unsubscribe: the entry must be there.
EndSubscription ==
  /\ sub.entry # NoSource /\ sub.session /\ sub' = [sub EXCEPT !.ending = TRUE]
  /\ UNCHANGED <<here, streamVars, member, update, missed, updates, mishaps>>

\* The session is over, asked for or not: onSessionAborted removes the entry, if there is one.
SessionAborted ==
  /\ sub.session /\ sub' = NoSubscription
  /\ missed' = IF update.step # "none" THEN missed \cup {"aborted"} ELSE missed
  /\ UNCHANGED <<here, streamVars, member, update, updates, mishaps>>

\* A terminate that fails is logged and answered as done.
TerminateFailed ==
  /\ sub.ending /\ Mishap(FALSE)
  /\ sub' = [sub EXCEPT !.ending = FALSE] /\ missed' = missed \cup {"kept"}
  /\ UNCHANGED <<here, streamVars, member, update, updates>>

\* The owner leaves: its sessions, its subscriptions, itself.
OwnerLeaves ==
  /\ member /\ member' = FALSE /\ sub' = NoSubscription
  /\ UNCHANGED <<here, streamVars, update, missed, updates, mishaps>>

ControlNext ==
  \/ \E r \in Requests, s \in ControlStreams, v \in ControlViews :
       \E op \in {"mix", "unmix", "pause", "play"} : StreamControl(r, s, v, op)
  \/ \E r \in Requests, s \in ControlStreams, v, w \in ControlViews \cup {NoView} :
       \E op \in {"keep", "pause", "play"} : ControlStream(r, s, v, w, op)
  \/ \E r \in Requests, t \in MixTracks, ok \in BOOLEAN : TrackMixed(r, t, ok)
  \/ \E ok \in BOOLEAN : MutesAnswered(ok) \/ Updated(ok)
  \/ \E s \in ControlStreams : RemoveControlStream(s) \/ SubscriptionControl(s) \/ ControlSubscription(s)
  \/ EndSubscription \/ SessionAborted \/ TerminateFailed \/ OwnerLeaves

ControlSpec == ControlInit /\ [][ControlNext]_controlVars

-----------------------------------------------------------------------------

\* Types of the variables of the controls.
ControlTypeOK ==
  /\ here \subseteq ControlStreams /\ listed \in [ControlStreams -> Seq(ControlViews)]
  /\ mixed \in [ControlStreams -> SUBSET (MixTracks \X ControlViews)]
  /\ \A x \in {"told", "node", "lost"} : offAir[x] \subseteq ControlStreams
  /\ \A r \in Requests : request[r].waits \subseteq MixTracks
                         /\ request[r].step \in {"new", "mixing", "muting", "answered"}
  /\ {sub.entry, sub.room, update.new, update.old} \subseteq ControlStreams \cup {NoSource}
  /\ update.step \in {"none", "adding", "recovering"}
  /\ {member, sub.session, sub.ending} \subseteq BOOLEAN

\* The view is being mixed into by a request.
BeingMixed(s, v) ==
  \E r \in Requests : request[r].stream = s /\ request[r].view = v /\ request[r].waits # {}

\* inViews has no view twice, only views in which the stream is, and all of them but those lost
\* when one track was not mixed or when a view was unmixed that was not in the list.
ViewsAgree ==
  \A s \in here :
    /\ \A i, j \in DOMAIN listed[s] : listed[s][i] = listed[s][j] => i = j
    /\ \A v \in ControlViews :
         /\ Contains(listed[s], v) => MixedIn(mixed[s], v)
         /\ MixedIn(mixed[s], v) => Contains(listed[s], v) \/ BeingMixed(s, v) \/ <<s, v>> \in unlisted

\* When no mute is under way, a track is off on the node if it is muted to the conference, unless
\* the last call did not reach the node.
MutesAgree ==
  onOffs = <<>> => \A s \in here \ offAir.lost : s \in offAir.told <=> s \in offAir.node

\* The room's subscription is the entry's.  When no update is under way, an entry has a session and
\* a session an entry; not so when the session ended while the entry was missing (aborted), or
\* when neither the new nor the old source could be subscribed to (abandoned).  An entry whose
\* source is gone waits for its session to end, if the node could be told (kept).
UpdatesAgree ==
  /\ sub.room # NoSource => sub.room = sub.entry
  /\ sub.entry # NoSource =>
       /\ member /\ update = NoUpdate
       /\ sub.session \/ "aborted" \in missed
       /\ sub.room = sub.entry \/ (sub.entry \notin here
                                   /\ (sub.ending \/ missed \cap {"aborted", "kept"} # {}))
  /\ sub.session => sub.entry # NoSource \/ update # NoUpdate \/ "abandoned" \in missed

\* What the controls leave behind agrees in the conference, the room controller and the node.
ControlsAgree == ControlTypeOK /\ ViewsAgree /\ MutesAgree /\ UpdatesAgree
=============================================================================
