--------------------------- MODULE RoomTerminals ---------------------------
(***************************************************************************)
(* The media of one room (source/agent/conference/roomController.js): the   *)
(* streams, the terminals that publish and subscribe them, the mixers of    *)
(* one view and the transcoders that are made when a subscription asks for  *)
(* another format.  A step is one callback of the controller; what it has   *)
(* asked of other processes is in room.pending until it is answered.        *)
(*                                                                         *)
(* A media node handles the calls of one controller in order and at once,   *)
(* so a call changes it when it is made and only its answer comes later.    *)
(***************************************************************************)
EXTENDS Naturals, Sequences, SequencesExt, FiniteSets, Functions

CONSTANTS Streams,       \* forward streams of participants
          Subscriptions,
          MixedStream,   \* the stream of the view
          None,
          MixCalls,      \* bound: calls of mix
          Scenarios,     \* what is published and what is wanted
          MaxFailures    \* bound: answers that are errors

Kinds == {"audio", "video"}
NoFunction == [x \in {} |-> x]

VARIABLES
  scenario,  \* tracks: the formats each stream has; want: what each subscription is for
  start,     \* how far the initialisation of the view is
  address,   \* the internal address of the node each stream comes from
  room,      \* the controller and the nodes it uses
  failures,  \* answers that were errors
  windows    \* which of the windows described below a behaviour has been through

roomVars == <<scenario, start, address, room, failures, windows>>

Mixer(k) == [type |-> "mixer", kind |-> k, source |-> "all", n |-> 0]
Transcoder(k, s, n) == [type |-> "transcoder", kind |-> k, source |-> s, n |-> n]
Generated(x, key, n) == [owner |-> x, key |-> key, n |-> n]

\* A call of spreadStream, generate, init, linkup or getWorkerNode that waits for its answer,
\* and what its callbacks need.  copy is 1 when the callback ran a second time.
Call(job, k) ==
  [job |-> job, copy |-> 0, step |-> "start", kind |-> k, of |-> None, at |-> None,
   got |-> NoFunction, refused |-> FALSE]

InRoom(r, t) == t \in DOMAIN r.terminals
Exists(r, s) == s \in DOMAIN r.streams
Subscribers(r, s, k) == r.streams[s].tracks[k].subscribers
Wait(r, c, step) == [r EXCEPT !.pending = @ \cup {[c EXCEPT !.step = step]}]
Tell(r, job, answer) == IF r.told[job] = "asking" THEN [r EXCEPT !.told[job] = answer] ELSE r
\* An exception that leaves the controller: of a call of the conference, or of a callback.
Throw(r) == [r EXCEPT !.threw = TRUE]
Crash(r) == [r EXCEPT !.crashed = TRUE]

-----------------------------------------------------------------------------
(* Terminals and spreads.                                                   *)

AddTerminal(r, t) ==
  [r EXCEPT !.terminals = [x \in DOMAIN @ \cup {t} |-> IF x = t
      THEN [published |-> <<>>, subscribed |-> NoFunction]
      ELSE @[x]]]

\* The node of a mixer or transcoder is recycled with it.
DeleteTerminal(r, t) ==
  [r EXCEPT !.terminals = Restrict(@, DOMAIN @ \ {t}),
            !.outputs = {g \in @ : g.owner # t},
            !.inputs = {i \in @ : i[1] # t},
            !.silent = {i \in @ : i[1] # t}]

IsTerminalFree(r, t) ==
  /\ InRoom(r, t) /\ r.terminals[t].published = <<>>
  /\ r.terminals[t].subscribed = NoFunction

AddStream(r, s, tracks) ==
  [r EXCEPT !.streams = [y \in DOMAIN @ \cup {s} |-> IF y = s
      THEN [tracks |-> [k \in tracks |-> [subscribers |-> <<>>, active |-> TRUE]],
            spread |-> NoFunction]
      ELSE @[y]]]

DropStream(r, s) == [r EXCEPT !.streams = Restrict(@, DOMAIN @ \ {s})]

IsSpreadInUse(r, s, x) ==
  InRoom(r, x) /\ \E k \in DOMAIN r.streams[s].tracks : Contains(Subscribers(r, s, k), x)

ShrinkStream(r, s, x) ==
  IF Exists(r, s) /\ ~IsSpreadInUse(r, s, x)
    THEN [r EXCEPT !.streams[s].spread = Restrict(@, DOMAIN @ \ {x}),
                   !.inputs = @ \ {<<x, s>>}, !.silent = @ \ {<<x, s>>}]
    ELSE r

NotSubscriber(r, s, k, t) ==
  [r EXCEPT !.streams[s].tracks[k].subscribers = RemoveFirst(@, t)]

\* unsubscribeStream of a transcoder from its source.
LeaveSource(r, x) ==
  LET left == IF ~Exists(r, x.source) THEN r
              ELSE ShrinkStream(NotSubscriber(r, x.source, x.kind, x), x.source, x)
  IN  [left EXCEPT !.terminals[x].subscribed = NoFunction]

TerminateTemporaryStream(r, g) ==
  LET x    == g.owner
      gone == [DropStream(r, g) EXCEPT !.outputs = @ \ {g},
                                       !.terminals[x].published = RemoveFirst(@, g)]
  IN  IF x.type = "transcoder" /\ gone.terminals[x].published = <<>>
        THEN DeleteTerminal(LeaveSource(gone, x), x) ELSE gone

\* recycleTemporaryAudio and recycleTemporaryVideo.
RecycleTemporary(r, g) ==
  IF g \notin Streams /\ Exists(r, g) /\ InRoom(r, g.owner) /\ Subscribers(r, g, g.owner.kind) = <<>>
    THEN TerminateTemporaryStream(r, g) ELSE r

\* Over the audio track, then the video track of what a subscription has got.
RecycleAll(r, got) ==
  LET Recycled(q, k) == IF k \in DOMAIN got THEN RecycleTemporary(q, got[k]) ELSE q
  IN  Recycled(Recycled(r, "audio"), "video")

UnsubscribeKept(r, u) ==
  LET got == r.terminals[u].subscribed
      Left(q, k) == IF k \in DOMAIN got /\ Exists(q, got[k]) THEN NotSubscriber(q, got[k], k, u) ELSE q
  IN  [Left(Left(r, "audio"), "video") EXCEPT !.terminals[u].subscribed = NoFunction]

UnsubscribeStream(r, u) ==
  LET got == r.terminals[u].subscribed
      Left(q, k) ==
        IF k \in DOMAIN got /\ Exists(q, got[k])
          THEN RecycleTemporary(NotSubscriber(q, got[k], k, u), got[k]) ELSE q
  IN  [Left(Left(r, "audio"), "video") EXCEPT !.terminals[u].subscribed = NoFunction]

-----------------------------------------------------------------------------
(* The end of a stream, and of what it was the source of.                   *)

FreeTerminal(r, t) == IF IsTerminalFree(r, t) THEN DeleteTerminal(r, t) ELSE r

\* A terminal that is listed twice is missing the second time.
RemoveSubscriber(r, t) ==
  IF r.threw THEN r
  ELSE IF ~InRoom(r, t) THEN Throw(r) ELSE FreeTerminal(UnsubscribeStream(r, t), t)

\* What is done to a terminal or a stream when nothing has thrown.
CutAt(r, x, i) ==
  IF ~r.threw /\ InRoom(r, x) /\ i <= Len(r.terminals[x].published)
    THEN [r EXCEPT !.terminals[x].published = RemoveAt(@, i)] ELSE r
Released(r, s) == IF r.threw THEN r ELSE DropStream(r, s)
Emptied(r, s, k) == IF r.threw THEN r ELSE [r EXCEPT !.streams[s].tracks[k].subscribers = <<>>]

\* unpublishStream of a generated stream: its place in published is found before its
\* subscribers are removed and used after.
UnpublishGenerated(r, g) ==
  LET x     == g.owner
      i     == SelectInSeq(r.terminals[x].published, LAMBDA e : e = g)
      known == SelectSeq(Subscribers(r, g, x.kind), LAMBDA t : InRoom(r, t))
  IN  IF r.threw \/ ~Exists(r, g) THEN r
      ELSE IF i = 0 THEN DropStream(r, g)
      ELSE Released(CutAt(FoldLeft(RemoveSubscriber, r, known), x, i), g)

RemoveSource(r, t) ==
  IF r.threw THEN r
  ELSE IF ~InRoom(r, t) THEN Throw(r)
  ELSE IF t \in Subscriptions THEN RemoveSubscriber(r, t)
  ELSE FreeTerminal(FoldLeft(UnpublishGenerated, LeaveSource(r, t), r.terminals[t].published), t)

\* unmixAudio and unmixVideo.
UnmixTrack(r, s, k) ==
  IF ~Exists(r, s) \/ k \notin DOMAIN r.streams[s].tracks THEN r
  ELSE LET out == [r EXCEPT !.terminals[Mixer(k)].subscribed = Restrict(@, DOMAIN @ \ {s})]
       IN  IF Contains(Subscribers(r, s, k), Mixer(k))
             THEN ShrinkStream(NotSubscriber(out, s, k, Mixer(k)), s, Mixer(k)) ELSE out
UnmixStream(r, s) == UnmixTrack(UnmixTrack(r, s, "audio"), s, "video")

RemoveSubscriptions(r, s, k) ==
  LET known == SelectSeq(Subscribers(r, s, k), LAMBDA t : InRoom(r, t))
  IN  IF r.threw \/ k \notin DOMAIN r.streams[s].tracks THEN r
      ELSE Emptied(FoldLeft(RemoveSource, r, known), s, k)

UnpublishStream(r, s) ==
  Released(RemoveSubscriptions(RemoveSubscriptions(UnmixStream(r, s), s, "audio"), s, "video"), s)

-----------------------------------------------------------------------------
(* spreadStream.  OnError and OnOk are the callbacks it is given.           *)

\* finaly_error, after what was generated for the subscription is recycled.
SubscribeFailed(r, c) ==
  Tell(DeleteTerminal(RecycleAll(r, c.got), c.job), c.job, "refused")

OnError(r, c) ==
  IF c.job \in Subscriptions
    THEN IF InRoom(r, c.at) THEN SubscribeFailed(DeleteTerminal(r, c.at), c) ELSE Crash(r)
    ELSE Tell(IF c.kind = "video" THEN UnmixTrack(r, c.of, "audio") ELSE r, c.job, "refused")

HasSpread(r, c) == Exists(r, c.of) /\ c.at \in DOMAIN r.streams[c.of].spread

SpreadFailed(r, c) ==
  IF ~HasSpread(r, c) THEN OnError(r, c)
  ELSE LET told == FoldLeft(OnError, r, r.streams[c.of].spread[c.at].waiting)
       IN  OnError(IF ~HasSpread(told, c) THEN told
                   ELSE [told EXCEPT !.streams[c.of].spread = Restrict(@, DOMAIN @ \ {c.at})], c)

\* The publish of an input; an audio node refuses one that it has.
PublishInput(r, c) ==
  LET has == <<c.at, c.of>> \in r.inputs
  IN  Wait([r EXCEPT !.inputs = @ \cup {<<c.at, c.of>>}],
           [c EXCEPT !.refused = has /\ c.kind = "audio"], "spread")

SendSpread(r, c) ==
  CASE address[c.of] = "known"  -> PublishInput(r, c)
    [] address[c.of] = "asking" -> Wait(r, c, "address")
    [] address[c.of] = "failed" -> SpreadFailed(r, c)

IsConnected(r, c) == HasSpread(r, c) /\ r.streams[c.of].spread[c.at].connected

\* A spread that is connecting is waited for and made once more.
StartSpread(r, c) ==
  IF HasSpread(r, c)
    THEN SendSpread([r EXCEPT !.streams[c.of].spread[c.at].waiting =
                       Append(@, [c EXCEPT !.copy = 1])], c)
    ELSE SendSpread([r EXCEPT !.streams[c.of].spread =
                       (c.at :> [connected |-> FALSE, waiting |-> <<>>]) @@ @], c)

-----------------------------------------------------------------------------
(* mixStream: the audio of a stream, then its video.                        *)

Joined(r, c) ==
  LET in == [r EXCEPT !.terminals[c.at].subscribed = (c.of :> c.kind) @@ @,
                      !.streams[c.of].tracks[c.kind].subscribers =
                         IF Contains(@, c.at) THEN @ ELSE Append(@, c.at)]
  IN  IF r.streams[c.of].tracks[c.kind].active \/ <<c.at, c.of>> \notin r.inputs
        THEN in ELSE [in EXCEPT !.silent = @ \cup {<<c.at, c.of>>}]

MixTrack(r, c, k) ==
  LET d == [c EXCEPT !.kind = k, !.at = Mixer(k), !.copy = 0]
  IN  IF IsConnected(r, d) THEN <<"ok", d>> ELSE <<"spread", d>>

Mixed(r, c) ==
  LET on   == Joined(r, c)
      next == MixTrack(on, c, "video")
  IN  IF c.kind = "video" \/ "video" \notin DOMAIN r.streams[c.of].tracks
        THEN Tell(on, c.job, "ok")
      ELSE IF next[1] = "ok" THEN Tell(Joined(on, next[2]), c.job, "ok")
      ELSE StartSpread(on, next[2])

MixStream(r, c) ==
  LET k    == IF "audio" \in DOMAIN r.streams[c.of].tracks THEN "audio" ELSE "video"
      next == MixTrack(r, c, k)
  IN  IF next[1] = "ok" THEN Mixed(r, next[2]) ELSE StartSpread(r, next[2])
-----------------------------------------------------------------------------
(* subscribe: the audio stream, then the video stream, then linkup.         *)

Want(c, k) == scenario.want[c.job][k]
\* What a node is asked to generate; the audio mixer leaves out whom it is for.
Key(c, k) ==
  <<IF k = "audio" /\ Want(c, k).from = MixedStream THEN c.job ELSE "all", Want(c, k).format>>

\* findExistingAudioTranscoder and findExistingVideoTranscoder: at most one.
ExistingTranscoder(r, s, k) ==
  LET IsOne(t) == t \notin Subscriptions /\ t.type = "transcoder" /\ InRoom(r, t)
      i        == SelectInSeq(Subscribers(r, s, k), IsOne)
  IN  IF i = 0 THEN {} ELSE {Subscribers(r, s, k)[i]}

\* findExistingTranscodedAudio and findExistingTranscodedVideo, and the candidates of a mixer.
GeneratedBy(r, c, k, x) == {g \in DOMAIN r.streams \ Streams : g.owner = x /\ g.key = Key(c, k)}

\* The video mixer is asked only for what it does not generate yet, the audio mixer always.
ExistingMixed(r, c, k) == IF k = "video" THEN GeneratedBy(r, c, k, Mixer(k)) ELSE {}

ExistingTranscoded(r, c, k) ==
  UNION {GeneratedBy(r, c, k, x) : x \in ExistingTranscoder(r, Want(c, k).from, k)}

\* The streams that exist and serve a track: of the view, the source itself, or of its transcoder.
Existing(r, c, k) ==
  LET from == Want(c, k).from
  IN  CASE from = MixedStream -> ExistingMixed(r, c, k)
        [] from # MixedStream /\ ~Exists(r, from) -> {}
        [] OTHER -> IF scenario.tracks[from][k] = Want(c, k).format THEN {from}
                    ELSE ExistingTranscoded(r, c, k)

\* generate: a node that has the output already answers with it.
Generate(r, c, x) ==
  LET old == {g \in r.outputs : g.owner = x /\ g.key = Key(c, c.kind)}
      g   == IF old # {} THEN CHOOSE o \in old : TRUE ELSE Generated(x, Key(c, c.kind), r.ids + 1)
  IN  Wait([r EXCEPT !.outputs = @ \cup {g}, !.ids = IF old = {} THEN @ + 1 ELSE @],
           [c EXCEPT !.at = g], "generate")

SpawnMixed(r, c) == Generate(r, c, Mixer(c.kind))
SpawnTranscoded(r, c, x) == Generate(r, c, x)

\* A transcoder is made when the source has none.
GetTranscoder(r, c, s) ==
  LET xs == ExistingTranscoder(r, s, c.kind)
  IN  IF xs # {} THEN SpawnTranscoded(r, c, CHOOSE x \in xs : TRUE)
      ELSE Wait([r EXCEPT !.ids = @ + 1],
                [c EXCEPT !.of = s, !.at = Transcoder(c.kind, s, r.ids + 1)], "node")

\* getAudioStream or getVideoStream of what does not exist yet.
GetTrack(r, c) ==
  LET from == Want(c, c.kind).from
  IN  IF from = MixedStream THEN SpawnMixed(r, c)
      ELSE IF ~Exists(r, from) THEN SubscribeFailed(r, c) ELSE GetTranscoder(r, c, from)

HasAll(r, got) == \A k \in DOMAIN got : Exists(r, got[k])

Linkup(r, c) ==
  IF InRoom(r, c.job) /\ HasAll(r, c.got) THEN Wait(r, c, "linkup") ELSE SubscribeFailed(r, c)

\* doSubscribe from where it is, up to the first call of another process.
Follow(r, c) ==
  LET Lacks(d, k)  == k \in DOMAIN scenario.want[c.job] \ DOMAIN d.got
      Taken(d, k)  == IF Lacks(d, k) /\ Existing(r, c, k) # {}
                        THEN [d EXCEPT !.got = (k :> CHOOSE g \in Existing(r, c, k) : TRUE) @@ @]
                        ELSE d
      a == Taken(c, "audio")
      v == Taken(a, "video")
  IN  IF Lacks(a, "audio") THEN GetTrack(r, [a EXCEPT !.kind = "audio"])
      ELSE IF Lacks(v, "video") THEN GetTrack(r, [v EXCEPT !.kind = "video"])
      ELSE Linkup(r, v)

\* The transcoder has its input: it is asked for the format, unless it has it.
Transcoding(r, c) ==
  LET on == [r EXCEPT !.terminals[c.at].subscribed = (c.of :> c.kind) @@ @,
                      !.streams[c.of].tracks[c.kind].subscribers = Append(@, c.at)]
      gs == GeneratedBy(r, c, c.kind, c.at)
  IN  IF ~InRoom(r, c.at) THEN Crash(r)
      ELSE IF gs = {} THEN SpawnTranscoded(on, c, c.at)
      ELSE Follow(on, [c EXCEPT !.got = (c.kind :> CHOOSE g \in gs : TRUE) @@ @])

OnOk(r, c) == IF c.job \in Subscriptions THEN Transcoding(r, c) ELSE Mixed(r, c)

SpreadOk(r, c) ==
  IF ~HasSpread(r, c) THEN OnError(r, c)
  ELSE LET waiting == r.streams[c.of].spread[c.at].waiting
           on == [r EXCEPT !.streams[c.of].spread[c.at] = [connected |-> TRUE, waiting |-> <<>>]]
       IN  FoldLeft(OnOk, OnOk(on, c), waiting)

\* The generated stream of an answer; its transcoder may have been released.
GotGenerated(r, c) ==
  LET g     == c.at
      known == IF Exists(r, g) THEN r
               ELSE [AddStream(r, g, {g.owner.kind}) EXCEPT
                       !.terminals[g.owner].published = Append(@, g)]
  IN  IF InRoom(r, g.owner)
        THEN Follow(known, [c EXCEPT !.got = (c.kind :> g) @@ @])
        ELSE SubscribeFailed(r, c)

\* finally_ok
LinkedUp(r, c) ==
  LET Listed(q, k) ==
        IF k \in DOMAIN c.got
          THEN [q EXCEPT !.streams[c.got[k]].tracks[k].subscribers = Append(@, c.job)] ELSE q
  IN  IF InRoom(r, c.job) /\ HasAll(r, c.got)
        THEN Tell([Listed(Listed(r, "audio"), "video") EXCEPT
                     !.terminals[c.job].subscribed = c.got], c.job, "ok")
        ELSE SubscribeFailed(r, c)

-----------------------------------------------------------------------------
(* What the conference asks for.                                            *)

RoomInit ==
  /\ scenario \in Scenarios
  /\ start = <<"none">>
  /\ address = [s \in Streams |-> "none"]
  /\ room = [terminals |-> NoFunction, streams |-> NoFunction, pending |-> {}, ids |-> 0,
             outputs |-> {}, inputs |-> {}, silent |-> {},
             told |-> [j \in Subscriptions \cup MixCalls |-> "none"],
             threw |-> FALSE, crashed |-> FALSE]
  /\ failures = 0 /\ windows = {}

Serving == start = <<"ready">> /\ ~room.crashed

\* A step of the controller: what it does to room, and the windows it opens.
Do(r, open) ==
  /\ room' = [r EXCEPT !.threw = FALSE]
  /\ windows' = windows \cup open \cup (IF r.threw THEN {"threw"} ELSE {})
  /\ UNCHANGED <<scenario, start>>

\* publish: the node of the stream may be new to the controller.
Publish(s) ==
  /\ Serving /\ s \in DOMAIN scenario.tracks /\ address[s] = "none"
  /\ \E a \in {"known", "asking"} : address' = [address EXCEPT ![s] = a]
  /\ Do(AddStream(room, s, DOMAIN scenario.tracks[s]), {})
  /\ UNCHANGED failures

AddressAnswer(s) ==
  /\ ~room.crashed /\ address[s] = "asking"
  /\ \/ address' = [address EXCEPT ![s] = "known"] /\ UNCHANGED failures
     \/ /\ failures < MaxFailures /\ failures' = failures + 1
        /\ address' = [address EXCEPT ![s] = "failed"]
  /\ UNCHANGED <<scenario, start, room, windows>>

\* unpublish; while a spread of the stream is under way its node keeps the input.
Unpublish(s) ==
  /\ Serving /\ Exists(room, s)
  /\ Do(UnpublishStream(room, s),
        IF \E c \in room.pending : c.of = s /\ c.step = "spread" THEN {"late"} ELSE {})
  /\ UNCHANGED <<address, failures>>

\* subscribe: its sources must be there and have the track.
Subscribe(u) ==
  LET Offered(w, k) ==
        \/ w.from = MixedStream
        \/ Exists(room, w.from) /\ k \in DOMAIN room.streams[w.from].tracks
  IN  /\ Serving /\ room.told[u] = "none" /\ scenario.want[u] # NoFunction
      /\ \A k \in DOMAIN scenario.want[u] : Offered(scenario.want[u][k], k)
      /\ Do(Follow(AddTerminal([room EXCEPT !.told[u] = "asking"], u), Call(u, "audio")), {})
      /\ UNCHANGED <<address, failures>>

\* unsubscribe, once the subscription has been answered.
Unsubscribe(u) ==
  /\ Serving /\ room.told[u] = "ok"
  /\ LET out == [room EXCEPT !.told[u] = "over"]
     IN  Do(IF InRoom(out, u) /\ out.terminals[u].subscribed # NoFunction
              THEN DeleteTerminal(UnsubscribeStream(out, u), u) ELSE out, {})
  /\ UNCHANGED <<address, failures>>

Mix(m, s) ==
  /\ Serving /\ Exists(room, s) /\ m \in scenario.mixes /\ room.told[m] = "none"
  /\ Do(MixStream([room EXCEPT !.told[m] = "asking"], [Call(m, "audio") EXCEPT !.of = s]), {})
  /\ UNCHANGED <<address, failures>>

Unmix(s) ==
  /\ Serving /\ Exists(room, s) /\ scenario.mixes # {}
  /\ Do(UnmixStream(room, s), {})
  /\ UNCHANGED <<address, failures>>

\* updateStream of the audio or the video track.
UpdateStream(s, k) ==
  /\ Serving /\ Exists(room, s) /\ k \in DOMAIN room.streams[s].tracks /\ scenario.mixes # {}
  /\ LET active == ~room.streams[s].tracks[k].active
         at     == {i \in room.inputs : i = <<Mixer(k), s>> /\ Contains(Subscribers(room, s, k), Mixer(k))}
     IN  Do([room EXCEPT !.streams[s].tracks[k].active = active,
                         !.silent = IF active THEN @ \ at ELSE @ \cup at], {})
  /\ UNCHANGED <<address, failures>>

-----------------------------------------------------------------------------
(* Answers of the other processes.                                          *)

Answered(c) == [room EXCEPT !.pending = @ \ {c}]

\* A spread that waited for the address is started again.
Resume(c) ==
  /\ c.step = "address"
  /\ LET r == Answered(c)
     IN  Do(IF address[c.of] = "failed" THEN SpreadFailed(r, c)
            ELSE IF ~Exists(r, c.of) THEN OnError(r, c) ELSE StartSpread(r, c),
            IF c.job \in Subscriptions THEN {"twice"} ELSE {})
  /\ UNCHANGED failures

Succeed(c) ==
  LET r == Answered(c)
  IN  /\ c.step # "address" /\ ~c.refused
      /\ Do(CASE c.step = "node"     -> Wait(AddTerminal(r, c.at), c, "init")
              [] c.step = "init"     -> IF Exists(r, c.of) THEN StartSpread(r, c) ELSE OnError(r, c)
              [] c.step = "spread"   -> SpreadOk(r, c)
              [] c.step = "generate" -> GotGenerated(r, c)
              [] c.step = "linkup"   -> LinkedUp(r, c), {})
      /\ UNCHANGED failures

\* An error, or no answer in time.
Fail(c) ==
  LET r == Answered(c)
  IN  /\ c.step # "address"
      /\ IF c.refused THEN UNCHANGED failures
         ELSE failures < MaxFailures /\ failures' = failures + 1
      /\ Do(IF c.step = "spread" THEN SpreadFailed(r, c) ELSE SubscribeFailed(r, c),
            IF c.step \in {"init", "generate"} THEN {c.step} ELSE {})

\* A node answers in the order of its calls: what it refused comes after what it had.
Due(c) ==
  /\ Serving
  /\ c.step = "address" => address[c.of] # "asking"
  /\ c.refused => \A d \in room.pending :
       d.step = "spread" /\ d.at = c.at /\ d.of = c.of => d.refused

Answer(c) ==
  /\ Due(c) /\ UNCHANGED address
  /\ Resume(c) \/ Succeed(c) \/ Fail(c)

\* create: the conference has the configuration of the room.
Create ==
  /\ start = <<"none">> /\ start' = <<"node", "audio">>
  /\ UNCHANGED <<scenario, address, room, failures, windows>>

\* initView: the audio mixer, then the video mixer; if either cannot be had, neither is kept.
StartView ==
  /\ start[1] \in {"node", "init"}
  /\ LET k    == start[2]
         gone == DeleteTerminal(DeleteTerminal(room, Mixer("video")), Mixer("audio"))
     IN  \/ /\ start[1] = "node" /\ start' = <<"init", k>>
           /\ room' = AddTerminal(room, Mixer(k)) /\ UNCHANGED failures
        \/ /\ start[1] = "init"
           /\ start' = IF k = "audio" THEN <<"node", "video">> ELSE <<"ready">>
           /\ UNCHANGED <<room, failures>>
        \/ /\ failures < MaxFailures /\ failures' = failures + 1
           /\ start' = <<"failed">> /\ room' = gone
  /\ UNCHANGED <<scenario, address, windows>>

RoomNext ==
  \/ Create \/ StartView
  \/ \E s \in Streams : Publish(s) \/ AddressAnswer(s) \/ Unpublish(s) \/ Unmix(s)
  \/ \E s \in Streams, k \in Kinds : UpdateStream(s, k)
  \/ \E u \in Subscriptions : Subscribe(u) \/ Unsubscribe(u)
  \/ \E m \in MixCalls, s \in Streams : Mix(m, s)
  \/ \E c \in room.pending : Answer(c)

\* Every call of another process is answered, or is given up by the RPC layer.  For the calls of
\* one job this is their weak fairness, with Due, which enables them, written out.
AnswersTo(j) == \E c \in room.pending : c.job = j /\ c \notin room'.pending

RoomFairness ==
  /\ WF_roomVars(StartView)
  /\ \A s \in Streams : WF_roomVars(AddressAnswer(s))
  /\ \A j \in Subscriptions \cup MixCalls : 
       []<>(\A c \in room.pending : c.job = j => ~Due(c)) \/ []<><<AnswersTo(j)>>_roomVars

RoomSpec == RoomInit /\ [][RoomNext]_roomVars /\ RoomFairness

-----------------------------------------------------------------------------
(* Windows: what the code does not guard against, and what is said below    *)
(* only of behaviours that have not been through it.                        *)
(*   twice     a spread waited for an address: its callback runs twice, and *)
(*             a transcoder and its listener are entered twice              *)
(*   threw     RemoveSubscriber or RemoveSource met a terminal listed twice *)
(*   late      a stream ended while its publish at a mixer was under way    *)
(*   init, generate   an error of these leaves the transcoder as it is      *)

Quiet == room.pending = {}
Transcoders == {t \in DOMAIN room.terminals \ Subscriptions : t.type = "transcoder"}
SourcesThere(u) ==
  \A k \in DOMAIN scenario.want[u] :
    scenario.want[u][k].from \in DOMAIN room.streams \cup {MixedStream}
Listens(u, k, g) ==
  InRoom(room, u) /\ k \in DOMAIN room.terminals[u].subscribed /\ room.terminals[u].subscribed[k] = g

\* Types of the variables of the room.
RoomTypeOK ==
  /\ scenario \in Scenarios /\ failures \in 0..MaxFailures
  /\ start \in {"node", "init"} \X Kinds \cup {<<"none">>, <<"ready">>, <<"failed">>}
  /\ address \in [Streams -> {"none", "asking", "known", "failed"}]
  /\ \A t \in DOMAIN room.terminals \ Subscriptions :
       /\ t.type \in {"mixer", "transcoder"} /\ IsInjective(room.terminals[t].published)
       /\ \A g \in ToSet(room.terminals[t].published) : g.owner = t
  /\ room.told \in [Subscriptions \cup MixCalls -> {"none", "asking", "ok", "refused", "over"}]
  /\ windows \subseteq {"twice", "threw", "late", "init", "generate"}

\* A subscription that was answered ok has each of its tracks from a stream that exists and
\* lists it, for as long as its sources are published.
SubscriptionsServed ==
  \A u \in Subscriptions : room.told[u] = "ok" /\ SourcesThere(u) =>
    \A k \in DOMAIN scenario.want[u] : \E g \in DOMAIN room.streams :
      /\ Listens(u, k, g) /\ Contains(Subscribers(room, g, k), u)
      /\ g \in Streams \/ g.key = <<g.key[1], scenario.want[u][k].format>>

\* Nothing is generated or transcoded that no subscription listens to.
NothingLeftOver ==
  Quiet =>
    /\ \A g \in DOMAIN room.streams \ Streams : \E u \in Subscriptions : Listens(u, g.owner.kind, g)
    /\ windows \cap {"init", "generate"} = {} =>
         \A x \in Transcoders : room.terminals[x].published # <<>>

\* What the mixers' nodes mix is what the room has them subscribed to, and a track that is muted
\* is silent there.
MixersFollow ==
  /\ Quiet /\ "late" \notin windows /\ failures = 0 =>
       \A i \in room.inputs : Exists(room, i[2]) /\ Contains(Subscribers(room, i[2], i[1].kind), i[1])
  /\ Quiet => \A s \in DOMAIN room.streams \cap Streams : \A k \in DOMAIN room.streams[s].tracks :
       Contains(Subscribers(room, s, k), Mixer(k)) =>
         /\ <<Mixer(k), s>> \in room.inputs
         /\ <<Mixer(k), s>> \in room.silent <=> ~room.streams[s].tracks[k].active

\* Terminals, streams and nodes agree, whatever the order of subscriptions, mixing, ends of
\* streams and answers; and no callback meets a terminal that is gone.
RoomConsistent ==
  /\ RoomTypeOK
  /\ "twice" \notin windows =>
       /\ SubscriptionsServed /\ NothingLeftOver /\ MixersFollow
       /\ "threw" \notin windows /\ ~room.crashed
       /\ start = <<"failed">> => room.terminals = NoFunction

\* Every subscribe and every mix is answered, unless an exception ends the conference: as each job
\* asks once, there is a time again and again when none of them waits.
RoomAnswers == []<>(room.crashed \/ \A j \in Subscriptions \cup MixCalls : room.told[j] # "asking")
=============================================================================
