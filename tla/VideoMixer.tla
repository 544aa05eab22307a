----------------------------- MODULE VideoMixer -----------------------------
(***************************************************************************)
(* A video node that mixes (source/agent/video/vmixer.js and layout.js): the *)
(* inputs of the mixer, those that wait for a place, the regions they are   *)
(* shown in, and the sources of other nodes they are read from.  Every call *)
(* runs to its end before the next one, and the one callback (the source is *)
(* disconnected) comes between two calls, so a call is one step.            *)
(***************************************************************************)
EXTENDS Integers, Sequences, FiniteSets, SequencesExt, FiniteSetsExt, Functions

CONSTANTS MixerStreams, NoStream,
          MaxInput,      \* maxInput of the mixer
          Templates,     \* numbers of regions of the layouts configured
          MaxRegions,    \* bound: regions of a layout that is set
          MaxRare        \* bound: calls of setPrimary, inputs that the engine refuses

\* A mixer without inputs gets 16 of the engine, and 100 of InputManager.
ASSUME MixerAssumption ==
  /\ MaxInput \in Nat \ {0} /\ Templates \subseteq Nat /\ NoStream \notin MixerStreams
  /\ MaxRegions \in Nat /\ MaxRare \in Nat

Ids == 0..(MaxInput - 1)
NoId == -1

VARIABLES
  mixer,     \* the state of the node
  published, \* streams the room has published here, and not unpublished
  lost,      \* of them, those that ended without a call of the room
  primaries, refusals \* counters

mixerVars == <<mixer, published, lost, primaries, refusals>>

\* initialize, with a new InputManager and a new LayoutProcessor.
MixerInit ==
  /\ mixer = [engine |-> TRUE, active |-> <<>>, pending |-> <<>>, id |-> [s \in MixerStreams |-> NoId],
              count |-> [s \in MixerStreams |-> 0], free |-> Reverse([i \in 1..MaxInput |-> i - 1]),
              mixed |-> [i \in Ids |-> NoStream],
              templates |-> Templates, regions |-> 0, list |-> <<>>, shown |-> <<>>, arranged |-> FALSE,
              remote |-> {}, missing |-> {}]
  /\ published = {} /\ lost = {} /\ primaries = 0 /\ refusals = 0

Inputs(m) == ToSet(m.active)
TakenIds == {mixer.id[s] : s \in Inputs(mixer)}
Has(m, s) == s \in Inputs(m) \cup ToSet(m.pending)

\* The elements of q that are in S, in their order.
Kept(q, S) ==
  LET I     == {i \in DOMAIN q : q[i] \in S}
      at(k) == CHOOSE i \in I : Cardinality({j \in I : j <= i}) = k
  IN  [k \in 1..Cardinality(I) |-> q[at(k)]]

-----------------------------------------------------------------------------
(* layout.js *)

ChoseTemplate(m, n) ==
  LET fitting == {t \in m.templates : t >= n}
  IN  [m EXCEPT !.regions = IF fitting = {} THEN @ ELSE Min(fitting)]

UpdateInputPositions(m) ==
  [m EXCEPT !.shown = [r \in 1..m.regions |-> IF r <= Len(m.list) THEN m.list[r] ELSE NoId]]

LayoutAddInput(m, id) ==
  IF id \in ToSet(m.list) THEN m
  ELSE UpdateInputPositions(ChoseTemplate([m EXCEPT !.list = Append(@, id)], Len(m.list) + 1))

LayoutRemoveInput(m, id) ==
  IF id \notin ToSet(m.list) THEN m
  ELSE UpdateInputPositions(ChoseTemplate([m EXCEPT !.list = RemoveFirst(@, id)], Len(m.list) - 1))

Swapped(list, a, b) == [list EXCEPT ![a] = list[b], ![b] = list[a]]

LayoutSetPrimary(m, id) ==
  IF id \notin ToSet(m.list) \/ id = Head(m.list) THEN m
  ELSE UpdateInputPositions([m EXCEPT !.list = Swapped(@, 1, SelectInSeq(@, LAMBDA i : i = id))])

\* A region of the current ones with an input of the list in its place.
Occupied(m, r) == r <= Len(m.list) /\ r <= m.regions

SpecifyInputRegion(m, id, r) ==
  IF id \notin ToSet(m.list) \/ ~Occupied(m, r) THEN m
  ELSE UpdateInputPositions([m EXCEPT !.list = Swapped(@, r, SelectInSeq(@, LAMBDA i : i = id))])

-----------------------------------------------------------------------------
(* The engine, the sources of other nodes, and the inputs.                  *)

\* An input of the engine: it is there already, or the engine takes it or does not.
EngineAdd(m, id, s, ok) == IF ok THEN [m EXCEPT !.mixed[id] = s] ELSE m
EngineRemove(m, id) == [m EXCEPT !.mixed[id] = NoStream]

DestroyRemoteSource(m, s) == [m EXCEPT !.remote = @ \ {s}]

\* InputManager.add: an input without a place waits for one.
ManagerAdd(m, s) ==
  IF m.free = <<>> THEN [m EXCEPT !.pending = Append(@, s), !.count[s] = 0]
  ELSE [m EXCEPT !.active = Append(@, s), !.id[s] = Last(m.free), !.count[s] = 0, !.free = Front(@)]

\* InputManager.remove.
ManagerRemove(m, s) ==
  IF s \in Inputs(m)
    THEN [m EXCEPT !.active = RemoveFirst(@, s), !.free = Append(@, m.id[s]), !.id[s] = NoId]
  ELSE [m EXCEPT !.pending = RemoveFirst(@, s)]

\* addInput for a stream whose address is known.
AddInput(m, s, ok) ==
  LET got == [m EXCEPT !.remote = @ \cup {s}]
      id  == Last(m.free)
      in  == ManagerAdd(got, s)
  IN  IF Has(m, s) THEN got
      ELSE IF m.free = <<>> THEN in
      ELSE IF ok THEN LayoutAddInput([EngineAdd(in, id, s, TRUE) EXCEPT !.missing = @ \ {id}], id)
      ELSE [DestroyRemoteSource(in, s) EXCEPT !.missing = @ \cup {id}]

\* What a call that adds an input answers.
Refused(m, s, ok) == ~Has(m, s) /\ m.free # <<>> /\ ~ok

\* The mixed picture without the input, and nobody in its place.
NobodyInItsPlace(m, id, ok) == LayoutRemoveInput([m EXCEPT !.missing = @ \ {id}], id)

\* removeInput of an input with a place: the first that waits gets the place.
PromotePendingStream(m, id, ok) ==
  LET s  == Head(m.pending)
      in == [m EXCEPT !.active = Append(@, s), !.id[s] = id, !.pending = Tail(@), !.free = Front(@)]
      on == EngineAdd(in, id, s, ok)
  IN  IF m.pending = <<>> THEN LayoutRemoveInput([m EXCEPT !.missing = @ \ {id}], id)
      ELSE IF ok THEN on ELSE [LayoutRemoveInput(on, id) EXCEPT !.missing = @ \cup {id}]

RemoveInput(m, s, ok) ==
  LET id   == m.id[s]
      out  == IF s \in Inputs(m) THEN PromotePendingStream(EngineRemove(ManagerRemove(m, s), id), id, ok)
              ELSE ManagerRemove(m, s)
  IN  IF Has(m, s) THEN DestroyRemoteSource(out, s) ELSE m

\* enable: an input that waits takes the place of another one, which waits then.
Enable(m, s, other, ok) ==
  LET id  == m.id[other]
      swap == [m EXCEPT !.active = Append(RemoveFirst(@, other), s), !.pending = Append(RemoveFirst(@, s), other),
                        !.id[s] = id, !.id[other] = NoId]
      on  == EngineAdd(EngineRemove(swap, id), id, s, ok)
  IN  IF ok THEN on ELSE [LayoutRemoveInput(on, id) EXCEPT !.missing = @ \cup {id}]

\* The first of the inputs that were made primary least often.
LeastPrimary(m) ==
  LET least == Min({m.count[s] : s \in Inputs(m)})
  IN  m.active[SelectInSeq(m.active, LAMBDA s : m.count[s] = least)]

-----------------------------------------------------------------------------
(* The calls of the room.                                                   *)

Refuse(used) == refusals' = refusals + (IF used THEN 1 ELSE 0)
MayRefuse(ok) == ok \/ primaries + refusals < MaxRare

\* With the address of the stream's node, which the room always knows.
PublishToMixer(s) ==
  \E ok \in BOOLEAN :
    /\ MayRefuse(ok) /\ mixer.engine
    /\ IF Has(mixer, s)
         THEN mixer' = mixer /\ ok /\ published' = published \cup {s} /\ UNCHANGED <<lost, refusals>>
         ELSE /\ mixer' = AddInput(mixer, s, ok) /\ (ok \/ mixer.free # <<>>)
              /\ Refuse(~ok)
              /\ published' = IF Refused(mixer, s, ok) THEN published \ {s} ELSE published \cup {s}
              /\ lost' = lost \ {s}
    /\ UNCHANGED primaries

\* unpublish, and cutoff.
UnpublishFromMixer(s) ==
  \E ok \in BOOLEAN :
    /\ MayRefuse(ok) /\ (ok \/ (s \in Inputs(mixer) /\ mixer.pending # <<>>))
    /\ mixer' = RemoveInput(mixer, s, ok)
    /\ published' = published \ {s} /\ lost' = lost \ {s} /\ Refuse(~ok)
    /\ UNCHANGED primaries

\* onStats of the source it reads from, or of a client it had before: that one is not closed.
Disconnected(s) ==
  \E ok \in BOOLEAN :
    /\ s \in mixer.remote
    /\ MayRefuse(ok) /\ (ok \/ (s \in Inputs(mixer) /\ mixer.pending # <<>>))
    /\ mixer' = RemoveInput(mixer, s, ok)
    /\ lost' = IF s \in published THEN lost \cup {s} ELSE lost
    /\ Refuse(~ok)
    /\ UNCHANGED <<published, primaries>>

SetPrimary(s) ==
  \E ok \in BOOLEAN :
    /\ Has(mixer, s) /\ primaries + refusals < MaxRare /\ primaries' = primaries + 1
    /\ MayRefuse(ok) /\ (ok \/ s \notin Inputs(mixer))
    /\ LET on == IF s \in Inputs(mixer) THEN mixer ELSE Enable(mixer, s, LeastPrimary(mixer), ok)
       IN  mixer' = IF ok THEN [LayoutSetPrimary(on, on.id[s]) EXCEPT !.count[s] = @ + 1] ELSE on
    /\ Refuse(~ok)
    /\ UNCHANGED <<published, lost>>

\* getStreamFromInput of the input that the region shows.
StreamOf(m, id) == CHOOSE s \in Inputs(m) : m.id[s] = id

SetRegion(s, r) ==
  \E ok \in BOOLEAN :
    /\ Has(mixer, s)
    /\ MayRefuse(ok) /\ (ok \/ (s \notin Inputs(mixer) /\ Occupied(mixer, r)))
    /\ mixer' = IF s \in Inputs(mixer) THEN SpecifyInputRegion(mixer, mixer.id[s], r)
                ELSE IF Occupied(mixer, r) THEN Enable(mixer, s, StreamOf(mixer, mixer.list[r]), ok)
                ELSE mixer
    /\ Refuse(~ok)
    /\ UNCHANGED <<published, lost, primaries>>

-----------------------------------------------------------------------------
(* setLayout: every input is removed and added again, those the layout names *)
(* first; the others fill the regions it leaves empty.  What the engine     *)
(* answers is not looked at.                                                *)

Reordered(m, named) ==
  LET all == m.active \o m.pending
  IN  Reverse(Kept(all, named)) \o Kept(all, MixerStreams \ named)

AddedAgain(m, named, refused) ==
  LET order == Reordered(m, named)
      ids   == Reverse(m.free \o [i \in 1..Len(m.active) |-> m.id[m.active[i]]])
      n     == Min({Len(order), MaxInput})
      place(s) == SelectInSeq(order, LAMBDA t : t = s)
      at(i) == SelectInSeq(ids, LAMBDA j : j = i)
  IN  [m EXCEPT !.active = SubSeq(order, 1, n), !.pending = SubSeq(order, n + 1, Len(order)),
                !.id = [s \in MixerStreams |-> IF Has(m, s) /\ place(s) <= n THEN ids[place(s)] ELSE NoId],
                !.free = Reverse(SubSeq(ids, n + 1, MaxInput)),
                !.mixed = [i \in Ids |-> IF at(i) <= n /\ order[at(i)] \notin refused THEN order[at(i)]
                                        ELSE NoStream],
                !.missing = @ \cup {i \in Ids : at(i) <= n /\ order[at(i)] \in refused},
                !.count = [s \in MixerStreams |-> 0]]

\* The streams in the regions of a layout, given those it names.
Filled(m, layout) ==
  LET others == Kept(m.active, MixerStreams \ ToSet(layout))
      empty(r) == Cardinality({q \in 1..r : layout[q] = NoStream})
  IN  [r \in 1..Len(layout) |->
        IF layout[r] = NoStream /\ empty(r) <= Len(others) THEN others[empty(r)] ELSE layout[r]]

LayoutSetLayout(m, ids) ==
  [m EXCEPT !.templates = {Len(ids)}, !.regions = Len(ids), !.list = Kept(ids, Ids),
            !.shown = ids, !.arranged = TRUE, !.missing = {i \in @ : m.mixed[i] = NoStream}]

\* The layout names a stream that the mixer does not have: the call throws when all is added again.
SetLayout(layout) ==
  \E refused \in SUBSET MixerStreams :
    LET on     == AddedAgain(mixer, ToSet(layout), refused)
        filled == Filled(on, layout)
    IN  /\ MayRefuse(refused = {}) /\ refused \subseteq Inputs(on)
        /\ mixer' = IF \E r \in 1..Len(filled) : filled[r] # NoStream /\ ~Has(on, filled[r]) THEN on
                    ELSE LayoutSetLayout(on, [r \in 1..Len(filled) |->
                           IF filled[r] = NoStream THEN NoId ELSE on.id[filled[r]]])
        /\ Refuse(refused # {})
        /\ UNCHANGED <<published, lost, primaries>>

Layouts == UNION {{l \in [1..n -> MixerStreams \cup {NoStream}] :
             \A p, q \in 1..n : l[p] = l[q] => p = q \/ l[p] = NoStream} : n \in 1..MaxRegions}

-----------------------------------------------------------------------------

\* Those that wait are removed first, so that nobody is promoted, then those with a place; and the
\* engine is closed.  A list that was not empty has been made empty, and the picture with it.
Deinit ==
  LET bare == IF mixer.list = <<>> THEN mixer
              ELSE UpdateInputPositions(ChoseTemplate([mixer EXCEPT !.list = <<>>], 0))
  IN  /\ mixer.engine
      /\ mixer' = [bare EXCEPT
           !.engine = FALSE, !.mixed = [i \in Ids |-> NoStream], !.missing = @ \ TakenIds,
           !.active = <<>>, !.pending = <<>>, !.id = [s \in MixerStreams |-> NoId],
           !.free = @ \o [i \in 1..Len(mixer.active) |-> mixer.id[mixer.active[i]]],
           !.remote = @ \ (Inputs(mixer) \cup ToSet(mixer.pending))]
      /\ published' = {} /\ lost' = {}
      /\ UNCHANGED <<primaries, refusals>>

MixerNext ==
  \/ \E s \in MixerStreams :
       \/ PublishToMixer(s) \/ UnpublishFromMixer(s) \/ Disconnected(s) \/ SetPrimary(s)
       \/ \E r \in 1..MaxRegions : SetRegion(s, r)
  \/ \E layout \in Layouts : SetLayout(layout)
  \/ Deinit

MixerSpec == MixerInit /\ [][MixerNext]_mixerVars

-----------------------------------------------------------------------------

\* Types of the variables of the mixer.
MixerTypeOK ==
  /\ mixer.engine \in BOOLEAN /\ mixer.arranged \in BOOLEAN
  /\ mixer.active \in Seq(MixerStreams) /\ mixer.pending \in Seq(MixerStreams)
  /\ mixer.id \in [MixerStreams -> Ids \cup {NoId}] /\ mixer.mixed \in [Ids -> MixerStreams \cup {NoStream}]
  /\ mixer.free \in Seq(Ids) /\ mixer.list \in Seq(Ids) /\ mixer.shown \in Seq(Ids \cup {NoId})
  /\ mixer.remote \subseteq MixerStreams /\ mixer.missing \subseteq Ids /\ lost \subseteq published
  /\ published \subseteq MixerStreams

\* Every place of the mixer is free or holds one stream, and nobody waits while one is free.
PlacesAgree ==
  /\ Cardinality(TakenIds) = Len(mixer.active) /\ IsInjective(mixer.free)
  /\ TakenIds \cap ToSet(mixer.free) = {} /\ TakenIds \cup ToSet(mixer.free) = Ids
  /\ Inputs(mixer) \cap ToSet(mixer.pending) = {}
  /\ mixer.pending # <<>> => mixer.free = <<>>

\* The engine mixes the streams that have a place, except those it has refused.
EngineAgrees ==
  /\ \A s \in Inputs(mixer) : mixer.mixed[mixer.id[s]] = s
       \/ (mixer.mixed[mixer.id[s]] = NoStream /\ mixer.id[s] \in mixer.missing)
  /\ \A i \in Ids : mixer.mixed[i] # NoStream => mixer.mixed[i] \in Inputs(mixer)
                                                /\ mixer.id[mixer.mixed[i]] = i

\* The picture shows places that are taken, each once, and all that its layouts have a region for;
\* after setLayout it may be fewer.
PictureAgrees ==
  /\ IsInjective(mixer.list) /\ ToSet(mixer.list) \subseteq TakenIds
  /\ ToSet(mixer.shown) \subseteq ToSet(mixer.list) \cup {NoId}
  /\ ~mixer.arranged =>
       /\ TakenIds \ ToSet(mixer.list) \subseteq mixer.missing
       /\ (\E t \in mixer.templates : Len(mixer.list) <= t) =>
            /\ Len(mixer.list) <= Len(mixer.shown)
            /\ \A r \in DOMAIN mixer.shown :
                 mixer.shown[r] = IF r <= Len(mixer.list) THEN mixer.list[r] ELSE NoId

\* The streams of the mixer are those the room has published and not taken back, as far as they
\* did not end by themselves; it reads each from its node, and nothing is left when it is closed.
RoomAgrees ==
  /\ \A s \in published \ lost : Has(mixer, s)
  /\ refusals = 0 => \A s \in MixerStreams : (Has(mixer, s) <=> s \in mixer.remote)
                                         /\ (Has(mixer, s) => s \in published)
  /\ ~mixer.engine => mixer.active = <<>> /\ mixer.pending = <<>> /\ mixer.list = <<>>
                       /\ mixer.remote = {}

MixerConsistent == MixerTypeOK /\ PlacesAgree /\ EngineAgrees /\ PictureAgrees /\ RoomAgrees
=============================================================================
