---------------------------- MODULE Media_proofs ----------------------------
(***************************************************************************)
(* What is done about media, for any streams, links, formats, places, views *)
(* and requests: what the nodes that process media have, what their engines *)
(* have, what they read from other nodes and who may end it; what the       *)
(* controls of conference.js leave behind; and the tracks and links of a    *)
(* WebRTC node.                                                             *)
(***************************************************************************)
EXTENDS WebrtcAgent, MediaInputs, MediaControls, FiniteSetTheorems, SequenceTheorems, TLAPS

Rankings == [Places -> Speakers \cup {Nobody}]

-----------------------------------------------------------------------------
(* The selecting audio node                                                 *)

\* The types, and the places of every ranking, each a stream's or nobody's.
SelectiveTyped ==
  /\ inputs \subseteq Speakers /\ heard \subseteq Speakers /\ again \subseteq Speakers
  /\ rank \in Rankings /\ top \in Rankings /\ told \in Rankings
  /\ changes \in Seq(Rankings) /\ stashed \in BOOLEAN

\* The ranker has places for inputs only, and what is under way ends with what was told last.
RankingsAgree ==
  /\ \A i \in Places : top[i] \in inputs \cup {Nobody}
  /\ Injective(top) /\ Injective(told) /\ Injective(rank)
  /\ \A k \in 1..Len(changes) : Injective(changes[k])
  /\ changes # <<>> => changes[Len(changes)] = told
  /\ ~stashed => told = top

\* What the mixer hears, and what an old ranking may still make it hear.
HeardAgrees ==
  /\ \A s \in heard : s \in inputs /\ \E i \in Places : rank[i] = s
  /\ \A i \in Places : rank[i] \in inputs \ again => rank[i] \in heard
  /\ changes = <<>> => \A i \in Places :
       told[i] # rank[i] => rank[i] = Nobody /\ told[i] \notin inputs \ again

SelectiveInv == SelectiveTyped /\ RankingsAgree /\ HeardAgrees

LEMMA RankedIs ==
  ASSUME NEW r \in Rankings
  PROVE  \A s : s \in Ranked(r) <=> s # Nobody /\ \E i \in Places : r[i] = s
BY DEF Ranked, Range, Rankings

\* A ranking that the ranker makes now.
LEMMA RankingTold ==
  ASSUME SelectiveTyped, RankingsAgree, NEW new \in Rankings, Injective(new), TriggerRankChange(new)
  PROVE  /\ top' = new /\ told' \in Rankings /\ Injective(told') /\ changes' \in Seq(Rankings)
         /\ stashed' \in BOOLEAN /\ (~stashed' => told' = top')
         /\ \A k \in 1..Len(changes') : Injective(changes'[k])
         /\ changes' # <<>> => changes'[Len(changes')] = told'
         /\ changes' = <<>> => changes = <<>> /\ told' = told
<1>1. CASE UNCHANGED <<told, changes>> /\ stashed' = TRUE
  BY <1>1 DEF TriggerRankChange, SelectiveTyped, RankingsAgree
<1>2. CASE stashed' = FALSE /\ told' = new /\ new = told /\ UNCHANGED changes
  BY <1>2 DEF TriggerRankChange, SelectiveTyped, RankingsAgree
<1>3. CASE stashed' = FALSE /\ told' = new /\ changes' = Append(changes, new)
  <2>1. /\ changes' \in Seq(Rankings) /\ Len(changes') = Len(changes) + 1 /\ Len(changes) \in Nat
        /\ changes'[Len(changes')] = new
        /\ \A k \in 1..Len(changes) : changes'[k] = changes[k]
    BY <1>3 DEF SelectiveTyped
  <2>2. \A k \in 1..Len(changes') : k = Len(changes') \/ k \in 1..Len(changes)
    BY <2>1
  <2>3. changes' # <<>>
    BY <2>1
  <2> QED
    BY <1>3, <2>1, <2>2, <2>3 DEF TriggerRankChange, SelectiveTyped, RankingsAgree
<1> QED
  BY <1>1, <1>2, <1>3 DEF TriggerRankChange

\* What is left to show when the ranker has told of a new ranking, or has not.
Told == /\ told' \in Rankings /\ Injective(told') /\ changes' \in Seq(Rankings)
        /\ stashed' \in BOOLEAN /\ (~stashed' => told' = top')
        /\ \A k \in 1..Len(changes') : Injective(changes'[k])
        /\ changes' # <<>> => changes'[Len(changes')] = told'
        /\ changes' = <<>> => changes = <<>> /\ told' = told

LEMMA ToldIs ==
  ASSUME SelectiveTyped, RankingsAgree, NEW new \in Rankings, Injective(new),
         TriggerRankChange(new) \/ (new = top /\ KeepRanking)
  PROVE  top' = new /\ Told
<1>1. CASE TriggerRankChange(new)
  BY <1>1, RankingTold DEF Told
<1>2. CASE new = top /\ KeepRanking
  BY <1>2 DEF KeepRanking, Told, SelectiveTyped, RankingsAgree
<1> QED
  BY <1>1, <1>2

LEMMA AddSpeakerKeeps ==
  ASSUME SelectiveInv, NEW s \in Speakers, AddSpeaker(s)
  PROVE  SelectiveInv'
<1> USE SelectiveAssumption DEF SelectiveInv
<1>1. s # Nobody /\ s \notin inputs /\ inputs' = inputs \cup {s} /\ UNCHANGED <<rank, heard>>
  BY DEF AddSpeaker
<1>2. PICK new \in Rankings :
        /\ TriggerRankChange(new) \/ (new = top /\ KeepRanking)
        /\ Injective(new) /\ \A i \in Places : new[i] \in inputs' \cup {Nobody}
  <2>1. CASE KeepRanking
    BY <1>1, <2>1 DEF SelectiveTyped, RankingsAgree
  <2>2. ASSUME NEW i \in Places, top[i] = Nobody, TriggerRankChange([top EXCEPT ![i] = s])
        PROVE  \E new \in Rankings :
                 /\ TriggerRankChange(new) \/ (new = top /\ KeepRanking)
                 /\ Injective(new) /\ \A j \in Places : new[j] \in inputs' \cup {Nobody}
    <3> DEFINE new == [top EXCEPT ![i] = s]
    <3>1. new \in Rankings /\ \A j \in Places : new[j] = IF j = i THEN s ELSE top[j]
      BY DEF SelectiveTyped, Rankings
    <3>2. \A j \in Places : top[j] # s
      BY <1>1 DEF RankingsAgree
    <3>3. Injective(new)
      BY <3>1, <3>2 DEF Injective, RankingsAgree
    <3>4. \A j \in Places : new[j] \in inputs' \cup {Nobody}
      BY <1>1, <3>1 DEF RankingsAgree
    <3> QED
      BY <2>2, <3>1, <3>3, <3>4
  <2> QED
    BY <2>1, <2>2 DEF AddSpeaker
<1>3. top' = new /\ Told
  BY <1>2, ToldIs
<1>4. SelectiveTyped' /\ RankingsAgree'
  <2>1. again' \subseteq Speakers
    BY DEF AddSpeaker, SelectiveTyped
  <2> QED
    BY <1>1, <1>2, <1>3, <2>1 DEF SelectiveTyped, RankingsAgree, Told
<1>5. HeardAgrees'
  <2>1. again \subseteq again' /\ (NamedEarlier(s) => s \in again')
    BY DEF AddSpeaker
  <2>2. \A i \in Places : rank[i] = s \/ told[i] = s => s \in again'
    BY <1>1, <2>1, RankedIs DEF NamedEarlier, SelectiveTyped
  <2>3. changes' = <<>> => changes = <<>> /\ told' = told
    BY <1>3 DEF Told
  <2> QED
    BY <1>1, <2>1, <2>2, <2>3 DEF HeardAgrees
<1> QED
  BY <1>4, <1>5

LEMMA RemoveSpeakerKeeps ==
  ASSUME SelectiveInv, NEW s \in Speakers, RemoveSpeaker(s)
  PROVE  SelectiveInv'
<1> USE SelectiveAssumption DEF SelectiveInv
<1>1. s # Nobody /\ s \in inputs /\ inputs' = inputs \ {s} /\ UNCHANGED again
  BY DEF RemoveSpeaker
<1>2. PICK new \in Rankings :
        /\ TriggerRankChange(new) \/ (new = top /\ KeepRanking)
        /\ Injective(new) /\ \A i \in Places : new[i] \in inputs' \cup {Nobody}
  <2>1. CASE s \notin Range(top) /\ KeepRanking
    <3>1. \A i \in Places : top[i] # s
      BY <2>1 DEF Range, SelectiveTyped, Rankings
    <3> QED
      BY <1>1, <2>1, <3>1 DEF SelectiveTyped, RankingsAgree
  <2>2. ASSUME NEW x \in (inputs \ (Ranked(top) \cup {s})) \cup {Nobody},
               TriggerRankChange([i \in Places |-> IF top[i] = s THEN x ELSE top[i]])
        PROVE  \E new \in Rankings :
                 /\ TriggerRankChange(new) \/ (new = top /\ KeepRanking)
                 /\ Injective(new) /\ \A i \in Places : new[i] \in inputs' \cup {Nobody}
    <3> DEFINE new == [i \in Places |-> IF top[i] = s THEN x ELSE top[i]]
    <3>1. new \in Rankings
      BY DEF SelectiveTyped, Rankings
    <3>2. x # Nobody => \A i \in Places : top[i] # x
      BY RankedIs DEF SelectiveTyped
    <3>3. Injective(new)
      BY <1>1, <3>2 DEF Injective, RankingsAgree
    <3>4. \A i \in Places : new[i] \in inputs' \cup {Nobody}
      BY <1>1 DEF RankingsAgree
    <3> QED
      BY <2>2, <3>1, <3>3, <3>4
  <2> QED
    BY <2>1, <2>2 DEF RemoveSpeaker
<1>3. top' = new /\ Told
  BY <1>2, ToldIs
<1>4. /\ rank' \in Rankings
      /\ \A i \in Places : rank'[i] = IF rank[i] = s THEN Nobody ELSE rank[i]
      /\ heard' = heard \ {s}
  <2>1. CASE s \in Range(rank)
    <3> DEFINE i == CHOOSE j \in Places : rank[j] = s
    <3>1. i \in Places /\ rank[i] = s
      BY <2>1 DEF Range, SelectiveTyped, Rankings
    <3>2. rank' = [rank EXCEPT ![i] = Nobody] /\ heard' = heard \ {s}
      BY <2>1 DEF RemoveSpeaker, NotHeard
    <3>3. \A j \in Places : rank[j] = s => j = i
      BY <1>1, <3>1 DEF RankingsAgree, Injective
    <3> HIDE DEF i
    <3> QED
      BY <3>1, <3>2, <3>3 DEF SelectiveTyped, Rankings
  <2>2. CASE s \notin Range(rank)
    <3>1. \A i \in Places : rank[i] # s
      BY <2>2 DEF Range, SelectiveTyped, Rankings
    <3> QED
      BY <2>2, <3>1 DEF RemoveSpeaker, SelectiveTyped, HeardAgrees
  <2> QED
    BY <2>1, <2>2
<1>5. SelectiveTyped'
  BY <1>1, <1>2, <1>3, <1>4 DEF SelectiveTyped, Told
<1>6. RankingsAgree'
  <2>1. Injective(rank')
    BY <1>4 DEF Injective, RankingsAgree
  <2> QED
    BY <1>2, <1>3, <2>1 DEF RankingsAgree, Told
<1>7. HeardAgrees'
  <2>1. changes' = <<>> => changes = <<>> /\ told' = told
    BY <1>3 DEF Told
  <2>2. \A x \in heard' : x \in inputs' /\ \E i \in Places : rank'[i] = x
    BY <1>1, <1>4 DEF HeardAgrees
  <2>3. \A i \in Places : rank'[i] \in inputs' \ again' => rank'[i] \in heard'
    <3>1. Nobody \notin inputs
      BY DEF SelectiveTyped
    <3> QED
      BY <1>1, <1>4, <3>1 DEF HeardAgrees
  <2>4. ASSUME changes' = <<>>, NEW i \in Places, told'[i] # rank'[i]
        PROVE  rank'[i] = Nobody /\ told'[i] \notin inputs' \ again'
    BY <1>1, <1>4, <2>1, <2>4 DEF HeardAgrees
  <2> QED
    BY <2>2, <2>3, <2>4 DEF HeardAgrees
<1> QED
  BY <1>5, <1>6, <1>7

LEMMA RerankingKeeps ==
  ASSUME SelectiveInv, NEW new \in Rankings, Injective(new),
         \A i \in Places : new[i] \in inputs \cup {Nobody},
         TriggerRankChange(new), UNCHANGED <<inputs, rank, heard, again>>
  PROVE  SelectiveInv'
<1> USE DEF SelectiveInv
<1>1. top' = new /\ Told
  BY ToldIs
<1>2. SelectiveTyped' /\ RankingsAgree'
  BY <1>1 DEF SelectiveTyped, RankingsAgree, Told
<1>3. HeardAgrees'
  BY <1>1 DEF HeardAgrees, Told
<1> QED
  BY <1>2, <1>3

LEMMA RankChangeKeeps ==
  ASSUME SelectiveInv, RankChange
  PROVE  SelectiveInv'
<1> USE SelectiveAssumption DEF SelectiveInv
<1> DEFINE new == changes[1]
           moved == {i \in Places : rank[i] # new[i]}
<1>1. /\ changes # <<>> /\ Head(changes) = new /\ new \in Rankings /\ Injective(new)
      /\ changes' = Tail(changes) /\ changes' \in Seq(Rankings) /\ Len(changes) \in Nat \ {0}
      /\ Len(changes') = Len(changes) - 1
      /\ \A k \in 1..Len(changes') : changes'[k] = changes[k + 1] /\ k + 1 \in 1..Len(changes)
  <2>1. changes # <<>> /\ changes' = Tail(changes) /\ changes \in Seq(Rankings)
    BY DEF RankChange, SelectiveTyped
  <2>2. Len(changes) \in Nat \ {0} /\ 1 \in 1..Len(changes)
    BY <2>1
  <2>3. Injective(new)
    BY <2>2 DEF RankingsAgree
  <2> QED
    BY <2>1, <2>2, <2>3
<1>2. /\ heard' = (heard \ {rank[i] : i \in moved}) \cup ({new[i] : i \in moved} \cap inputs)
      /\ rank' = new /\ UNCHANGED <<inputs, top, told, stashed, again>>
  BY <1>1 DEF RankChange
<1> HIDE DEF new
<1>3. SelectiveTyped'
  BY <1>1, <1>2 DEF SelectiveTyped
<1>4. RankingsAgree'
  <2>1. changes' # <<>> => changes'[Len(changes')] = told'
    <3> SUFFICES ASSUME changes' # <<>> PROVE changes'[Len(changes')] = told'
      OBVIOUS
    <3>1. Len(changes') \in 1..Len(changes') /\ Len(changes') + 1 = Len(changes)
      BY <1>1
    <3> QED
      BY <1>1, <1>2, <3>1 DEF RankingsAgree
  <2>2. \A k \in 1..Len(changes') : Injective(changes'[k])
    BY <1>1 DEF RankingsAgree
  <2> QED
    BY <1>1, <1>2, <2>1, <2>2 DEF RankingsAgree
<1>5. HeardAgrees'
  <2>1. ASSUME NEW s \in heard' PROVE s \in inputs /\ \E i \in Places : new[i] = s
    <3>1. CASE s \in heard /\ s \notin {rank[i] : i \in moved}
      BY <3>1 DEF HeardAgrees
    <3>2. CASE s \in {new[i] : i \in moved} /\ s \in inputs
      BY <3>2
    <3> QED
      BY <1>2, <2>1, <3>1, <3>2
  <2>2. ASSUME NEW i \in Places, new[i] \in inputs \ again PROVE new[i] \in heard'
    <3>1. CASE i \in moved
      BY <1>2, <2>2, <3>1
    <3>2. CASE rank[i] = new[i]
      <4>1. new[i] \in heard /\ new[i] # Nobody
        BY <2>2, <3>2 DEF HeardAgrees, SelectiveTyped
      <4>2. \A j \in moved : rank[j] # new[i]
        BY <3>2, <4>1 DEF RankingsAgree, Injective
      <4> QED
        BY <1>2, <4>1, <4>2
    <3> QED
      BY <3>1, <3>2
  <2>3. changes' = <<>> => told = new
    <3> SUFFICES ASSUME changes' = <<>> PROVE told = new
      OBVIOUS
    <3>1. Len(changes') = 0
      OBVIOUS
    <3>2. Len(changes) = 1
      BY <1>1, <3>1
    <3> QED
      BY <1>1, <3>2 DEF RankingsAgree, new
  <2> QED
    BY <1>2, <2>1, <2>2, <2>3 DEF HeardAgrees
<1> QED
  BY <1>3, <1>4, <1>5

LEMMA SelectiveStarts == SelectiveInit => SelectiveInv
<1> SUFFICES ASSUME SelectiveInit PROVE SelectiveInv
  OBVIOUS
<1>1. Empty \in Rankings /\ \A i \in Places : Empty[i] = Nobody
  BY DEF Empty, Rankings
<1>2. /\ inputs = {} /\ heard = {} /\ again = {} /\ rank = Empty /\ top = Empty /\ told = Empty
      /\ stashed = FALSE /\ changes = <<>>
  BY DEF SelectiveInit
<1>3. changes \in Seq(Rankings) /\ Len(changes) = 0
  BY <1>2
<1>4. Injective(Empty)
  BY <1>1 DEF Injective
<1>5. SelectiveTyped
  BY <1>1, <1>2, <1>3 DEF SelectiveTyped
<1>6. RankingsAgree
  <2>1. 1..Len(changes) = {}
    BY <1>3
  <2> QED
    BY <1>1, <1>2, <1>4, <2>1 DEF RankingsAgree
<1>7. HeardAgrees
  BY <1>1, <1>2 DEF HeardAgrees
<1> QED
  BY <1>5, <1>6, <1>7 DEF SelectiveInv

LEMMA SelectiveStays == SelectiveInv /\ [SelectiveNext]_selectiveVars => SelectiveInv'
<1> SUFFICES ASSUME SelectiveInv, [SelectiveNext]_selectiveVars PROVE SelectiveInv'
  OBVIOUS
<1>1. ASSUME NEW s \in Speakers, NEW i \in Places, Louder(s, i) PROVE SelectiveInv'
  <2> DEFINE new == [top EXCEPT ![i] = s]
  <2>1. new \in Rankings /\ \A j \in Places : new[j] = IF j = i THEN s ELSE top[j]
    BY DEF SelectiveInv, SelectiveTyped, Rankings
  <2>2. \A j \in Places : top[j] # s
    BY <1>1, RankedIs, SelectiveAssumption DEF Louder, SelectiveInv, SelectiveTyped
  <2>3. Injective(new) /\ \A j \in Places : new[j] \in inputs \cup {Nobody}
    BY <1>1, <2>1, <2>2 DEF Louder, Injective, SelectiveInv, RankingsAgree
  <2>4. TriggerRankChange(new) /\ UNCHANGED <<inputs, rank, heard, again>>
    BY <1>1 DEF Louder
  <2> HIDE DEF new
  <2> QED
    BY <2>1, <2>3, <2>4, RerankingKeeps
<1>2. CASE Flush
  BY <1>2, RerankingKeeps DEF Flush, SelectiveInv, SelectiveTyped, RankingsAgree
<1>3. CASE UNCHANGED selectiveVars
  BY <1>3 DEF selectiveVars, SelectiveInv, SelectiveTyped, RankingsAgree, HeardAgrees
<1> QED
  BY <1>1, <1>2, <1>3, AddSpeakerKeeps, RemoveSpeakerKeeps, RankChangeKeeps DEF SelectiveNext

LEMMA SelectiveFollows == SelectiveInv => SelectiveTypeOK /\ SelectiveAgrees
<1> SUFFICES ASSUME SelectiveInv PROVE SelectiveTypeOK /\ SelectiveAgrees
  OBVIOUS
<1>1. SelectiveTypeOK
  BY DEF SelectiveInv, SelectiveTyped, SelectiveTypeOK, Rankings
<1>2. Nobody \notin inputs
  BY SelectiveAssumption DEF SelectiveInv, SelectiveTyped
<1>3. \A s : s \in Ranked(rank) <=> s # Nobody /\ \E i \in Places : rank[i] = s
  BY RankedIs DEF SelectiveInv, SelectiveTyped
<1>4. heard \subseteq inputs \cap Ranked(rank) /\ (inputs \cap Ranked(rank)) \ again \subseteq heard
  BY <1>2, <1>3 DEF SelectiveInv, HeardAgrees
<1> QED
  BY <1>1, <1>4 DEF SelectiveInv, RankingsAgree, HeardAgrees, SelectiveAgrees

-----------------------------------------------------------------------------
(* The audio mixer and the video transcoder                                 *)

NodeStates ==
  [engine : BOOLEAN, inputs : SUBSET NodeStreams, mixed : SUBSET NodeStreams,
   remote : SUBSET NodeStreams, unlinked : SUBSET NodeLinks,
   from : [NodeLinks -> NodeStreams \cup {Nothing}], outputs : SUBSET Formats,
   sources : SUBSET Formats, named : SUBSET NodeStreams, orphans : SUBSET NodeStreams]

Single(S) == \A x, y \in S : x = y

NodeTyped == service \in {"mixing", "transcoding"} /\ node \in NodeStates /\ failed \in Nat

\* What the node has, its engine has and it reads; and who may end an input.
InputsBacked ==
  /\ node.mixed = node.inputs /\ node.outputs = node.sources
  /\ node.named \subseteq node.inputs
  /\ \A s \in node.inputs : s \in node.named \/ s \in node.orphans \/ \E l \in NodeLinks : node.from[l] = s
  /\ Mixing => node.inputs \subseteq node.remote
  /\ failed = 0 => node.remote = node.inputs

\* A link is linked up once; a transcoder has one input, one link that waits and one that is linked up.
LinksKept ==
  /\ \A l \in node.unlinked : node.from[l] = Nothing
  /\ ~Mixing =>
       /\ Single(node.inputs) /\ Single(node.unlinked)
       /\ \A k, l \in NodeLinks : node.from[k] # Nothing /\ node.from[l] # Nothing => k = l
       /\ node.engine => \A l \in NodeLinks : node.from[l] # Nothing => node.inputs = {node.from[l]}

NodeInv == NodeTyped /\ InputsBacked /\ LinksKept

\* What adding an input does to the node.
Added(n, s, ok, r) ==
  /\ r \in NodeStates
  /\ r.mixed = (IF ok THEN IF Mixing THEN n.mixed \cup {s} ELSE {s} ELSE n.mixed)
  /\ r.inputs = (IF ok THEN IF Mixing THEN n.inputs \cup {s} ELSE {s} ELSE n.inputs)
  /\ r.remote = (IF ok \/ Mixing THEN n.remote \cup {s} ELSE n.remote \ {s})
  /\ r.engine = n.engine /\ r.unlinked = n.unlinked /\ r.from = n.from /\ r.outputs = n.outputs
  /\ r.sources = n.sources /\ r.named = n.named /\ r.orphans = n.orphans

LEMMA AddedInput ==
  ASSUME NEW n \in NodeStates, NEW s \in NodeStreams, NEW ok \in BOOLEAN
  PROVE  Added(n, s, ok, AddNodeInput(n, s, ok))
BY DEF Added, AddNodeInput, AudioAddInput, SetInput, NodeStates

\* What ending an input does to the node.
Removed(n, s, r) ==
  /\ r \in NodeStates
  /\ r.inputs = (IF s \notin n.inputs THEN n.inputs ELSE IF Mixing THEN n.inputs \ {s} ELSE {})
  /\ r.mixed = (IF s \notin n.inputs THEN n.mixed ELSE IF Mixing THEN n.mixed \ {s} ELSE {})
  /\ r.remote = (IF s \notin n.inputs THEN n.remote
                 ELSE IF Mixing THEN n.remote \ {s} ELSE n.remote \ n.inputs)
  /\ r.engine = n.engine /\ r.unlinked = n.unlinked /\ r.from = n.from /\ r.outputs = n.outputs
  /\ r.sources = n.sources /\ r.named = n.named /\ r.orphans = n.orphans

LEMMA RemovedInput ==
  ASSUME NEW n \in NodeStates, NEW s
  PROVE  Removed(n, s, RemoveNodeInput(n, s))
BY DEF Removed, RemoveNodeInput, AudioRemoveInput, UnsetInput, NodeStates

LEMMA FailCounts ==
  ASSUME failed \in Nat, NEW ok \in BOOLEAN, Fail(ok)
  PROVE  failed' \in Nat /\ (failed' = 0 => ok /\ failed = 0)
BY DEF Fail

LEMMA PublishStreamKeeps ==
  ASSUME NodeInv, NEW s \in NodeStreams, PublishStream(s)
  PROVE  NodeInv'
<1> USE DEF NodeInv, NodeTyped
<1>1. PICK ok \in BOOLEAN :
        /\ Fail(ok)
        /\ IF s \in node.inputs \/ Taken(s) THEN ok /\ UNCHANGED node
           ELSE node' = [AddNodeInput(node, s, ok) EXCEPT !.named = IF ok THEN @ \cup {s} ELSE @]
  BY DEF PublishStream
<1>2. failed' \in Nat /\ (failed' = 0 => ok /\ failed = 0) /\ service' = service
  BY <1>1, FailCounts DEF PublishStream
<1>3. CASE s \in node.inputs \/ Taken(s)
  BY <1>1, <1>2, <1>3 DEF InputsBacked, LinksKept, Mixing
<1>4. CASE s \notin node.inputs /\ ~Taken(s)
  <2> DEFINE r == AddNodeInput(node, s, ok)
  <2>1. node' = [r EXCEPT !.named = IF ok THEN r.named \cup {s} ELSE r.named]
    BY <1>1, <1>4
  <2>2. Added(node, s, ok, r)
    BY AddedInput, Zenon
  <2> HIDE DEF r
  <2>3. ~Mixing => node.inputs = {}
    BY <1>4 DEF Taken
  <2>4. /\ node' \in NodeStates /\ node'.mixed = r.mixed /\ node'.inputs = r.inputs /\ node'.remote = r.remote
        /\ node'.engine = r.engine /\ node'.unlinked = r.unlinked /\ node'.from = r.from
        /\ node'.outputs = r.outputs /\ node'.sources = r.sources /\ node'.orphans = r.orphans
        /\ node'.named = (IF ok THEN node.named \cup {s} ELSE node.named)
    BY <2>1, <2>2 DEF Added, NodeStates
  <2>5. InputsBacked'
    BY <1>2, <2>2, <2>3, <2>4 DEF Added, InputsBacked, Mixing
  <2>6. LinksKept'
    <3>1. ~Mixing => \A l \in NodeLinks : node.from[l] = Nothing
      <4>1. node.engine
        BY DEF PublishStream
      <4> QED
        BY <2>3, <4>1 DEF LinksKept
    <3>2. ~Mixing => \A x, y \in node'.inputs : x = y
      BY <2>2, <2>3, <2>4 DEF Added
    <3>3. /\ node'.unlinked = node.unlinked /\ node'.from = node.from /\ node'.engine = node.engine
      BY <2>2, <2>4 DEF Added
    <3> QED
      BY <1>2, <3>1, <3>2, <3>3 DEF LinksKept, Mixing, Single
  <2> QED
    BY <1>2, <2>4, <2>5, <2>6
<1> QED
  BY <1>3, <1>4

LEMMA PublishLinkKeeps ==
  ASSUME NodeInv, NEW l \in NodeLinks, PublishLink(l)
  PROVE  NodeInv'
<1> USE DEF NodeInv, NodeTyped
<1>1. /\ node' \in NodeStates /\ node'.mixed = node.mixed /\ node'.inputs = node.inputs
      /\ node'.remote = node.remote /\ node'.engine = node.engine /\ node'.from = node.from
      /\ node'.outputs = node.outputs /\ node'.sources = node.sources /\ node'.orphans = node.orphans
      /\ node'.named = node.named /\ service' = service /\ failed' = failed /\ node.from[l] = Nothing
  BY DEF PublishLink, NodeStates
<1>2. /\ node'.unlinked \subseteq node.unlinked \cup {l}
      /\ ~Mixing => node'.unlinked \in {node.unlinked, {l}}
  BY DEF PublishLink, NodeStates
<1>3. InputsBacked'
  BY <1>1 DEF InputsBacked, Mixing
<1>4. LinksKept'
  BY <1>1, <1>2 DEF LinksKept, Mixing, Single
<1> QED
  BY <1>1, <1>3, <1>4
LEMMA LinkupStreamKeeps ==
  ASSUME NodeInv, NEW l \in NodeLinks, NEW s \in NodeStreams, LinkupStream(l, s)
  PROVE  NodeInv'
<1> USE NodeAssumption DEF NodeInv, NodeTyped
<1> DEFINE On(ok) == [AddNodeInput(node, s, ok) EXCEPT !.unlinked = @ \ {l}]
<1>1. PICK ok \in BOOLEAN :
        /\ Fail(ok) /\ (~Mixing /\ l \in node.unlinked /\ node.inputs # {} => ~ok)
        /\ node' = IF l \notin node.unlinked THEN node
                   ELSE IF ~ok THEN On(ok)
                   ELSE IF Mixing THEN [On(ok) EXCEPT !.from[l] = s] ELSE TranscoderLinked(On(ok), l, s)
  BY DEF LinkupStream
<1>2. failed' \in Nat /\ (failed' = 0 => ok /\ failed = 0) /\ service' = service /\ s # Nothing
  BY <1>1, FailCounts DEF LinkupStream
<1>3. CASE l \notin node.unlinked
  BY <1>1, <1>2, <1>3 DEF InputsBacked, LinksKept, Mixing
<1>4. CASE l \in node.unlinked
  <2> DEFINE r == AddNodeInput(node, s, ok)
  <2>1. Added(node, s, ok, r)
    BY AddedInput, Zenon
  <2>2. node' = (IF ~ok THEN [r EXCEPT !.unlinked = r.unlinked \ {l}]
                 ELSE [[r EXCEPT !.unlinked = r.unlinked \ {l}] EXCEPT
                         !.from = IF Mixing THEN [r.from EXCEPT ![l] = s]
                                  ELSE [k \in NodeLinks |-> IF k = l THEN s ELSE Nothing]])
    BY <1>1, <1>4, <2>1 DEF Added, NodeStates, TranscoderLinked
  <2> HIDE DEF r
  <2>3. /\ node' \in NodeStates /\ node'.mixed = r.mixed /\ node'.inputs = r.inputs /\ node'.remote = r.remote
        /\ node'.engine = r.engine /\ node'.unlinked = node.unlinked \ {l}
        /\ node'.outputs = r.outputs /\ node'.sources = r.sources /\ node'.orphans = r.orphans
        /\ node'.named = node.named
        /\ \A k \in NodeLinks : node'.from[k] = IF ~ok THEN node.from[k] ELSE IF k = l THEN s
                                                 ELSE IF Mixing THEN node.from[k] ELSE Nothing
    BY <2>1, <2>2 DEF Added, NodeStates
  <2>4. node.from[l] = Nothing /\ (~Mixing /\ ok => node.inputs = {})
    BY <1>1, <1>4 DEF LinksKept
  <2>5. InputsBacked'
    <3>1. ASSUME NEW x \in node'.inputs
          PROVE  x \in node'.named \/ x \in node'.orphans \/ \E k \in NodeLinks : node'.from[k] = x
      <4>1. CASE ok /\ x = s
        BY <2>3, <4>1
      <4>2. CASE x \in node.inputs /\ (~ok \/ Mixing)
        <5>1. x # Nothing
          BY <4>2 DEF NodeStates
        <5>2. ASSUME NEW k \in NodeLinks, node.from[k] = x PROVE node'.from[k] = x
          BY <2>3, <2>4, <4>2, <5>1, <5>2
        <5> QED
          BY <2>1, <2>3, <4>2, <5>2 DEF Added, InputsBacked
      <4> QED
        BY <2>1, <2>3, <4>1, <4>2 DEF Added
    <3> QED
      BY <1>2, <2>1, <2>3, <2>4, <3>1 DEF Added, InputsBacked, Mixing
  <2>6. LinksKept'
    <3>1. \A k \in node'.unlinked : node'.from[k] = Nothing
      BY <2>3 DEF LinksKept, NodeStates
    <3>2. ~Mixing => Single(node'.unlinked)
      BY <2>3 DEF LinksKept, Single
    <3>3. ~Mixing /\ ok => /\ node'.inputs = {s} /\ \A k \in NodeLinks : node'.from[k] # Nothing => k = l
                           /\ node'.from[l] = s
      BY <2>1, <2>3 DEF Added
    <3>4. ~Mixing /\ ~ok => /\ node'.inputs = node.inputs /\ node'.engine = node.engine
                            /\ \A k \in NodeLinks : node'.from[k] = node.from[k]
      BY <2>1, <2>3 DEF Added
    <3> QED
      BY <1>2, <3>1, <3>2, <3>3, <3>4 DEF LinksKept, Mixing, Single
  <2> QED
    BY <1>2, <2>3, <2>5, <2>6
<1> QED
  BY <1>3, <1>4

LEMMA UnpublishStreamKeeps ==
  ASSUME NodeInv, NEW s \in NodeStreams, UnpublishStream(s)
  PROVE  NodeInv'
<1> USE NodeAssumption DEF NodeInv, NodeTyped
<1> DEFINE r == RemoveNodeInput(node, s)
<1>1. Removed(node, s, r)
  BY RemovedInput, Zenon
<1>2. /\ node' = [[[r EXCEPT !.named = r.named \ {s}] EXCEPT !.orphans = r.orphans \ {s}] EXCEPT
                   !.from = IF ~Mixing /\ s \in node.inputs THEN [l \in NodeLinks |-> Nothing] ELSE r.from]
      /\ service' = service /\ failed' = failed
  BY <1>1 DEF UnpublishStream, Removed, NodeStates
<1> HIDE DEF r
<1>3. /\ node' \in NodeStates /\ node'.mixed = r.mixed /\ node'.inputs = r.inputs /\ node'.remote = r.remote
      /\ node'.engine = node.engine /\ node'.unlinked = node.unlinked
      /\ node'.outputs = node.outputs /\ node'.sources = node.sources
      /\ node'.named = node.named \ {s} /\ node'.orphans = node.orphans \ {s}
      /\ \A l \in NodeLinks : node'.from[l] = IF ~Mixing /\ s \in node.inputs THEN Nothing ELSE node.from[l]
  BY <1>1, <1>2 DEF Removed, NodeStates
<1>4. ~Mixing /\ s \in node.inputs => node.inputs = {s} /\ node'.inputs = {}
  BY <1>1, <1>3 DEF Removed, LinksKept, Single
<1>5. InputsBacked'
  BY <1>1, <1>2, <1>3, <1>4 DEF Removed, InputsBacked, Mixing
<1>6. LinksKept'
  <2>1. ~Mixing /\ s \notin node.inputs => node'.inputs = node.inputs
    BY <1>1, <1>3 DEF Removed
  <2> QED
    BY <1>2, <1>3, <1>4, <2>1 DEF LinksKept, Mixing, Single, NodeStates
<1> QED
  BY <1>2, <1>3, <1>5, <1>6

EndedAs(r, f, m, o, n) ==
  /\ n \in NodeStates /\ n.mixed = r.mixed /\ n.inputs = r.inputs /\ n.remote = r.remote
  /\ n.engine = r.engine /\ n.unlinked = r.unlinked /\ n.outputs = r.outputs
  /\ n.sources = r.sources /\ n.named = m /\ n.orphans = o /\ n.from = f

LEMMA Ended ==
  ASSUME NEW r \in NodeStates, NEW f \in [NodeLinks -> NodeStreams \cup {Nothing}],
         NEW m \in SUBSET NodeStreams, NEW o \in SUBSET NodeStreams
  PROVE  EndedAs(r, f, m, o, [[[r EXCEPT !.from = f] EXCEPT !.named = m] EXCEPT !.orphans = o])
BY DEF EndedAs, NodeStates

\* An input that goes with the link it came by.
LEMMA LinkEndedKeeps ==
  ASSUME NodeInv, NEW l \in NodeLinks, node.from[l] # Nothing, UNCHANGED <<service, failed>>,
         NEW gone \in SUBSET NodeStreams, gone \subseteq {node.from[l]},
         node' = [[[RemoveNodeInput(node, node.from[l]) EXCEPT
                     !.from = [node.from EXCEPT ![l] = Nothing]] EXCEPT
                     !.named = node.named \ {node.from[l]}] EXCEPT !.orphans = node.orphans \ gone]
  PROVE  NodeInv'
<1> USE NodeAssumption DEF NodeInv, NodeTyped
<1> DEFINE s == node.from[l]
           r == RemoveNodeInput(node, s)
<1>1. Removed(node, s, r)
  BY RemovedInput, Zenon
<1>2. s \in NodeStreams
  BY DEF NodeStates
<1> HIDE DEF r
<1>3. node' = [[[r EXCEPT !.from = [node.from EXCEPT ![l] = Nothing]] EXCEPT
                  !.named = node.named \ {s}] EXCEPT !.orphans = node.orphans \ gone]
  BY DEF r
<1> HIDE DEF s
<1>4. /\ node' \in NodeStates /\ node'.mixed = r.mixed /\ node'.inputs = r.inputs /\ node'.remote = r.remote
      /\ node'.engine = node.engine /\ node'.unlinked = node.unlinked
      /\ node'.outputs = node.outputs /\ node'.sources = node.sources
      /\ node'.named = node.named \ {s} /\ node'.orphans = node.orphans \ gone
      /\ \A k \in NodeLinks : node'.from[k] = IF k = l THEN Nothing ELSE node.from[k]
  <2> DEFINE from == [node.from EXCEPT ![l] = Nothing]
             named == node.named \ {s}
             orphans == node.orphans \ gone
  <2>1. /\ from \in [NodeLinks -> NodeStreams \cup {Nothing}]
        /\ \A k \in NodeLinks : from[k] = IF k = l THEN Nothing ELSE node.from[k]
    BY DEF NodeStates
  <2>2. named \subseteq NodeStreams /\ orphans \subseteq NodeStreams
    BY DEF NodeStates
  <2>3. node' = [[[r EXCEPT !.from = from] EXCEPT !.named = named] EXCEPT !.orphans = orphans]
    BY <1>3
  <2> HIDE DEF from, named, orphans
  <2>4. EndedAs(r, from, named, orphans,
                [[[r EXCEPT !.from = from] EXCEPT !.named = named] EXCEPT !.orphans = orphans])
    <3>1. r \in NodeStates
      BY <1>1 DEF Removed
    <3>2. named \in SUBSET NodeStreams /\ orphans \in SUBSET NodeStreams
      BY <2>2
    <3> QED
      BY <2>1, <3>1, <3>2, Ended, Zenon
  <2>5. EndedAs(r, from, named, orphans, node')
    BY <2>3, <2>4, Zenon
  <2> QED
    BY <1>1, <2>1, <2>5 DEF Removed, EndedAs, named, orphans
<1>5. node.from[l] = s /\ gone \subseteq {s}
  BY DEF s
<1>6. ~Mixing => \A k \in NodeLinks : node'.from[k] = Nothing
  BY <1>4, <1>5 DEF LinksKept
<1>7. ~Mixing /\ s \in node.inputs => node.inputs = {s} /\ node'.inputs = {}
  BY <1>1, <1>4 DEF Removed, LinksKept, Single
<1>8. s \notin node'.inputs /\ node'.inputs \subseteq node.inputs
  BY <1>1, <1>4 DEF Removed
<1>9. InputsBacked'
  <2>1. ASSUME NEW x \in node'.inputs
        PROVE  x \in node'.named \/ x \in node'.orphans \/ \E k \in NodeLinks : node'.from[k] = x
    <3>1. x # s /\ x \in node.inputs
      BY <1>8
    <3>2. ASSUME NEW k \in NodeLinks, node.from[k] = x PROVE node'.from[k] = x
      BY <1>4, <1>5, <3>1, <3>2
    <3> QED
      BY <1>4, <1>5, <3>1, <3>2 DEF InputsBacked
  <2>2. node'.mixed = node'.inputs
    BY <1>1, <1>4 DEF Removed, InputsBacked
  <2>3. node'.named \subseteq node'.inputs
    BY <1>1, <1>4, <1>7 DEF Removed, InputsBacked
  <2>4. /\ Mixing => node'.inputs \subseteq node'.remote
        /\ failed = 0 => node'.remote = node'.inputs
    BY <1>1, <1>4, <1>7 DEF Removed, InputsBacked
  <2> QED
    BY <1>4, <2>1, <2>2, <2>3, <2>4 DEF InputsBacked, Mixing
<1>10. LinksKept'
  <2>1. \A k \in node'.unlinked : node'.from[k] = Nothing
    BY <1>4 DEF LinksKept, NodeStates
  <2>2. ~Mixing => Single(node'.inputs) /\ Single(node'.unlinked)
    BY <1>4, <1>8 DEF LinksKept, Single
  <2> QED
    BY <1>6, <2>1, <2>2 DEF LinksKept, Mixing
<1> QED
  BY <1>4, <1>9, <1>10
LEMMA UnpublishLinkKeeps ==
  ASSUME NodeInv, NEW l \in NodeLinks, UnpublishLink(l)
  PROVE  NodeInv'
<1>1. CASE node.from[l] = Nothing
  BY <1>1 DEF UnpublishLink, NodeInv, NodeTyped, InputsBacked, LinksKept, Mixing
<1>2. CASE node.from[l] # Nothing
  <2> DEFINE s == node.from[l]
             r == RemoveNodeInput(node, s)
  <2>1. s \in NodeStreams /\ {s} \in SUBSET NodeStreams
    BY <1>2 DEF NodeInv, NodeTyped, NodeStates
  <2>2. Removed(node, s, r)
    BY RemovedInput, Zenon DEF NodeInv, NodeTyped
  <2>3. node' = [[[r EXCEPT !.from = [node.from EXCEPT ![l] = Nothing]] EXCEPT
                   !.named = node.named \ {s}] EXCEPT !.orphans = node.orphans \ {s}]
    BY <1>2, <2>2 DEF UnpublishLink, Removed, NodeStates
  <2>4. UNCHANGED <<service, failed>>
    BY DEF UnpublishLink
  <2> QED
    BY <1>2, <2>1, <2>3, <2>4, LinkEndedKeeps
<1> QED
  BY <1>1, <1>2

LEMMA CutoffLinkKeeps ==
  ASSUME NodeInv, NEW l \in NodeLinks, CutoffLink(l)
  PROVE  NodeInv'
<1> USE NodeAssumption
<1> DEFINE s == node.from[l]
<1>1. s # Nothing /\ s \in NodeStreams /\ UNCHANGED <<service, failed>>
  BY DEF CutoffLink, NodeInv, NodeTyped, NodeStates
<1>2. CASE Mixing
  <2> USE DEF NodeInv, NodeTyped
  <2>1. node' = [[node EXCEPT !.from = [node.from EXCEPT ![l] = Nothing]] EXCEPT
                  !.orphans = IF s \in node.inputs THEN node.orphans \cup {s} ELSE node.orphans]
    BY <1>2 DEF CutoffLink, NodeStates
  <2>2. /\ node' \in NodeStates /\ node'.mixed = node.mixed /\ node'.inputs = node.inputs
        /\ node'.remote = node.remote /\ node'.engine = node.engine /\ node'.unlinked = node.unlinked
        /\ node'.outputs = node.outputs /\ node'.sources = node.sources /\ node'.named = node.named
        /\ node.orphans \subseteq node'.orphans /\ (s \in node.inputs => s \in node'.orphans)
        /\ \A k \in NodeLinks : node'.from[k] = IF k = l THEN Nothing ELSE node.from[k]
    <3> DEFINE from == [node.from EXCEPT ![l] = Nothing]
               orphans == IF s \in node.inputs THEN node.orphans \cup {s} ELSE node.orphans
    <3>1. /\ from \in [NodeLinks -> NodeStreams \cup {Nothing}]
          /\ \A k \in NodeLinks : from[k] = IF k = l THEN Nothing ELSE node.from[k]
      BY DEF NodeStates
    <3>2. orphans \in SUBSET NodeStreams /\ node.orphans \subseteq orphans
          /\ (s \in node.inputs => s \in orphans)
      BY <1>1 DEF NodeStates
    <3>3. node' = [[node EXCEPT !.from = from] EXCEPT !.orphans = orphans]
      BY <2>1
    <3> HIDE DEF from, orphans
    <3>4. /\ node' \in NodeStates /\ node'.mixed = node.mixed /\ node'.inputs = node.inputs
          /\ node'.remote = node.remote /\ node'.engine = node.engine /\ node'.unlinked = node.unlinked
          /\ node'.outputs = node.outputs /\ node'.sources = node.sources /\ node'.named = node.named
          /\ node'.from = from /\ node'.orphans = orphans
      BY <3>1, <3>2, <3>3 DEF NodeStates
    <3> QED
      BY <3>1, <3>2, <3>4
  <2>3. InputsBacked'
    <3>1. ASSUME NEW x \in node'.inputs
          PROVE  x \in node'.named \/ x \in node'.orphans \/ \E k \in NodeLinks : node'.from[k] = x
      BY <2>2 DEF InputsBacked
    <3> QED
      BY <1>1, <2>2, <3>1 DEF InputsBacked, Mixing
  <2>4. LinksKept'
    <3>1. service' = "mixing"
      BY <1>1, <1>2 DEF Mixing
    <3>2. ASSUME NEW k \in node'.unlinked PROVE node'.from[k] = Nothing
      <4>1. k \in NodeLinks /\ node.from[k] = Nothing
        BY <2>2, <3>2 DEF LinksKept, NodeStates
      <4> QED
        BY <2>2, <4>1
    <3> QED
      BY <3>1, <3>2 DEF LinksKept, Mixing
  <2> QED
    BY <1>1, <2>2, <2>3, <2>4
<1>3. CASE ~Mixing
  <2> DEFINE r == RemoveNodeInput(node, s)
  <2>1. Removed(node, s, r)
    BY RemovedInput, Zenon DEF NodeInv, NodeTyped
  <2>2. r \in NodeStates /\ r.named = node.named /\ r.from = node.from /\ r.orphans = node.orphans
    BY <2>1 DEF Removed
  <2>3. node' = [[r EXCEPT !.from = [node.from EXCEPT ![l] = Nothing]] EXCEPT !.named = node.named \ {s}]
    BY <1>3, <2>2 DEF CutoffLink, TranscoderCutoff, NodeStates
  <2>4. node' = [[[r EXCEPT !.from = [node.from EXCEPT ![l] = Nothing]] EXCEPT
                   !.named = node.named \ {s}] EXCEPT !.orphans = node.orphans \ {}]
    <3> HIDE DEF r
    <3> QED
      BY <2>2, <2>3 DEF NodeStates
  <2>5. {} \in SUBSET NodeStreams /\ {} \subseteq {s}
    OBVIOUS
  <2> QED
    BY <1>1, <2>4, <2>5, LinkEndedKeeps
<1> QED
  BY <1>2, <1>3

\* The outputs of a node are apart from its inputs.
LEMMA OutputsKeep ==
  ASSUME NodeInv, service' = service, failed' \in Nat, failed' = 0 => failed = 0,
         NEW fs \in SUBSET Formats, node' = [[node EXCEPT !.outputs = fs] EXCEPT !.sources = fs]
  PROVE  NodeInv'
<1> USE DEF NodeInv, NodeTyped
<1>1. /\ node' \in NodeStates /\ node'.mixed = node.mixed /\ node'.inputs = node.inputs
      /\ node'.remote = node.remote /\ node'.engine = node.engine /\ node'.unlinked = node.unlinked
      /\ node'.outputs = fs /\ node'.sources = fs /\ node'.named = node.named
      /\ node'.orphans = node.orphans /\ node'.from = node.from
  BY DEF NodeStates
<1>2. InputsBacked'
  BY <1>1 DEF InputsBacked, Mixing
<1>3. LinksKept'
  BY <1>1 DEF LinksKept, Mixing
<1> QED
  BY <1>1, <1>2, <1>3

LEMMA GenerateOutputKeeps ==
  ASSUME NodeInv, NEW f \in Formats, GenerateOutput(f)
  PROVE  NodeInv'
<1>1. PICK ok \in BOOLEAN : Fail(ok) /\ node' = IF ok THEN AddOutput(node, f) ELSE node
  BY DEF GenerateOutput
<1>2. failed' \in Nat /\ (failed' = 0 => failed = 0) /\ service' = service
  BY <1>1, FailCounts DEF GenerateOutput, NodeInv, NodeTyped
<1>3. node.outputs = node.sources /\ node.outputs \subseteq Formats /\ node \in NodeStates
  BY DEF NodeInv, NodeTyped, InputsBacked, NodeStates
<1>4. \E fs \in SUBSET Formats : node' = [[node EXCEPT !.outputs = fs] EXCEPT !.sources = fs]
  <2>1. CASE ok
    <3>1. node.outputs \cup {f} \in SUBSET Formats
      BY <1>3
    <3>2. node' = [[node EXCEPT !.outputs = node.outputs \cup {f}] EXCEPT !.sources = node.outputs \cup {f}]
      BY <1>1, <1>3, <2>1 DEF AddOutput, NodeStates
    <3> QED
      BY <3>1, <3>2
  <2>2. CASE ~ok
    <3>1. node' = [[node EXCEPT !.outputs = node.outputs] EXCEPT !.sources = node.outputs]
      BY <1>1, <1>3, <2>2 DEF NodeStates
    <3> QED
      BY <1>3, <3>1
  <2> QED
    BY <2>1, <2>2
<1> QED
  BY <1>2, <1>4, OutputsKeep

LEMMA DegenerateOutputKeeps ==
  ASSUME NodeInv, NEW f \in Formats, DegenerateOutput(f)
  PROVE  NodeInv'
<1>1. failed' \in Nat /\ (failed' = 0 => failed = 0) /\ service' = service
  BY DEF DegenerateOutput, NodeInv, NodeTyped
<1>2. node.outputs = node.sources /\ node.outputs \subseteq Formats /\ node \in NodeStates
  BY DEF NodeInv, NodeTyped, InputsBacked, NodeStates
<1>3. node' = [[node EXCEPT !.outputs = node.outputs \ {f}] EXCEPT !.sources = node.outputs \ {f}]
  BY <1>2 DEF DegenerateOutput, RemoveOutput, NodeStates
<1> QED
  BY <1>1, <1>2, <1>3, OutputsKeep

LEMMA DeinitNodeKeeps ==
  ASSUME NodeInv, DeinitNode
  PROVE  NodeInv'
<1> USE DEF NodeInv, NodeTyped
<1>1. /\ node' \in NodeStates /\ node'.mixed = {} /\ node'.inputs = {}
      /\ node'.remote = node.remote \ node.inputs /\ node'.engine = FALSE
      /\ node'.unlinked = node.unlinked /\ node'.outputs = {} /\ node'.sources = {}
      /\ node'.named = {} /\ node'.orphans = {} /\ node'.from = node.from
      /\ service' = service /\ failed' = failed
  BY DEF DeinitNode, NodeStates
<1>2. InputsBacked'
  BY <1>1 DEF InputsBacked, Mixing
<1>3. LinksKept'
  BY <1>1 DEF LinksKept, Mixing, Single
<1> QED
  BY <1>1, <1>2, <1>3

LEMMA NodeStarts == NodeInit => NodeInv
<1> SUFFICES ASSUME NodeInit PROVE NodeInv
  OBVIOUS
<1>1. NodeTyped
  BY DEF NodeInit, NodeTyped, NodeStates
<1>2. InputsBacked /\ LinksKept
  BY DEF NodeInit, InputsBacked, LinksKept, Single
<1> QED
  BY <1>1, <1>2 DEF NodeInv

LEMMA NodeStays == NodeInv /\ [NodeNext]_nodeVars => NodeInv'
<1> SUFFICES ASSUME NodeInv, [NodeNext]_nodeVars PROVE NodeInv'
  OBVIOUS
<1>1. CASE UNCHANGED nodeVars
  BY <1>1 DEF nodeVars, NodeInv, NodeTyped, InputsBacked, LinksKept, Mixing
<1>2. CASE \E s \in NodeStreams :
             PublishStream(s) \/ UnpublishStream(s) \/ \E l \in NodeLinks : LinkupStream(l, s)
  BY <1>2, PublishStreamKeeps, UnpublishStreamKeeps, LinkupStreamKeeps
<1>3. CASE \E l \in NodeLinks : PublishLink(l) \/ UnpublishLink(l) \/ CutoffLink(l)
  BY <1>3, PublishLinkKeeps, UnpublishLinkKeeps, CutoffLinkKeeps
<1>4. CASE \E f \in Formats : GenerateOutput(f) \/ DegenerateOutput(f)
  BY <1>4, GenerateOutputKeeps, DegenerateOutputKeeps
<1> QED
  BY <1>1, <1>2, <1>3, <1>4, DeinitNodeKeeps DEF NodeNext

LEMMA SingleCounts ==
  ASSUME NEW S, Single(S)
  PROVE  Cardinality(S) <= 1
<1>1. CASE S = {}
  BY <1>1, FS_EmptySet
<1>2. ASSUME NEW x \in S PROVE Cardinality(S) <= 1
  <2>1. S = {x}
    BY DEF Single
  <2> QED
    BY <2>1, FS_Singleton
<1> QED
  BY <1>1, <1>2

LEMMA NodeFollows == NodeInv => NodeTypeOK /\ NodeAgrees
<1> SUFFICES ASSUME NodeInv PROVE NodeTypeOK /\ NodeAgrees
  OBVIOUS
<1>1. NodeTypeOK
  BY DEF NodeInv, NodeTyped, NodeStates, NodeTypeOK
<1>2. node.inputs \subseteq node.named \cup {node.from[l] : l \in NodeLinks} \cup node.orphans
  BY DEF NodeInv, InputsBacked
<1>3. ~Mixing => Cardinality(node.inputs) <= 1 /\ Cardinality(node.unlinked) <= 1
  BY SingleCounts DEF NodeInv, LinksKept
<1> QED
  BY <1>1, <1>2, <1>3 DEF NodeInv, InputsBacked, LinksKept, NodeAgrees

-----------------------------------------------------------------------------

\* Whatever inputs, outputs, links and levels they are given, in any order and whatever their
\* engines refuse, the lists of the nodes that process media agree with what is mixed, read and
\* generated behind them: selectiveMixer.js and its ranker, audio/index.js, vtranscoder.js.
THEOREM NodesKeepInputs == SelectiveSpec /\ NodeSpec => []MediaInputsAgree
<1>1. SelectiveInit /\ NodeInit => SelectiveInv /\ NodeInv
  BY SelectiveStarts, NodeStarts
<1>2. SelectiveInv /\ [SelectiveNext]_selectiveVars => SelectiveInv'
  BY SelectiveStays
<1>3. NodeInv /\ [NodeNext]_nodeVars => NodeInv'
  BY NodeStays
<1>4. SelectiveInv /\ NodeInv => MediaInputsAgree
  BY SelectiveFollows, NodeFollows DEF MediaInputsAgree
<1> QED
  BY <1>1, <1>2, <1>3, <1>4, PTL DEF SelectiveSpec, NodeSpec

-----------------------------------------------------------------------------
(* The controls of streams                                                  *)

Distinct(l) == \A i, j \in DOMAIN l : l[i] = l[j] => i = j

Opinions == {"keep", "pause", "play"}
RequestStates ==
  [step : {"new", "mixing", "muting", "answered"}, stream : ControlStreams \cup {NoSource},
   view : ControlViews \cup {NoView}, waits : SUBSET MixTracks, mute : Opinions]
Calls == [of : Requests, stream : ControlStreams, mute : Opinions]
AirStates == [told : SUBSET ControlStreams, node : SUBSET ControlStreams, lost : SUBSET ControlStreams]

StreamsTyped ==
  /\ here \subseteq ControlStreams /\ listed \in [ControlStreams -> Seq(ControlViews)]
  /\ mixed \in [ControlStreams -> SUBSET (MixTracks \X ControlViews)]
  /\ request \in [Requests -> RequestStates] /\ onOffs \in Seq(Calls) /\ offAir \in AirStates

\* A request that waits for a track has a stream and a view, and is not at its mutes yet.
RequestsKept ==
  \A r \in Requests : request[r].waits # {} =>
    /\ request[r].step \in {"mixing", "answered"}
    /\ request[r].view \in ControlViews /\ request[r].stream \in ControlStreams

\* Mutes are told to the conference and to the node at once, but for calls that were lost.
MutesKept == \A s \in here \ offAir.lost : s \in offAir.told <=> s \in offAir.node

StreamsInv == StreamsTyped /\ RequestsKept /\ ViewsAgree /\ MutesKept

\* What is in a list of views once one is taken out, and once one is put in.
Shorter(l, v, d) ==
  /\ d \in Seq(ControlViews) /\ Distinct(d) /\ ~Contains(d, v)
  /\ \A w : Contains(d, w) => Contains(l, w)

LEMMA OnFrom ==
  ASSUME NEW S, NEW l \in Seq(S), NEW m \in 1..(Len(l) + 1)
  PROVE  /\ SubSeq(l, m, Len(l)) \in Seq(S)
         /\ Len(SubSeq(l, m, Len(l))) = Len(l) - m + 1
         /\ \A i \in 1..(Len(l) - m + 1) : SubSeq(l, m, Len(l))[i] = l[m + i - 1]
BY SubSeqProperties

LEMMA Joined ==
  ASSUME NEW S, NEW a \in Seq(S), NEW b \in Seq(S)
  PROVE  /\ a \o b \in Seq(S) /\ Len(a \o b) = Len(a) + Len(b)
         /\ \A i \in 1..(Len(a) + Len(b)) :
              (a \o b)[i] = IF i <= Len(a) THEN a[i] ELSE b[i - Len(a)]
BY ConcatProperties

LEMMA ViewsAfter ==
  ASSUME NEW l \in Seq(ControlViews), NEW k \in 1..Len(l)
  PROVE  /\ SubSeq(l, k + 1, Len(l)) \in Seq(ControlViews)
         /\ Len(SubSeq(l, k + 1, Len(l))) = Len(l) - k
         /\ \A i \in 1..(Len(l) - k) : SubSeq(l, k + 1, Len(l))[i] = l[i + k]
<1> DEFINE m == k + 1
           t == SubSeq(l, m, Len(l))
<1>1. m \in 1..(Len(l) + 1) /\ Len(l) \in Nat /\ k \in Nat
  OBVIOUS
<1> HIDE DEF m
<1>2. /\ t \in Seq(ControlViews) /\ Len(t) = Len(l) - m + 1
      /\ \A i \in 1..(Len(l) - m + 1) : t[i] = l[m + i - 1]
  BY <1>1, OnFrom
<1> HIDE DEF t
<1>3. Len(l) - m + 1 = Len(l) - k /\ \A i \in Int : m + i - 1 = i + k
  BY <1>1 DEF m
<1>4. ASSUME NEW i \in 1..(Len(l) - k) PROVE t[i] = l[i + k]
  <2>1. i \in Int /\ i \in 1..(Len(l) - m + 1)
    BY <1>1, <1>3
  <2>2. t[i] = l[m + i - 1] /\ m + i - 1 = i + k
    BY <1>2, <1>3, <2>1, Zenon
  <2> QED
    BY <2>2, Zenon
<1>5. t \in Seq(ControlViews) /\ Len(t) = Len(l) - k
  BY <1>2, <1>3
<1> QED
  BY <1>4, <1>5, Zenon DEF t, m

LEMMA ViewDropped ==
  ASSUME NEW l \in Seq(ControlViews), Distinct(l), NEW v
  PROVE  Shorter(l, v, DropView(l, v))
<1> DEFINE d == DropView(l, v)
<1>1. Len(l) \in Nat /\ DOMAIN l = 1..Len(l) /\ \A i \in 1..Len(l) : l[i] \in ControlViews
  OBVIOUS
<1>2. CASE Contains(l, v)
  <2> DEFINE k == CHOOSE i \in DOMAIN l : l[i] = v
  <2>1. k \in 1..Len(l) /\ l[k] = v
    BY <1>1, <1>2 DEF Contains
  <2>2. d = SubSeq(l, 1, k - 1) \o SubSeq(l, k + 1, Len(l))
    BY <1>2 DEF DropView, RemoveAt
  <2> HIDE DEF k, d
  <2>3. /\ SubSeq(l, 1, k - 1) \in Seq(ControlViews) /\ Len(SubSeq(l, 1, k - 1)) = k - 1
        /\ \A i \in 1..(k - 1) : SubSeq(l, 1, k - 1)[i] = l[i]
    BY <1>1, <2>1
  <2>4. /\ SubSeq(l, k + 1, Len(l)) \in Seq(ControlViews)
        /\ Len(SubSeq(l, k + 1, Len(l))) = Len(l) - k
        /\ \A i \in 1..(Len(l) - k) : SubSeq(l, k + 1, Len(l))[i] = l[i + k]
    BY <2>1, ViewsAfter
  <2> DEFINE a == SubSeq(l, 1, k - 1)
             b == SubSeq(l, k + 1, Len(l))
  <2> HIDE DEF a, b
  <2>5. d = a \o b /\ a \in Seq(ControlViews) /\ b \in Seq(ControlViews)
        /\ Len(a) = k - 1 /\ Len(b) = Len(l) - k
        /\ (\A i \in 1..(k - 1) : a[i] = l[i]) /\ \A i \in 1..(Len(l) - k) : b[i] = l[i + k]
    BY <2>2, <2>3, <2>4 DEF a, b
  <2>6. /\ d \in Seq(ControlViews) /\ Len(d) = Len(l) - 1
        /\ \A i \in 1..(Len(l) - 1) : d[i] = IF i < k THEN l[i] ELSE l[i + 1]
    <3>1. d \in Seq(ControlViews) /\ Len(d) = Len(a) + Len(b)
      <4>1. a \in Seq(ControlViews) /\ b \in Seq(ControlViews) /\ d = a \o b
        BY <2>5
      <4> QED
        BY <4>1, Joined
    <3>2. ASSUME NEW i \in 1..(Len(l) - 1) PROVE d[i] = IF i < k THEN l[i] ELSE l[i + 1]
      <4>1. i \in 1..(Len(a) + Len(b)) /\ d[i] = IF i <= Len(a) THEN a[i] ELSE b[i - Len(a)]
        <5>1. i \in 1..(Len(a) + Len(b))
          BY <1>1, <2>1, <2>5
        <5>2. a \in Seq(ControlViews) /\ b \in Seq(ControlViews)
          BY <2>5
        <5>3. \A j \in 1 .. Len(a) + Len(b) : (a \o b)[j] = IF j <= Len(a) THEN a[j] ELSE b[j - Len(a)]
          BY <5>2, Joined
        <5> QED
          BY <2>5, <5>1, <5>3
      <4>2. CASE i < k
        BY <1>1, <2>1, <2>5, <4>1, <4>2
      <4>3. CASE ~(i < k)
        <5>1. i - (k - 1) \in 1..(Len(l) - k) /\ d[i] = b[i - (k - 1)] /\ (i - (k - 1)) + k = i + 1
          BY <1>1, <2>1, <2>5, <4>1, <4>3
        <5>2. d[i] = l[(i - (k - 1)) + k]
          BY <2>5, <5>1
        <5> QED
          BY <4>3, <5>1, <5>2
      <4> QED
        BY <4>2, <4>3
    <3> QED
      BY <1>1, <2>1, <2>5, <3>1, <3>2
  <2>7. \A i \in 1..(Len(l) - 1) : \E j \in 1..Len(l) : j # k /\ d[i] = l[j] /\ j = IF i < k THEN i ELSE i + 1
    BY <1>1, <2>1, <2>6
  <2>8. Distinct(d)
    <3> SUFFICES ASSUME NEW i \in DOMAIN d, NEW j \in DOMAIN d, d[i] = d[j] PROVE i = j
      BY DEF Distinct
    <3>1. i \in 1..(Len(l) - 1) /\ j \in 1..(Len(l) - 1)
      BY <2>6
    <3>2. PICK i1 \in 1..Len(l) : d[i] = l[i1] /\ i1 = IF i < k THEN i ELSE i + 1
      BY <2>7, <3>1
    <3>3. PICK j1 \in 1..Len(l) : d[j] = l[j1] /\ j1 = IF j < k THEN j ELSE j + 1
      BY <2>7, <3>1
    <3>4. i1 = j1
      BY <1>1, <3>2, <3>3 DEF Distinct
    <3> QED
      BY <2>1, <3>1, <3>2, <3>3, <3>4
  <2>9. ~Contains(d, v) /\ \A w : Contains(d, w) => Contains(l, w)
    <3>1. \A j \in 1..Len(l) : l[j] = v => j = k
      BY <1>1, <2>1 DEF Distinct
    <3> QED
      BY <2>6, <2>7, <3>1 DEF Contains
  <2> QED
    BY <2>6, <2>8, <2>9 DEF Shorter, d
<1>3. CASE ~Contains(l, v) /\ l = <<>>
  BY <1>3 DEF DropView, Shorter, Contains, Distinct
<1>4. CASE ~Contains(l, v) /\ l # <<>>
  <2>1. d = SubSeq(l, 1, Len(l) - 1) /\ Len(l) > 0
    BY <1>1, <1>4 DEF DropView, Front
  <2> HIDE DEF d
  <2>2. /\ d \in Seq(ControlViews) /\ Len(d) = Len(l) - 1 /\ DOMAIN d = 1..(Len(l) - 1)
        /\ \A i \in 1..(Len(l) - 1) : d[i] = l[i] /\ i \in 1..Len(l)
    BY <1>1, <2>1
  <2>3. Distinct(d)
    BY <1>1, <2>2 DEF Distinct
  <2>4. \A w : Contains(d, w) => Contains(l, w)
    BY <2>2 DEF Contains
  <2> QED
    BY <1>4, <2>2, <2>3, <2>4 DEF Shorter, d
<1> QED
  BY <1>2, <1>3, <1>4

LEMMA ViewAdded ==
  ASSUME NEW l \in Seq(ControlViews), Distinct(l), NEW v \in ControlViews
  PROVE  /\ AddView(l, v) \in Seq(ControlViews) /\ Distinct(AddView(l, v))
         /\ \A w : Contains(AddView(l, v), w) <=> Contains(l, w) \/ w = v
<1>1. CASE Contains(l, v)
  BY <1>1 DEF AddView
<1>2. CASE ~Contains(l, v)
  <2> DEFINE d == Append(l, v)
  <2>1. AddView(l, v) = d
    BY <1>2 DEF AddView
  <2>2. /\ d \in Seq(ControlViews) /\ Len(l) \in Nat /\ Len(d) = Len(l) + 1 /\ d[Len(d)] = v
        /\ DOMAIN d = 1..Len(d) /\ DOMAIN l = 1..Len(l) /\ \A i \in 1..Len(l) : d[i] = l[i]
    OBVIOUS
  <2> HIDE DEF d
  <2>3. \A i \in 1..Len(d) : i = Len(d) \/ i \in 1..Len(l)
    BY <2>2
  <2>4. \A i \in 1..Len(l) : l[i] # v
    BY <1>2 DEF Contains
  <2>5. Distinct(d)
    BY <2>2, <2>3, <2>4 DEF Distinct
  <2>6. \A w : Contains(d, w) <=> Contains(l, w) \/ w = v
    <3>1. Len(d) \in 1..Len(d) /\ 1..Len(l) \subseteq 1..Len(d)
      BY <2>2
    <3> QED
      BY <2>2, <2>3, <3>1 DEF Contains
  <2> QED
    BY <2>1, <2>2, <2>5, <2>6
<1> QED
  BY <1>1, <1>2

\* What begins a request about a stream leaves of the request.
Begun(r, req, q) ==
  /\ q \in RequestStates /\ request' = [request EXCEPT ![r] = q] /\ onOffs' \in Seq(Calls)
  /\ q.stream = req.stream /\ q.view = req.view /\ q.waits = req.waits
  /\ q.waits # {} => q.step = "mixing"

LEMMA BeginSets ==
  ASSUME StreamsTyped, NEW r \in Requests, NEW req \in RequestStates, req.step = "mixing",
         req.stream \in ControlStreams, Begin(r, req)
  PROVE  \E q : Begun(r, req, q)
<1>1. CASE req.waits # {}
  <2>1. request' = [request EXCEPT ![r] = req] /\ onOffs' = onOffs
    BY <1>1 DEF Begin
  <2> QED
    BY <2>1 DEF Begun, StreamsTyped
<1>2. CASE req.waits = {}
  <2> DEFINE q == [req EXCEPT !.step = IF req.mute = "keep" THEN "answered" ELSE "muting"]
             c == [of |-> r, stream |-> req.stream, mute |-> req.mute]
  <2>1. SetStreamMute(r, req)
    BY <1>2 DEF Begin
  <2>2. q \in RequestStates /\ q.stream = req.stream /\ q.view = req.view /\ q.waits = {}
    BY <1>2 DEF RequestStates
  <2>3. request' = [request EXCEPT ![r] = q]
    BY <2>1 DEF SetStreamMute
  <2>4. onOffs' \in Seq(Calls)
    <3>1. c \in Calls
      BY DEF Calls, RequestStates
    <3>2. onOffs' = onOffs \/ onOffs' = Append(onOffs, c)
      BY <2>1 DEF SetStreamMute
    <3> HIDE DEF c
    <3> QED
      BY <3>1, <3>2 DEF StreamsTyped
  <2> HIDE DEF q
  <2> QED
    BY <1>2, <2>2, <2>3, <2>4 DEF Begun
<1> QED
  BY <1>1, <1>2

\* What taking a stream out of a view leaves of its lists.
Unmixed(s, v) ==
  /\ listed' \in [ControlStreams -> Seq(ControlViews)]
  /\ mixed' \in [ControlStreams -> SUBSET (MixTracks \X ControlViews)]
  /\ \A x \in ControlStreams \ {s} : listed'[x] = listed[x] /\ mixed'[x] = mixed[x]
  /\ Distinct(listed'[s])
  /\ \A w : Contains(listed'[s], w) => Contains(listed[s], w) /\ w # v
  /\ \A t, w : <<t, w>> \in mixed'[s] <=> <<t, w>> \in mixed[s] /\ w # v
  /\ \A x \in unlisted : x[1] # s => x \in unlisted'
  /\ \A w : w # v /\ <<s, w>> \in unlisted => <<s, w>> \in unlisted'
  /\ \A w : w # v /\ Contains(listed[s], w) => Contains(listed'[s], w) \/ <<s, w>> \in unlisted'

LEMMA DoUnmixSets ==
  ASSUME StreamsTyped, NEW s \in ControlStreams, Distinct(listed[s]),
         NEW v \in ControlViews \cup {NoView}, DoUnmix(s, v)
  PROVE  Unmixed(s, v)
<1> USE ControlAssumption DEF StreamsTyped
<1>0. listed[s] \in Seq(ControlViews) /\ mixed[s] \in SUBSET (MixTracks \X ControlViews)
  OBVIOUS
<1>1. CASE v = NoView
  <2>1. listed' = listed /\ mixed' = mixed /\ unlisted' = unlisted
    BY <1>1 DEF DoUnmix
  <2>2. \A w : Contains(listed[s], w) => w # v
    BY <1>0, <1>1 DEF Contains
  <2>3. \A t, w : <<t, w>> \in mixed[s] => w # v
    BY <1>0, <1>1
  <2> QED
    BY <2>1, <2>2, <2>3 DEF Unmixed
<1>2. CASE v # NoView
  <2> DEFINE d == DropView(listed[s], v)
  <2>1. Shorter(listed[s], v, d)
    BY <1>0, ViewDropped, Zenon
  <2>2. listed' = [listed EXCEPT ![s] = d] /\ mixed' = [mixed EXCEPT ![s] = mixed[s] \ (MixTracks \X {v})]
        /\ unlisted' = {x \in unlisted : x # <<s, v>>}
                         \cup {<<s, w>> : w \in ToSet(listed[s]) \ (ToSet(listed'[s]) \cup {v})}
    BY <1>2 DEF DoUnmix
  <2> HIDE DEF d
  <2>3. d \in Seq(ControlViews) /\ Distinct(d) /\ ~Contains(d, v)
        /\ \A w : Contains(d, w) => Contains(listed[s], w)
    BY <2>1 DEF Shorter
  <2>4. listed'[s] = d /\ listed' \in [ControlStreams -> Seq(ControlViews)]
    BY <2>2, <2>3
  <2>5. mixed'[s] = mixed[s] \ (MixTracks \X {v})
        /\ mixed' \in [ControlStreams -> SUBSET (MixTracks \X ControlViews)]
    BY <1>0, <2>2
  <2>6. \A x \in ControlStreams \ {s} : listed'[x] = listed[x] /\ mixed'[x] = mixed[x]
    BY <2>2
  <2>7. \A t, w : <<t, w>> \in mixed'[s] <=> <<t, w>> \in mixed[s] /\ w # v
    BY <1>0, <2>5
  <2>8. \A w : (w \in ToSet(listed[s]) <=> Contains(listed[s], w)) /\ (w \in ToSet(d) <=> Contains(d, w))
    BY <1>0, <2>3 DEF ToSet, Contains
  <2>9. \A w : w # v /\ Contains(listed[s], w) => Contains(d, w) \/ <<s, w>> \in unlisted'
    BY <2>2, <2>4, <2>8
  <2>10. /\ \A x \in unlisted : x[1] # s => x \in unlisted'
         /\ \A w : w # v /\ <<s, w>> \in unlisted => <<s, w>> \in unlisted'
    BY <2>2
  <2> QED
    BY <2>3, <2>4, <2>5, <2>6, <2>7, <2>9, <2>10 DEF Unmixed
<1> QED
  BY <1>1, <1>2
\* A request about a stream begins, and a view is taken from the stream.
LEMMA BeginKeeps ==
  ASSUME StreamsInv, NEW r \in Requests, NEW s \in here, NEW req \in RequestStates,
         NEW v \in ControlViews \cup {NoView}, request[r].step = "new", req.step = "mixing",
         req.stream = s, req.waits # {} => req.view \in ControlViews,
         Begin(r, req), DoUnmix(s, v), UNCHANGED <<here, offAir>>
  PROVE  StreamsInv'
<1> USE DEF StreamsInv
<1>1. s \in ControlStreams
  BY DEF StreamsTyped
<1>2. PICK q : Begun(r, req, q)
  BY <1>1, BeginSets
<1>3. Unmixed(s, v)
  <2>1. Distinct(listed[s])
    BY DEF ViewsAgree, Distinct
  <2> QED
    BY <1>1, <2>1, DoUnmixSets
<1>4. /\ \A k \in Requests : request'[k] = IF k = r THEN q ELSE request[k]
      /\ request' \in [Requests -> RequestStates]
  BY <1>2 DEF Begun, StreamsTyped
<1>5. request[r].waits = {}
  BY DEF RequestsKept
<1>6. StreamsTyped'
  BY <1>2, <1>3, <1>4 DEF StreamsTyped, Begun, Unmixed
<1>7. RequestsKept'
  BY <1>1, <1>2, <1>4 DEF RequestsKept, Begun
<1>8. ASSUME NEW x \in here, NEW w, BeingMixed(x, w) PROVE BeingMixed(x, w)'
  <2>1. PICK k \in Requests : request[k].stream = x /\ request[k].view = w /\ request[k].waits # {}
    BY <1>8 DEF BeingMixed
  <2>2. request'[k] = request[k]
    BY <1>4, <1>5, <2>1
  <2> QED
    BY <2>1, <2>2 DEF BeingMixed
<1>9. ViewsAgree'
  <2> SUFFICES ASSUME NEW x \in here
               PROVE  /\ Distinct(listed'[x])
                      /\ \A w \in ControlViews :
                           /\ Contains(listed'[x], w) => MixedIn(mixed'[x], w)
                           /\ MixedIn(mixed'[x], w) => Contains(listed'[x], w) \/ BeingMixed(x, w)'
                                                       \/ <<x, w>> \in unlisted'
    BY DEF ViewsAgree, Distinct
  <2>1. x \in ControlStreams
    BY DEF StreamsTyped
  <2>2. CASE x # s
    <3>1. listed'[x] = listed[x] /\ mixed'[x] = mixed[x]
      BY <1>3, <2>1, <2>2 DEF Unmixed
    <3>2. \A w : <<x, w>> \in unlisted => <<x, w>> \in unlisted'
      BY <1>3, <2>2 DEF Unmixed
    <3> QED
      BY <1>8, <3>1, <3>2 DEF ViewsAgree, Distinct
  <2>3. CASE x = s
    <3>1. Distinct(listed'[x])
      BY <1>3, <2>3 DEF Unmixed
    <3>2. ASSUME NEW w \in ControlViews, Contains(listed'[x], w) PROVE MixedIn(mixed'[x], w)
      <4>1. Contains(listed[s], w) /\ w # v
        BY <1>3, <2>3, <3>2 DEF Unmixed
      <4>2. PICK t \in MixTracks : <<t, w>> \in mixed[s]
        BY <4>1 DEF ViewsAgree, MixedIn
      <4> QED
        BY <1>3, <2>3, <4>1, <4>2 DEF Unmixed, MixedIn
    <3>3. ASSUME NEW w \in ControlViews, MixedIn(mixed'[x], w)
          PROVE  Contains(listed'[x], w) \/ BeingMixed(x, w)' \/ <<x, w>> \in unlisted'
      <4>1. PICK t \in MixTracks : <<t, w>> \in mixed'[s]
        BY <2>3, <3>3 DEF MixedIn
      <4>2. MixedIn(mixed[s], w) /\ w # v
        BY <1>3, <4>1 DEF Unmixed, MixedIn
      <4>3. Contains(listed[s], w) \/ BeingMixed(s, w) \/ <<s, w>> \in unlisted
        BY <4>2 DEF ViewsAgree
      <4> QED
        BY <1>3, <1>8, <2>3, <4>2, <4>3 DEF Unmixed
    <3> QED
      BY <3>1, <3>2, <3>3
  <2> QED
    BY <2>2, <2>3
<1>10. MutesKept'
  BY DEF MutesKept
<1> QED
  BY <1>6, <1>7, <1>9, <1>10

LEMMA StreamControlKeeps ==
  ASSUME StreamsInv, NEW r \in Requests, NEW s \in ControlStreams, NEW v \in ControlViews,
         NEW op \in {"mix", "unmix", "pause", "play"}, StreamControl(r, s, v, op)
  PROVE  StreamsInv'
<1> DEFINE req == [NoRequest EXCEPT !.step = "mixing", !.stream = s]
<1>1. request[r].step = "new" /\ s \in here /\ UNCHANGED <<here, offAir>>
  BY DEF StreamControl
<1>2. req \in RequestStates /\ req.step = "mixing" /\ req.stream = s /\ req.waits = {}
  BY DEF NoRequest, RequestStates, Opinions
<1>3. CASE op = "mix"
  <2> DEFINE q == [req EXCEPT !.view = v, !.waits = MixOps(s, v)]
  <2>1. MixOps(s, v) \in SUBSET MixTracks
    BY DEF MixOps
  <2>2. q \in RequestStates /\ q.step = "mixing" /\ q.stream = s /\ q.view = v
    BY <1>2, <2>1 DEF RequestStates
  <2>3. Begin(r, q) /\ DoUnmix(s, NoView)
    BY <1>3 DEF StreamControl
  <2> HIDE DEF q
  <2> QED
    BY <1>1, <2>2, <2>3, BeginKeeps
<1>4. CASE op = "unmix"
  <2>1. Begin(r, req) /\ DoUnmix(s, v)
    BY <1>4 DEF StreamControl
  <2> HIDE DEF req
  <2> QED
    BY <1>1, <1>2, <2>1, BeginKeeps
<1>5. CASE op \in {"pause", "play"}
  <2> DEFINE q == [req EXCEPT !.mute = op]
  <2>1. q \in RequestStates /\ q.step = "mixing" /\ q.stream = s /\ q.waits = {}
    BY <1>2, <1>5 DEF RequestStates, Opinions
  <2>2. Begin(r, q) /\ DoUnmix(s, NoView)
    BY <1>5 DEF StreamControl
  <2> HIDE DEF q
  <2> QED
    BY <1>1, <2>1, <2>2, BeginKeeps
<1> QED
  BY <1>3, <1>4, <1>5

LEMMA ControlStreamKeeps ==
  ASSUME StreamsInv, NEW r \in Requests, NEW s \in ControlStreams, NEW v \in ControlViews \cup {NoView},
         NEW w \in ControlViews \cup {NoView}, NEW op \in Opinions, ControlStream(r, s, v, w, op)
  PROVE  StreamsInv'
<1> DEFINE m == IF op = (IF s \in offAir.told THEN "pause" ELSE "play") THEN "keep" ELSE op
           q == [NoRequest EXCEPT !.step = "mixing", !.stream = s, !.view = v,
                                  !.waits = MixOps(s, v), !.mute = m]
<1>1. request[r].step = "new" /\ s \in here /\ UNCHANGED <<here, offAir>>
  BY DEF ControlStream
<1>2. m \in Opinions /\ MixOps(s, v) \in SUBSET MixTracks /\ (MixOps(s, v) # {} => v \in ControlViews)
  BY DEF Opinions, MixOps
<1>3. Begin(r, q) /\ DoUnmix(s, w)
  BY DEF ControlStream
<1> HIDE DEF m
<1>4. q \in RequestStates /\ q.step = "mixing" /\ q.stream = s /\ (q.waits # {} => q.view \in ControlViews)
  BY <1>2 DEF NoRequest, RequestStates
<1> HIDE DEF q
<1> QED
  BY <1>1, <1>3, <1>4, BeginKeeps
\* What the answer for a track leaves of the request and of the views.
Answered(r, q, s, v) ==
  /\ q \in RequestStates /\ request' = [request EXCEPT ![r] = q] /\ onOffs' \in Seq(Calls)
  /\ q.stream = request[r].stream /\ q.view = request[r].view
  /\ q.waits # {} => q.step \in {"mixing", "answered"}
  /\ \/ s \in here /\ listed' = [listed EXCEPT ![s] = AddView(@, v)] /\ unlisted' = unlisted \ {<<s, v>>}
     \/ /\ listed' = listed /\ unlisted \subseteq unlisted'
        /\ q.waits # {} \/ <<s, v>> \in unlisted' \/ s \notin here

LEMMA TrackMixedSets ==
  ASSUME StreamsInv, NEW r \in Requests, NEW t \in MixTracks, NEW ok \in BOOLEAN, TrackMixed(r, t, ok)
  PROVE  \E q : /\ Answered(r, q, request[r].stream, request[r].view)
                /\ (listed' # listed => ok)
<1> USE DEF StreamsInv, StreamsTyped
<1> DEFINE o == request[r]
           s == o.stream
           left == [o EXCEPT !.waits = o.waits \ {t}]
<1>1. o \in RequestStates /\ t \in o.waits /\ o.step \in {"mixing", "answered"} /\ o.view \in ControlViews
      /\ s \in ControlStreams
  BY DEF TrackMixed, RequestsKept
<1>2. /\ left \in RequestStates /\ left.stream = s /\ left.view = o.view /\ left.step = o.step
      /\ left.mute = o.mute /\ left.waits = o.waits \ {t}
  BY <1>1 DEF RequestStates
<1>3. mixed' = (IF ok /\ s \in here THEN [mixed EXCEPT ![s] = @ \cup {<<t, o.view>>}] ELSE mixed)
  BY DEF TrackMixed
<1>4. CASE ok /\ o.step = "mixing" /\ left.waits = {} /\ s \in here
  <2>1. /\ listed' = [listed EXCEPT ![s] = AddView(@, o.view)] /\ unlisted' = unlisted \ {<<s, o.view>>}
        /\ SetStreamMute(r, left)
    BY <1>4 DEF TrackMixed
  <2> DEFINE q == [left EXCEPT !.step = IF left.mute = "keep" THEN "answered" ELSE "muting"]
             c == [of |-> r, stream |-> left.stream, mute |-> left.mute]
  <2>2. request' = [request EXCEPT ![r] = q] /\ (onOffs' = onOffs \/ onOffs' = Append(onOffs, c))
    BY <2>1 DEF SetStreamMute
  <2>3. q \in RequestStates /\ q.stream = s /\ q.view = o.view /\ q.waits = {}
    BY <1>2, <1>4 DEF RequestStates
  <2>4. c \in Calls
    BY <1>1, <1>2 DEF Calls, RequestStates
  <2> HIDE DEF c, q
  <2>5. onOffs' \in Seq(Calls)
    BY <2>2, <2>4
  <2>6. Answered(r, q, s, o.view)
    BY <1>4, <2>1, <2>2, <2>3, <2>5 DEF Answered
  <2> QED
    BY <1>4, <2>6
<1>5. CASE ~(ok /\ o.step = "mixing" /\ left.waits = {} /\ s \in here)
  <2> DEFINE q == [left EXCEPT !.step = IF ok /\ left.waits # {} THEN o.step ELSE "answered"]
  <2>1. /\ request' = [request EXCEPT ![r] = q] /\ listed' = listed /\ onOffs' = onOffs
        /\ unlisted' = IF o.step = "answered" \/ ~ok THEN unlisted \cup {<<s, o.view>>} ELSE unlisted
    BY <1>5 DEF TrackMixed
  <2>2. /\ q \in RequestStates /\ q.stream = s /\ q.view = o.view /\ q.waits = left.waits
        /\ q.step \in {"mixing", "answered"}
    BY <1>1, <1>2 DEF RequestStates
  <2> HIDE DEF q
  <2>3. q.waits # {} \/ <<s, o.view>> \in unlisted' \/ s \notin here
    BY <1>1, <1>5, <2>1, <2>2
  <2>4. Answered(r, q, s, o.view)
    BY <2>1, <2>2, <2>3 DEF Answered
  <2> QED
    BY <2>1, <2>4
<1> QED
  BY <1>4, <1>5

LEMMA TrackMixedKeeps ==
  ASSUME StreamsInv, NEW r \in Requests, NEW t \in MixTracks, NEW ok \in BOOLEAN, TrackMixed(r, t, ok)
  PROVE  StreamsInv'
<1> USE DEF StreamsInv
<1> DEFINE s == request[r].stream
           v == request[r].view
<1>1. PICK q : Answered(r, q, s, v) /\ (listed' # listed => ok)
  BY TrackMixedSets
<1>2. /\ t \in request[r].waits /\ UNCHANGED <<here, offAir>>
      /\ mixed' = IF ok /\ s \in here THEN [mixed EXCEPT ![s] = @ \cup {<<t, v>>}] ELSE mixed
  BY DEF TrackMixed
<1>3. s \in ControlStreams /\ v \in ControlViews
  BY <1>2 DEF RequestsKept
<1> HIDE DEF s, v
<1>4. /\ request' \in [Requests -> RequestStates] /\ onOffs' \in Seq(Calls)
      /\ \A k \in Requests : request'[k] = IF k = r THEN q ELSE request[k]
      /\ q.stream = s /\ q.view = v /\ (q.waits # {} => q.step \in {"mixing", "answered"})
  BY <1>1 DEF Answered, StreamsTyped, s, v
<1>5. listed[s] \in Seq(ControlViews) /\ mixed[s] \in SUBSET (MixTracks \X ControlViews)
  BY <1>3 DEF StreamsTyped
<1>6. /\ mixed' \in [ControlStreams -> SUBSET (MixTracks \X ControlViews)]
      /\ \A x \in ControlStreams : mixed[x] \subseteq mixed'[x]
      /\ \A x \in ControlStreams : \A k, w : <<k, w>> \in mixed'[x] => <<k, w>> \in mixed[x]
                                    \/ (mixed' # mixed /\ x = s /\ w = v)
  BY <1>2, <1>3, <1>5 DEF StreamsTyped
<1>7. RequestsKept'
  BY <1>3, <1>4 DEF RequestsKept
<1>8. MutesKept'
  BY <1>2 DEF MutesKept
<1>9. ASSUME NEW x, NEW w, BeingMixed(x, w) PROVE BeingMixed(x, w)' \/ (x = s /\ w = v)
  <2>1. PICK k \in Requests : request[k].stream = x /\ request[k].view = w /\ request[k].waits # {}
    BY <1>9 DEF BeingMixed
  <2>2. CASE k = r
    BY <2>1, <2>2 DEF s, v
  <2>3. CASE k # r
    BY <1>4, <2>1, <2>3 DEF BeingMixed
  <2> QED
    BY <2>2, <2>3
<1>10. \A x, w : q.waits # {} /\ x = s /\ w = v => BeingMixed(x, w)'
  BY <1>4 DEF BeingMixed
<1>11. ASSUME NEW x \in here, NEW w, MixedIn(mixed'[x], w)
       PROVE  MixedIn(mixed[x], w) \/ (mixed' # mixed /\ x = s /\ w = v)
  <2>1. x \in ControlStreams
    BY DEF StreamsTyped
  <2> QED
    BY <1>6, <1>11, <2>1 DEF MixedIn
<1>12. \A x \in here : \A w : MixedIn(mixed[x], w) => MixedIn(mixed'[x], w)
  <2>1. here \subseteq ControlStreams
    BY DEF StreamsTyped
  <2> QED
    BY <1>6, <2>1 DEF MixedIn
<1>13. CASE s \in here /\ listed' = [listed EXCEPT ![s] = AddView(@, v)] /\ unlisted' = unlisted \ {<<s, v>>}
  <2>1. Distinct(listed[s])
    BY <1>13 DEF ViewsAgree, Distinct
  <2>2. /\ AddView(listed[s], v) \in Seq(ControlViews) /\ Distinct(AddView(listed[s], v))
        /\ \A w : Contains(AddView(listed[s], v), w) <=> Contains(listed[s], w) \/ w = v
    BY <1>3, <1>5, <2>1, ViewAdded
  <2>3. /\ listed' \in [ControlStreams -> Seq(ControlViews)] /\ listed'[s] = AddView(listed[s], v)
        /\ \A x \in ControlStreams \ {s} : listed'[x] = listed[x]
    BY <1>3, <1>13, <2>2 DEF StreamsTyped
  <2>4. MixedIn(mixed'[s], v)
    <3>1. CASE ok
      BY <1>2, <1>3, <1>13, <3>1 DEF MixedIn, StreamsTyped
    <3>2. CASE ~ok
      <4>1. listed' = listed
        BY <1>1, <3>2
      <4>2. Contains(listed[s], v)
        BY <2>2, <2>3, <4>1
      <4> QED
        BY <1>3, <1>12, <1>13, <4>2 DEF ViewsAgree
    <3> QED
      BY <3>1, <3>2
  <2>5. ViewsAgree'
    <3> SUFFICES ASSUME NEW x \in here
                 PROVE  /\ Distinct(listed'[x])
                        /\ \A w \in ControlViews :
                             /\ Contains(listed'[x], w) => MixedIn(mixed'[x], w)
                             /\ MixedIn(mixed'[x], w) => Contains(listed'[x], w) \/ BeingMixed(x, w)'
                                                         \/ <<x, w>> \in unlisted'
      BY <1>2 DEF ViewsAgree, Distinct
    <3>1. x \in ControlStreams /\ Distinct(listed[x])
      BY DEF StreamsTyped, ViewsAgree, Distinct
    <3>2. \A w : (x = s /\ w = v) => Contains(listed'[x], w) /\ MixedIn(mixed'[x], w)
      BY <2>2, <2>3, <2>4
    <3>3. \A w : ~(x = s /\ w = v) => (Contains(listed'[x], w) <=> Contains(listed[x], w))
      BY <2>2, <2>3, <3>1
    <3>4. \A w : ~(x = s /\ w = v) /\ <<x, w>> \in unlisted => <<x, w>> \in unlisted'
      BY <1>13
    <3>5. Distinct(listed'[x])
      BY <2>2, <2>3, <3>1
    <3>6. ASSUME NEW w \in ControlViews, ~(x = s /\ w = v)
          PROVE  /\ Contains(listed'[x], w) => MixedIn(mixed'[x], w)
                 /\ MixedIn(mixed'[x], w) => Contains(listed'[x], w) \/ BeingMixed(x, w)'
                                             \/ <<x, w>> \in unlisted'
      BY <1>9, <1>11, <1>12, <3>3, <3>4, <3>6 DEF ViewsAgree
    <3> QED
      BY <3>2, <3>5, <3>6
  <2> QED
    BY <1>2, <1>4, <1>6, <1>7, <1>8, <2>3, <2>5 DEF StreamsTyped
<1>14. CASE /\ listed' = listed /\ unlisted \subseteq unlisted'
            /\ q.waits # {} \/ <<s, v>> \in unlisted' \/ s \notin here
  <2>1. ViewsAgree'
    <3> SUFFICES ASSUME NEW x \in here
                 PROVE  /\ Distinct(listed[x])
                        /\ \A w \in ControlViews :
                             /\ Contains(listed[x], w) => MixedIn(mixed'[x], w)
                             /\ MixedIn(mixed'[x], w) => Contains(listed[x], w) \/ BeingMixed(x, w)'
                                                         \/ <<x, w>> \in unlisted'
      BY <1>2, <1>14 DEF ViewsAgree, Distinct
    <3>1. Distinct(listed[x])
      BY DEF ViewsAgree, Distinct
    <3>2. ASSUME NEW w \in ControlViews, Contains(listed[x], w) PROVE MixedIn(mixed'[x], w)
      BY <1>12, <3>2 DEF ViewsAgree
    <3>3. ASSUME NEW w \in ControlViews, MixedIn(mixed'[x], w)
          PROVE  Contains(listed[x], w) \/ BeingMixed(x, w)' \/ <<x, w>> \in unlisted'
      <4>1. CASE x = s /\ w = v
        BY <1>10, <1>14, <4>1
      <4>2. CASE ~(x = s /\ w = v)
        <5>1. Contains(listed[x], w) \/ BeingMixed(x, w) \/ <<x, w>> \in unlisted
          BY <1>11, <3>3, <4>2 DEF ViewsAgree
        <5> QED
          BY <1>9, <1>14, <4>2, <5>1
      <4> QED
        BY <4>1, <4>2
    <3> QED
      BY <3>1, <3>2, <3>3
  <2> QED
    BY <1>2, <1>4, <1>6, <1>7, <1>8, <1>14, <2>1 DEF StreamsTyped
<1> QED
  BY <1>1, <1>2, <1>13, <1>14 DEF Answered, s, v
LEMMA MutesAnsweredKeeps ==
  ASSUME StreamsInv, NEW ok \in BOOLEAN, MutesAnswered(ok)
  PROVE  StreamsInv'
<1> USE DEF StreamsInv
<1> DEFINE c == Head(onOffs)
<1>1. onOffs # <<>> /\ UNCHANGED <<here, listed, mixed, unlisted>> /\ onOffs' = Tail(onOffs)
  BY DEF MutesAnswered
<1>2. c \in Calls /\ onOffs' \in Seq(Calls)
  BY <1>1 DEF StreamsTyped
<1>3. request' = [request EXCEPT ![c.of].step = "answered"]
  BY DEF MutesAnswered
<1> DEFINE Set(X) == IF c.mute = "pause" THEN X \cup {c.stream} ELSE X \ {c.stream}
<1>4. offAir' = IF c.stream \notin here THEN offAir
                ELSE [told |-> Set(offAir.told), node |-> IF ok THEN Set(offAir.node) ELSE offAir.node,
                      lost |-> IF ok THEN offAir.lost \ {c.stream} ELSE offAir.lost \cup {c.stream}]
  BY DEF MutesAnswered
<1> HIDE DEF c
<1>5. c.of \in Requests /\ c.stream \in ControlStreams
  BY <1>2 DEF Calls
<1>6. /\ request' \in [Requests -> RequestStates]
      /\ \A r \in Requests : /\ request'[r].stream = request[r].stream /\ request'[r].view = request[r].view
                             /\ request'[r].waits = request[r].waits
                             /\ request'[r].step \in {request[r].step, "answered"}
  <2>1. /\ [request[c.of] EXCEPT !.step = "answered"] \in RequestStates
        /\ request' = [request EXCEPT ![c.of] = [request[c.of] EXCEPT !.step = "answered"]]
    BY <1>3, <1>5 DEF StreamsTyped, RequestStates
  <2>2. ASSUME NEW r \in Requests
        PROVE  /\ request'[r].stream = request[r].stream /\ request'[r].view = request[r].view
               /\ request'[r].waits = request[r].waits
               /\ request'[r].step \in {request[r].step, "answered"}
    BY <1>5, <2>1 DEF StreamsTyped, RequestStates
  <2> QED
    BY <2>1, <2>2 DEF StreamsTyped
<1>7. offAir' \in AirStates
  BY <1>4, <1>5 DEF StreamsTyped, AirStates
<1>8. RequestsKept'
  BY <1>6 DEF RequestsKept
<1>9. MutesKept'
  BY <1>1, <1>4 DEF MutesKept
<1>10. \A x, w : BeingMixed(x, w) => BeingMixed(x, w)'
  BY <1>6 DEF BeingMixed
<1>11. ViewsAgree'
  BY <1>1, <1>10 DEF ViewsAgree
<1> QED
  BY <1>1, <1>2, <1>6, <1>7, <1>8, <1>9, <1>11 DEF StreamsTyped

LEMMA RemoveControlStreamKeeps ==
  ASSUME StreamsInv, NEW s \in ControlStreams, RemoveControlStream(s)
  PROVE  StreamsInv'
<1> USE DEF StreamsInv
<1>1. /\ here' = here \ {s} /\ UNCHANGED <<onOffs, request>>
      /\ listed' = [listed EXCEPT ![s] = <<>>] /\ mixed' = [mixed EXCEPT ![s] = {}]
      /\ unlisted' = {x \in unlisted : x[1] # s}
      /\ offAir' = [told |-> offAir.told \ {s}, node |-> offAir.node \ {s}, lost |-> offAir.lost \ {s}]
  BY DEF RemoveControlStream
<1>2. StreamsTyped'
  <2>1. <<>> \in Seq(ControlViews)
    OBVIOUS
  <2>2. offAir' \in AirStates
    BY <1>1 DEF StreamsTyped, AirStates
  <2> QED
    BY <1>1, <2>1, <2>2 DEF StreamsTyped
<1>3. RequestsKept'
  BY <1>1 DEF RequestsKept
<1>4. MutesKept'
  BY <1>1 DEF MutesKept
<1>5. \A x, w : BeingMixed(x, w)' <=> BeingMixed(x, w)
  BY <1>1 DEF BeingMixed
<1>6. \A x \in here' : /\ x \in here /\ listed'[x] = listed[x] /\ mixed'[x] = mixed[x]
                       /\ \A w : <<x, w>> \in unlisted => <<x, w>> \in unlisted'
  BY <1>1 DEF StreamsTyped
<1>7. ViewsAgree'
  BY <1>5, <1>6 DEF ViewsAgree
<1> QED
  BY <1>2, <1>3, <1>4, <1>7

LEMMA StreamsStay ==
  ASSUME StreamsInv, UNCHANGED <<here, streamVars>>
  PROVE  StreamsInv'
BY DEF StreamsInv, StreamsTyped, RequestsKept, ViewsAgree, BeingMixed, MutesKept, streamVars

-----------------------------------------------------------------------------
(* The controls of a subscription                                           *)

Sources == ControlStreams \cup {NoSource}
SubTyped ==
  /\ sub \in [entry : Sources, room : Sources, session : BOOLEAN, ending : BOOLEAN]
  /\ update \in [step : {"none", "adding", "recovering"}, new : Sources, old : Sources]
  /\ member \in BOOLEAN

\* An update is under way or there is none; and as long as the owner is there it has lost its
\* session at most to an abort that was seen.
UpdateKept ==
  /\ update # NoUpdate => update.step # "none" /\ {update.new, update.old} \subseteq ControlStreams
  /\ update # NoUpdate /\ member => sub.session \/ "aborted" \in missed

SubInv == SubTyped /\ UpdateKept /\ UpdatesAgree

LEMMA UpdateSubscriptionKeeps ==
  ASSUME SubInv, NEW new \in ControlStreams, UpdateSubscription(new)
  PROVE  SubInv'
<1> USE ControlAssumption DEF SubInv, SubTyped
<1>1. /\ sub.entry # NoSource /\ sub' = [sub EXCEPT !.entry = NoSource, !.room = NoSource]
      /\ update' = AddUpdated(new, sub.entry, ControlStreams \ here) /\ missed' = Abandoned(update')
      /\ member' = member /\ here' = here
  BY DEF UpdateSubscription
<1>2. member /\ (sub.session \/ "aborted" \in missed) /\ sub.entry \in ControlStreams
  BY <1>1 DEF UpdatesAgree, Sources
<1>3. /\ sub' \in [entry : Sources, room : Sources, session : BOOLEAN, ending : BOOLEAN]
      /\ sub'.entry = NoSource /\ sub'.room = NoSource /\ sub'.session = sub.session
  BY <1>1 DEF Sources
<1>4. /\ update' \in [step : {"none", "adding", "recovering"}, new : Sources, old : Sources]
      /\ update' # NoUpdate => update'.step # "none" /\ {update'.new, update'.old} \subseteq ControlStreams
  BY <1>1, <1>2 DEF AddUpdated, Recovering, NoUpdate, Sources
<1>5. missed \subseteq missed' /\ (update' = NoUpdate /\ sub.session => "abandoned" \in missed')
  BY <1>1 DEF Abandoned
<1>6. UpdateKept'
  BY <1>2, <1>3, <1>4, <1>5 DEF UpdateKept
<1>7. UpdatesAgree'
  BY <1>3, <1>5 DEF UpdatesAgree
<1> QED
  BY <1>1, <1>3, <1>4, <1>6, <1>7

LEMMA UpdatedKeeps ==
  ASSUME SubInv, NEW ok \in BOOLEAN, Updated(ok)
  PROVE  SubInv'
<1> USE ControlAssumption DEF SubInv, SubTyped
<1>1. update.step # "none" /\ here' = here /\ member' = member
  BY DEF Updated
<1>2. update # NoUpdate /\ sub.entry = NoSource /\ sub.room = NoSource
  BY <1>1 DEF UpdatesAgree, NoUpdate
<1>3. CASE ok /\ member
  <2>1. /\ sub' = [sub EXCEPT !.entry = update.new, !.room = update.new]
        /\ update' = NoUpdate /\ missed' = missed
    BY <1>3 DEF Updated
  <2>2. /\ sub' \in [entry : Sources, room : Sources, session : BOOLEAN, ending : BOOLEAN]
        /\ sub'.entry = update.new /\ sub'.room = update.new /\ sub'.session = sub.session
    BY <2>1
  <2>3. NoUpdate \in [step : {"none", "adding", "recovering"}, new : Sources, old : Sources]
    BY DEF NoUpdate, Sources
  <2>4. UpdatesAgree'
    BY <1>1, <1>2, <1>3, <2>1, <2>2 DEF UpdatesAgree, UpdateKept
  <2> QED
    BY <1>1, <2>1, <2>2, <2>3, <2>4 DEF UpdateKept
<1>4. CASE ~(ok /\ member)
  <2>1. /\ update' = IF update.step = "recovering" THEN NoUpdate
                     ELSE Recovering(update.old, ControlStreams \ here)
        /\ missed' = Abandoned(update') /\ sub' = sub
    BY <1>4 DEF Updated
  <2>2. missed \subseteq missed' /\ (update' = NoUpdate /\ sub.session => "abandoned" \in missed')
    BY <2>1 DEF Abandoned
  <2>3. /\ update' \in [step : {"none", "adding", "recovering"}, new : Sources, old : Sources]
        /\ update' # NoUpdate => update'.step # "none" /\ {update'.new, update'.old} \subseteq ControlStreams
    BY <1>2, <2>1 DEF UpdateKept, Recovering, NoUpdate, Sources
  <2>4. UpdatesAgree'
    BY <1>1, <1>2, <2>1, <2>2 DEF UpdatesAgree
  <2> QED
    BY <1>1, <1>2, <2>1, <2>2, <2>3, <2>4 DEF UpdateKept
<1> QED
  BY <1>3, <1>4
LEMMA SourceGoneKeeps ==
  ASSUME SubInv, NEW s \in ControlStreams, RemoveControlStream(s)
  PROVE  SubInv'
<1> USE ControlAssumption DEF SubInv, SubTyped
<1>1. /\ here' = here \ {s} /\ UNCHANGED <<member, update, missed>>
      /\ sub' = [sub EXCEPT !.room = IF @ = s THEN NoSource ELSE @,
                            !.ending = @ \/ (sub.entry = s /\ sub.session)]
  BY DEF RemoveControlStream
<1>2. /\ sub' \in [entry : Sources, room : Sources, session : BOOLEAN, ending : BOOLEAN]
      /\ sub'.entry = sub.entry /\ sub'.session = sub.session
      /\ sub'.room = (IF sub.room = s THEN NoSource ELSE sub.room)
      /\ sub'.ending = (sub.ending \/ (sub.entry = s /\ sub.session))
  BY <1>1 DEF Sources
<1>3. UpdateKept'
  BY <1>1, <1>2 DEF UpdateKept
<1>4. sub'.room # NoSource => sub'.room = sub'.entry
  BY <1>2 DEF UpdatesAgree
<1>5. sub'.session => sub'.entry # NoSource \/ update' # NoUpdate \/ "abandoned" \in missed'
  BY <1>1, <1>2 DEF UpdatesAgree
<1>6. ASSUME sub'.entry # NoSource
      PROVE  /\ member' /\ update' = NoUpdate
             /\ sub'.session \/ "aborted" \in missed'
             /\ sub'.room = sub'.entry \/ (sub'.entry \notin here'
                                           /\ (sub'.ending \/ missed' \cap {"aborted", "kept"} # {}))
  <2>1. /\ member /\ update = NoUpdate /\ (sub.session \/ "aborted" \in missed)
        /\ sub.room = sub.entry \/ (sub.entry \notin here
                                    /\ (sub.ending \/ missed \cap {"aborted", "kept"} # {}))
    BY <1>2, <1>6 DEF UpdatesAgree
  <2>2. CASE sub.room = sub.entry /\ sub.entry = s
    BY <1>1, <1>2, <2>1, <2>2
  <2>3. CASE sub.room = sub.entry /\ sub.entry # s
    BY <1>1, <1>2, <2>1, <2>3
  <2>4. CASE sub.entry \notin here
    BY <1>1, <1>2, <1>6, <2>1, <2>4
  <2> QED
    BY <2>1, <2>2, <2>3, <2>4
<1>7. UpdatesAgree'
  BY <1>4, <1>5, <1>6 DEF UpdatesAgree
<1> QED
  BY <1>1, <1>2, <1>3, <1>7

LEMMA SessionsEnd ==
  ASSUME SubInv, EndSubscription \/ SessionAborted \/ TerminateFailed \/ OwnerLeaves
  PROVE  SubInv'
<1> USE ControlAssumption DEF SubInv, SubTyped
<1>1. CASE EndSubscription
  <2>1. /\ UNCHANGED <<here, member, update, missed>> /\ sub.entry # NoSource /\ sub.session
        /\ sub' \in [entry : Sources, room : Sources, session : BOOLEAN, ending : BOOLEAN]
        /\ sub'.entry = sub.entry /\ sub'.room = sub.room /\ sub'.session = sub.session /\ sub'.ending
    BY <1>1 DEF EndSubscription
  <2> QED
    BY <2>1 DEF UpdateKept, UpdatesAgree
<1>2. CASE SessionAborted
  <2>1. /\ UNCHANGED <<here, member, update>> /\ sub' = NoSubscription
        /\ missed' = IF update.step # "none" THEN missed \cup {"aborted"} ELSE missed
    BY <1>2 DEF SessionAborted
  <2> QED
    BY <2>1 DEF NoSubscription, Sources, UpdateKept, UpdatesAgree
<1>3. CASE TerminateFailed
  <2>1. /\ UNCHANGED <<here, member, update>> /\ missed' = missed \cup {"kept"}
        /\ sub' \in [entry : Sources, room : Sources, session : BOOLEAN, ending : BOOLEAN]
        /\ sub'.entry = sub.entry /\ sub'.room = sub.room /\ sub'.session = sub.session
    BY <1>3 DEF TerminateFailed
  <2>2. UpdatesAgree'
    BY <2>1 DEF UpdatesAgree
  <2> QED
    BY <2>1, <2>2 DEF UpdateKept
<1>4. CASE OwnerLeaves
  <2>1. UNCHANGED <<here, update, missed>> /\ member' = FALSE /\ sub' = NoSubscription
    BY <1>4 DEF OwnerLeaves
  <2> QED
    BY <2>1 DEF NoSubscription, Sources, UpdateKept, UpdatesAgree
<1> QED
  BY <1>1, <1>2, <1>3, <1>4

LEMMA SubStays ==
  ASSUME SubInv, UNCHANGED <<here, subVars>>
  PROVE  SubInv'
BY DEF SubInv, SubTyped, UpdateKept, UpdatesAgree, subVars

-----------------------------------------------------------------------------
(* Both                                                                     *)

ControlsInv == StreamsInv /\ SubInv

LEMMA ControlsStart == ControlInit => ControlsInv
<1> SUFFICES ASSUME ControlInit PROVE ControlsInv
  OBVIOUS
<1> USE ControlAssumption
<1>1. /\ here = ControlStreams /\ listed = [s \in ControlStreams |-> <<>>]
      /\ mixed = [s \in ControlStreams |-> {}]
      /\ offAir = [told |-> {}, node |-> {}, lost |-> {}] /\ onOffs = <<>>
      /\ request \in [Requests -> {NoRequest, [NoRequest EXCEPT !.step = "answered"]}]
      /\ update = NoUpdate /\ unlisted = {}
  BY DEF ControlInit
<1>2. /\ {NoRequest, [NoRequest EXCEPT !.step = "answered"]} \subseteq RequestStates
      /\ \A q \in {NoRequest, [NoRequest EXCEPT !.step = "answered"]} : q.waits = {}
  BY DEF NoRequest, RequestStates, Opinions
<1>3. request \in [Requests -> RequestStates] /\ \A r \in Requests : request[r].waits = {}
  BY <1>1, <1>2
<1>4. StreamsTyped
  <2>1. <<>> \in Seq(ControlViews) /\ onOffs \in Seq(Calls)
    BY <1>1
  <2>2. offAir \in AirStates
    BY <1>1 DEF AirStates
  <2>3. /\ listed \in [ControlStreams -> Seq(ControlViews)]
        /\ mixed \in [ControlStreams -> SUBSET (MixTracks \X ControlViews)]
    BY <1>1, <2>1
  <2> QED
    BY <1>1, <1>3, <2>1, <2>2, <2>3 DEF StreamsTyped
<1>5. RequestsKept
  BY <1>3 DEF RequestsKept
<1>6. ViewsAgree
  <2>1. \A s \in ControlStreams : listed[s] = <<>> /\ mixed[s] = {}
    BY <1>1
  <2> QED
    BY <1>1, <2>1 DEF ViewsAgree, Contains, MixedIn
<1>7. MutesKept
  BY <1>1 DEF MutesKept
<1>8. SubTyped /\ UpdateKept
  <2>1. NoUpdate \in [step : {"none", "adding", "recovering"}, new : Sources, old : Sources]
    BY DEF NoUpdate, Sources
  <2>2. sub \in [entry : Sources, room : Sources, session : BOOLEAN, ending : BOOLEAN] /\ member \in BOOLEAN
    <3>1. CASE member = FALSE /\ sub = NoSubscription
      BY <3>1 DEF NoSubscription, Sources
    <3>2. CASE member = TRUE /\ \E s \in ControlStreams :
                 sub = [entry |-> s, room |-> s, session |-> TRUE, ending |-> FALSE]
      BY <3>2 DEF Sources
    <3> QED
      BY <3>1, <3>2 DEF ControlInit
  <2> QED
    BY <1>1, <2>1, <2>2 DEF SubTyped, UpdateKept
<1>9. UpdatesAgree
  BY <1>1 DEF ControlInit, UpdatesAgree, NoSubscription
<1> QED
  BY <1>4, <1>5, <1>6, <1>7, <1>8, <1>9 DEF ControlsInv, StreamsInv, SubInv

LEMMA ControlsStay == ControlsInv /\ [ControlNext]_controlVars => ControlsInv'
<1> SUFFICES ASSUME StreamsInv, SubInv, [ControlNext]_controlVars PROVE StreamsInv' /\ SubInv'
  BY DEF ControlsInv
<1>1. CASE UNCHANGED controlVars
  <2>1. UNCHANGED <<here, streamVars>> /\ UNCHANGED <<here, subVars>>
    BY <1>1 DEF controlVars, streamVars, subVars
  <2> QED
    BY <2>1, StreamsStay, SubStays
<1>2. ASSUME NEW r \in Requests, NEW s \in ControlStreams, NEW v \in ControlViews,
             NEW op \in {"mix", "unmix", "pause", "play"}, StreamControl(r, s, v, op)
      PROVE  StreamsInv' /\ SubInv'
  <2>1. UNCHANGED <<here, subVars>>
    BY <1>2 DEF StreamControl
  <2> QED
    BY <1>2, <2>1, StreamControlKeeps, SubStays
<1>3. ASSUME NEW r \in Requests, NEW s \in ControlStreams, NEW v \in ControlViews \cup {NoView},
             NEW w \in ControlViews \cup {NoView}, NEW op \in {"keep", "pause", "play"},
             ControlStream(r, s, v, w, op)
      PROVE  StreamsInv' /\ SubInv'
  <2>1. UNCHANGED <<here, subVars>> /\ op \in Opinions
    BY <1>3 DEF ControlStream, Opinions
  <2> QED
    BY <1>3, <2>1, ControlStreamKeeps, SubStays
<1>4. ASSUME NEW r \in Requests, NEW t \in MixTracks, NEW ok \in BOOLEAN, TrackMixed(r, t, ok)
      PROVE  StreamsInv' /\ SubInv'
  <2>1. UNCHANGED <<here, subVars>>
    BY <1>4 DEF TrackMixed
  <2> QED
    BY <1>4, <2>1, TrackMixedKeeps, SubStays
<1>5. ASSUME NEW ok \in BOOLEAN, MutesAnswered(ok) PROVE StreamsInv' /\ SubInv'
  <2>1. UNCHANGED <<here, subVars>>
    BY <1>5 DEF MutesAnswered
  <2> QED
    BY <1>5, <2>1, MutesAnsweredKeeps, SubStays
<1>6. ASSUME NEW s \in ControlStreams, RemoveControlStream(s) PROVE StreamsInv' /\ SubInv'
  BY <1>6, RemoveControlStreamKeeps, SourceGoneKeeps
<1>7. ASSUME NEW ok \in BOOLEAN, Updated(ok) PROVE StreamsInv' /\ SubInv'
  <2>1. UNCHANGED <<here, streamVars>>
    BY <1>7 DEF Updated
  <2> QED
    BY <1>7, <2>1, UpdatedKeeps, StreamsStay
<1>8. ASSUME NEW s \in ControlStreams, SubscriptionControl(s) \/ ControlSubscription(s)
      PROVE  StreamsInv' /\ SubInv'
  <2>1. UpdateSubscription(s)
    BY <1>8 DEF SubscriptionControl, ControlSubscription
  <2>2. UNCHANGED <<here, streamVars>>
    BY <2>1 DEF UpdateSubscription
  <2> QED
    BY <2>1, <2>2, UpdateSubscriptionKeeps, StreamsStay
<1>9. CASE EndSubscription \/ SessionAborted \/ TerminateFailed \/ OwnerLeaves
  <2>1. UNCHANGED <<here, streamVars>>
    BY <1>9 DEF EndSubscription, SessionAborted, TerminateFailed, OwnerLeaves
  <2> QED
    BY <1>9, <2>1, SessionsEnd, StreamsStay
<1> QED
  BY <1>1, <1>2, <1>3, <1>4, <1>5, <1>6, <1>7, <1>8, <1>9 DEF ControlNext

LEMMA ControlsFollow == ControlsInv => ControlsAgree
<1> SUFFICES ASSUME StreamsInv, SubInv PROVE ControlsAgree
  BY DEF ControlsInv
<1>1. ControlTypeOK
  <2>1. \A x \in {"told", "node", "lost"} : offAir[x] \subseteq ControlStreams
    BY DEF StreamsInv, StreamsTyped, AirStates
  <2>2. \A r \in Requests : request[r].waits \subseteq MixTracks
                            /\ request[r].step \in {"new", "mixing", "muting", "answered"}
    BY DEF StreamsInv, StreamsTyped, RequestStates
  <2>3. /\ {sub.entry, sub.room, update.new, update.old} \subseteq ControlStreams \cup {NoSource}
        /\ update.step \in {"none", "adding", "recovering"}
        /\ {member, sub.session, sub.ending} \subseteq BOOLEAN
    BY DEF SubInv, SubTyped, Sources
  <2> QED
    BY <2>1, <2>2, <2>3 DEF StreamsInv, StreamsTyped, ControlTypeOK
<1>2. MutesAgree
  BY DEF StreamsInv, MutesKept, MutesAgree
<1> QED
  BY <1>1, <1>2 DEF StreamsInv, SubInv, ControlsAgree

\* However controls of streams and of a subscription overlap, whatever fails of them and whoever
\* goes meanwhile: the lists of views, the mutes and the subscription that the conference keeps
\* agree with what its room controller and the nodes have, but for the cases that are counted
\* (controlStream, streamControl, controlSubscription and subscriptionControl of conference.js).
THEOREM ControlsLeaveAgreement == ControlSpec => []ControlsAgree
<1>1. ControlInit => ControlsInv
  BY ControlsStart
<1>2. ControlsInv /\ [ControlNext]_controlVars => ControlsInv'
  BY ControlsStay
<1>3. ControlsInv => ControlsAgree
  BY ControlsFollow
<1> QED
  BY <1>1, <1>2, <1>3, PTL DEF ControlSpec

-----------------------------------------------------------------------------
(* The tracks and links of a WebRTC node, for any connections, sections,    *)
(* operations and streams of other nodes, and any number of offers.  The    *)
(* tracks of the peer connections, the public tracks, the reported ones and *)
(* the connections of the router are one set.  That an offer sets up only   *)
(* sections that had no track keeps the links of the others.                *)


Peers == [there : BOOLEAN, op : [Mids -> Operations \cup {Unlinked}],
          enabled : SUBSET Mids, offered : SUBSET Mids, closed : SUBSET Mids, tracks : SUBSET Mids]

\* Types of the variables the invariant speaks of.
Typed ==
  /\ peer \in [Connections -> Peers]
  /\ started \subseteq Operations /\ completed \subseteq Operations /\ media \subseteq Tracks
  /\ direction \in [ConnectionIds -> Directions]
  /\ source \in [ConnectionIds -> ConnectionIds \cup {Unlinked}]
  /\ fed \subseteq ConnectionIds \X ConnectionIds

\* The sections of the connections: those with a track were offered, and have an operation.
SectionsAgree ==
  \A c \in Connections : \A m \in Mids :
    /\ peer[c].op[m] # Unlinked => peer[c].op[m] \in started
    /\ m \in peer[c].tracks <=> <<c, m>> \in media
    /\ m \in peer[c].tracks =>
         /\ peer[c].there /\ m \in peer[c].offered /\ peer[c].op[m] \in started
         /\ m \in peer[c].enabled \/ <<c, m>> \in late \cup closedFirst
         /\ peer[c].op[m] \in completed \cup overtaken

\* A track is public, reported and a connection of the router, or nothing of that.
TracksMeet ==
  /\ reported = media
  /\ \A id \in Tracks : id \in media <=> direction[id] # "none"

AgentInv == Typed /\ SectionsAgree /\ TracksMeet /\ LinksAgree

-----------------------------------------------------------------------------
(* The router                                                               *)

\* What the router is left with is consistent when connections are removed: no link of theirs is
\* left, except one that had been passed over before.
LEMMA LinksAfterRemoval ==
  ASSUME Typed, LinksAgree, NEW ids \in SUBSET ConnectionIds,
         RemoveConnections(ids), relinked' = relinked
  PROVE  /\ LinksAgree'
         /\ direction' \in [ConnectionIds -> Directions]
         /\ source' \in [ConnectionIds -> ConnectionIds \cup {Unlinked}]
         /\ fed' \subseteq ConnectionIds \X ConnectionIds
<1>1. /\ direction' \in [ConnectionIds -> Directions]
      /\ source' \in [ConnectionIds -> ConnectionIds \cup {Unlinked}]
      /\ fed' \subseteq ConnectionIds \X ConnectionIds /\ fed' \subseteq fed
      /\ \A id \in ConnectionIds : direction'[id] = IF id \in ids THEN "none" ELSE direction[id]
      /\ \A id \in ConnectionIds :
           source'[id] = IF id \in ids \/ source[id] \in ids THEN Unlinked ELSE source[id]
  BY DEF Typed, RemoveConnections, Directions
<1>2. ASSUME NEW l \in fed' \ relinked'
      PROVE  source'[l[2]] = l[1] /\ Exists(l[1])' /\ direction'[l[2]] = "out"
  <2>1. l \in fed \ relinked /\ l \notin CutOff(ids)
    BY <1>1 DEF RemoveConnections
  <2>2. l[1] \in ConnectionIds /\ l[2] \in ConnectionIds
    BY <2>1 DEF Typed
  <2>3. source[l[2]] = l[1] /\ Exists(l[1]) /\ direction[l[2]] = "out"
    BY <2>1 DEF LinksAgree
  <2>4. l[1] \notin ids /\ l[2] \notin ids
    BY <2>1, <2>3 DEF CutOff, CutOffTo
  <2> QED
    BY <1>1, <2>2, <2>3, <2>4 DEF Exists
<1>3. ASSUME NEW id \in ConnectionIds, source'[id] # Unlinked
      PROVE  <<source'[id], id>> \in fed'
  <2>1. id \notin ids /\ source[id] \notin ids /\ source'[id] = source[id]
    BY <1>1, <1>3
  <2>2. <<source[id], id>> \in fed
    BY <1>3, <2>1 DEF LinksAgree
  <2>3. <<source[id], id>> \notin CutOff(ids)
    BY <2>1 DEF CutOff, CutOffTo
  <2> QED
    BY <2>1, <2>2, <2>3 DEF RemoveConnections
<1> QED
  BY <1>1, <1>2, <1>3 DEF LinksAgree

\* New connections disturb no link.
LEMMA LinksAfterAdding ==
  ASSUME Typed, LinksAgree, NEW ids \in SUBSET Tracks,
         \A id \in ids : direction[id] = "none",
         AddConnections(ids), source' = source, fed' = fed, relinked' = relinked
  PROVE  /\ LinksAgree'
         /\ direction' \in [ConnectionIds -> Directions]
<1>1. /\ direction' \in [ConnectionIds -> Directions]
      /\ \A id \in ConnectionIds : id \notin ids => direction'[id] = direction[id]
  BY DEF Typed, AddConnections, Directions
<1>2. ASSUME NEW l \in fed \ relinked
      PROVE  source[l[2]] = l[1] /\ direction'[l[1]] # "none" /\ direction'[l[2]] = "out"
  <2>1. l[1] \in ConnectionIds /\ l[2] \in ConnectionIds
    BY DEF Typed
  <2>2. source[l[2]] = l[1] /\ direction[l[1]] # "none" /\ direction[l[2]] = "out"
    BY DEF LinksAgree, Exists
  <2> QED
    BY <1>1, <2>1, <2>2
<1> QED
  BY <1>1, <1>2 DEF LinksAgree, Exists

-----------------------------------------------------------------------------
(* Every step                                                               *)

LEMMA AgentStarts == AgentInit => AgentInv
BY NamesAssumption
   DEF AgentInit, AgentInv, Typed, SectionsAgree, TracksMeet, LinksAgree, NoPeer, Peers, Directions,
       Tracks, ConnectionIds

\* An operation takes sections that have no track.
LEMMA StartKeeps ==
  ASSUME AgentInv, NEW op \in Operations, Start(op)
  PROVE  AgentInv'
<1> DEFINE c == ConnectionOf[op]
           conn == CreateWebRTCConnection(c)
           free == {m \in MidsOf[op] : conn.op[m] = Unlinked}
<1>1. c \in Connections /\ MidsOf[op] \subseteq Mids /\ op # Unlinked
  BY OperationsAssumption, NamesAssumption
<1>2. peer \in [Connections -> Peers] /\ peer[c] \in Peers
  BY <1>1 DEF AgentInv, Typed
<1>3. conn \in Peers /\ conn.there /\ conn.op = peer[c].op /\ conn.enabled = peer[c].enabled
      /\ conn.offered = peer[c].offered /\ conn.tracks = peer[c].tracks
  BY <1>2 DEF CreateWebRTCConnection, Peers
<1>4. peer'[c] = AddTrackOperation(conn, op) /\ peer' = [peer EXCEPT ![c] = AddTrackOperation(conn, op)]
  BY <1>1, <1>2 DEF Start
<1>5. free \subseteq Mids
  BY <1>1
<1>6. AddTrackOperation(conn, op) = [conn EXCEPT !.op = [m \in Mids |-> IF m \in free THEN op ELSE conn.op[m]],
                                                 !.enabled = conn.enabled \cup free]
  BY <1>3 DEF AddTrackOperation, Peers
<1> HIDE DEF conn, free
<1>7. /\ peer'[c] \in Peers /\ peer'[c].there
      /\ peer'[c].op = [m \in Mids |-> IF m \in free THEN op ELSE peer[c].op[m]]
      /\ peer'[c].enabled = peer[c].enabled \cup free
      /\ peer'[c].offered = peer[c].offered /\ peer'[c].tracks = peer[c].tracks
  <2> DEFINE ops == [m \in Mids |-> IF m \in free THEN op ELSE conn.op[m]]
             enabled == conn.enabled \cup free
  <2>1. ops \in [Mids -> Operations \cup {Unlinked}] /\ enabled \subseteq Mids
    BY <1>3, <1>5 DEF Peers
  <2>2. peer'[c] = [conn EXCEPT !.op = ops, !.enabled = enabled]
    BY <1>4, <1>6
  <2>3. ops = [m \in Mids |-> IF m \in free THEN op ELSE peer[c].op[m]] /\ enabled = peer[c].enabled \cup free
    BY <1>3
  <2> HIDE DEF ops, enabled
  <2>4. /\ peer'[c] \in Peers /\ peer'[c].there = conn.there
        /\ peer'[c].op = ops /\ peer'[c].enabled = enabled
        /\ peer'[c].offered = conn.offered /\ peer'[c].tracks = conn.tracks
    BY <1>3, <2>1, <2>2 DEF Peers
  <2> QED
    BY <1>3, <2>3, <2>4
<1>8. \A d \in Connections : d # c => peer'[d] = peer[d]
  <2>1. \A x : peer' = [peer EXCEPT ![c] = x] => \A d \in Connections : d # c => peer'[d] = peer[d]
    BY <1>2
  <2> QED
    BY <1>4, <2>1
<1>9. peer' \in [Connections -> Peers]
  BY <1>1, <1>2, <1>4, <1>7
<1>10. \A m \in free : peer[c].op[m] = Unlinked
  BY <1>3 DEF free
<1>11. started' = started \cup {op}
       /\ UNCHANGED <<media, direction, source, fed, completed, reported, late, overtaken, closedFirst, relinked>>
  BY DEF Start, routerVars
<1>12. Typed'
  BY <1>9, <1>11 DEF AgentInv, Typed
<1>13. SectionsAgree'
  <2>1. SUFFICES ASSUME NEW d \in Connections, NEW m \in Mids
                 PROVE  /\ peer'[d].op[m] # Unlinked => peer'[d].op[m] \in started'
                        /\ m \in peer'[d].tracks <=> <<d, m>> \in media
                        /\ m \in peer'[d].tracks =>
                             /\ peer'[d].there /\ m \in peer'[d].offered /\ peer'[d].op[m] \in started'
                             /\ m \in peer'[d].enabled \/ <<d, m>> \in late \cup closedFirst
                             /\ peer'[d].op[m] \in completed \cup overtaken
    BY <1>11 DEF SectionsAgree
  <2>2. /\ peer[d].op[m] # Unlinked => peer[d].op[m] \in started
        /\ m \in peer[d].tracks <=> <<d, m>> \in media
        /\ m \in peer[d].tracks =>
             /\ peer[d].there /\ m \in peer[d].offered /\ peer[d].op[m] \in started
             /\ m \in peer[d].enabled \/ <<d, m>> \in late \cup closedFirst
             /\ peer[d].op[m] \in completed \cup overtaken
    BY DEF AgentInv, SectionsAgree
  <2>3. CASE d # c
    BY <1>8, <1>11, <2>2, <2>3
  <2>4. CASE d = c /\ m \in free
    <3>1. peer[c].op[m] = Unlinked /\ Unlinked \notin started
      BY <1>10, <2>4, NamesAssumption DEF AgentInv, Typed
    <3>2. m \notin peer[c].tracks
      BY <2>2, <2>4, <3>1
    <3> QED
      BY <1>7, <1>11, <2>2, <2>4, <3>2
  <2>5. CASE d = c /\ m \notin free
    BY <1>7, <1>11, <2>2, <2>5
  <2> QED
    BY <2>3, <2>4, <2>5
<1>14. TracksMeet' /\ LinksAgree'
  BY <1>11 DEF AgentInv, TracksMeet, LinksAgree, Exists
<1> QED
  BY <1>12, <1>13, <1>14 DEF AgentInv

\* Tracks that go leave the router and the public ones alike.
LEMMA TracksRemoved ==
  ASSUME AgentInv, NEW ids \in SUBSET Tracks, RemoveTracks(ids), relinked' = relinked
  PROVE  /\ TracksMeet' /\ LinksAgree' /\ media' = media \ ids /\ media' \subseteq Tracks
         /\ direction' \in [ConnectionIds -> Directions]
         /\ source' \in [ConnectionIds -> ConnectionIds \cup {Unlinked}]
         /\ fed' \subseteq ConnectionIds \X ConnectionIds
<1>1. ids \in SUBSET ConnectionIds /\ RemoveConnections(ids)
  BY DEF ConnectionIds, RemoveTracks
<1>2. /\ LinksAgree'
      /\ direction' \in [ConnectionIds -> Directions]
      /\ source' \in [ConnectionIds -> ConnectionIds \cup {Unlinked}]
      /\ fed' \subseteq ConnectionIds \X ConnectionIds
  BY <1>1, LinksAfterRemoval DEF AgentInv
<1>3. media' = media \ ids /\ reported' = reported \ ids
  BY DEF RemoveTracks
<1>4. \A id \in Tracks : direction'[id] = IF id \in ids THEN "none" ELSE direction[id]
  BY <1>1 DEF RemoveConnections, ConnectionIds
<1>5. TracksMeet'
  BY <1>3, <1>4 DEF AgentInv, TracksMeet
<1> QED
  BY <1>2, <1>3, <1>5 DEF AgentInv, Typed

\* The tracks of an operation that ends go; one whose section the client had closed stays.
LEMMA StopKeeps ==
  ASSUME AgentInv, NEW op \in Operations, Stop(op)
  PROVE  AgentInv'
<1> DEFINE c == ConnectionOf[op]
           mids == {m \in Mids : peer[c].op[m] = op}
           gone == {m \in mids : FoundAgain(c, m)}
           ids == {c} \X gone
<1>1. c \in Connections
  BY OperationsAssumption
<1>2. peer \in [Connections -> Peers] /\ peer[c] \in Peers
  BY <1>1 DEF AgentInv, Typed
<1>3. ids \in SUBSET Tracks
  BY <1>1 DEF Tracks
<1>4. /\ peer' = [peer EXCEPT ![c].enabled = peer[c].enabled \ mids, ![c].tracks = peer[c].tracks \ gone]
      /\ closedFirst' = closedFirst \cup ({c} \X {m \in mids \ gone : m \in peer[c].tracks})
      /\ RemoveTracks(ids) /\ relinked' = relinked
      /\ UNCHANGED <<started, completed, late, overtaken>>
  BY <1>1, <1>2 DEF Stop
<1>5. /\ TracksMeet' /\ LinksAgree' /\ media' = media \ ids /\ media' \subseteq Tracks
      /\ direction' \in [ConnectionIds -> Directions]
      /\ source' \in [ConnectionIds -> ConnectionIds \cup {Unlinked}]
      /\ fed' \subseteq ConnectionIds \X ConnectionIds
  BY <1>3, <1>4, TracksRemoved
<1>6. /\ \A d \in Connections : d # c => peer'[d] = peer[d]
      /\ peer'[c].enabled = peer[c].enabled \ mids /\ peer'[c].tracks = peer[c].tracks \ gone
      /\ peer'[c].there = peer[c].there /\ peer'[c].op = peer[c].op /\ peer'[c].offered = peer[c].offered
      /\ peer' \in [Connections -> Peers]
  BY <1>1, <1>2, <1>4 DEF Peers
<1>7. \A d \in Connections, m \in Mids : <<d, m>> \in media' <=> <<d, m>> \in media /\ ~(d = c /\ m \in gone)
  BY <1>5
<1>8. \A m \in Mids : m \in mids /\ m \notin gone /\ m \in peer[c].tracks => <<c, m>> \in closedFirst'
  BY <1>4
<1>9. Typed'
  BY <1>4, <1>5, <1>6 DEF AgentInv, Typed
<1>10. SectionsAgree'
  <2>0. UNCHANGED <<started, completed, late, overtaken>>
    BY <1>4
  <2>1. SUFFICES ASSUME NEW d \in Connections, NEW m \in Mids
                 PROVE  /\ peer'[d].op[m] # Unlinked => peer'[d].op[m] \in started
                        /\ m \in peer'[d].tracks <=> <<d, m>> \in media'
                        /\ m \in peer'[d].tracks =>
                             /\ peer'[d].there /\ m \in peer'[d].offered /\ peer'[d].op[m] \in started
                             /\ m \in peer'[d].enabled \/ <<d, m>> \in late \cup closedFirst'
                             /\ peer'[d].op[m] \in completed \cup overtaken
    BY <2>0 DEF SectionsAgree
  <2>2. /\ peer[d].op[m] # Unlinked => peer[d].op[m] \in started
        /\ m \in peer[d].tracks <=> <<d, m>> \in media
        /\ m \in peer[d].tracks =>
             /\ peer[d].there /\ m \in peer[d].offered /\ peer[d].op[m] \in started
             /\ m \in peer[d].enabled \/ <<d, m>> \in late \cup closedFirst
             /\ peer[d].op[m] \in completed \cup overtaken
    BY DEF AgentInv, SectionsAgree
  <2>3. closedFirst \subseteq closedFirst'
    BY <1>4
  <2> HIDE DEF c, mids, gone, ids
  <2>4. CASE d # c
    BY <1>6, <1>7, <2>2, <2>3, <2>4
  <2>5. CASE d = c
    BY <1>6, <1>7, <1>8, <2>2, <2>3, <2>5
  <2> QED
    BY <2>4, <2>5
<1> QED
  BY <1>5, <1>9, <1>10 DEF AgentInv

\* An offer opens sections that have no track, and their operations are reported complete.
LEMMA OfferKeeps ==
  ASSUME AgentInv, NEW c \in Connections, NEW opened \in SUBSET Mids, NEW closed \in SUBSET Mids,
         Offer(c, opened, closed)
  PROVE  AgentInv'
<1> DEFINE set == SetUp(c, opened)
           ids == {c} \X set
           ops == {peer[c].op[m] : m \in set}
<1>1. peer \in [Connections -> Peers] /\ peer[c] \in Peers
  BY DEF AgentInv, Typed
<1>2. set \subseteq opened /\ ids \in SUBSET Tracks
  BY DEF SetUp, Tracks
<1>3. /\ peer[c].there /\ opened \cap peer[c].offered = {} /\ closed \subseteq peer[c].offered
      /\ AddTracks(ids) /\ late' = late \cup ({c} \X (set \ peer[c].enabled))
      /\ IF ops = {} THEN UNCHANGED <<completed, overtaken>>
         ELSE \E op \in ops : completed' = completed \cup {op} /\ overtaken' = overtaken \cup (ops \ {op})
      /\ UNCHANGED <<started, source, fed, closedFirst, relinked>>
  BY DEF Offer
<1>4. peer' = [peer EXCEPT ![c].offered = peer[c].offered \cup opened,
                           ![c].closed = peer[c].closed \cup closed \cup (opened \ set),
                           ![c].tracks = peer[c].tracks \cup set]
  BY <1>1 DEF Offer
<1> HIDE DEF set
<1>5. /\ \A d \in Connections : d # c => peer'[d] = peer[d]
      /\ peer'[c].offered = peer[c].offered \cup opened /\ peer'[c].tracks = peer[c].tracks \cup set
      /\ peer'[c].there = peer[c].there /\ peer'[c].op = peer[c].op /\ peer'[c].enabled = peer[c].enabled
      /\ peer' \in [Connections -> Peers]
  BY <1>1, <1>2, <1>4 DEF Peers
<1>6. \A m \in set : peer[c].op[m] # Unlinked /\ m \in opened
  BY DEF set, SetUp
<1>7. \A m \in set : peer[c].op[m] \in started /\ m \notin peer[c].tracks
  BY <1>2, <1>3, <1>6 DEF AgentInv, SectionsAgree
<1>8. \A id \in ids : id \notin media /\ direction[id] = "none"
  <2> SUFFICES ASSUME NEW m \in set
               PROVE  <<c, m>> \notin media /\ direction[<<c, m>>] = "none"
    OBVIOUS
  <2>1. m \in Mids /\ <<c, m>> \in Tracks
    BY <1>2 DEF Tracks
  <2>2. <<c, m>> \notin media
    BY <1>7, <2>1 DEF AgentInv, SectionsAgree
  <2> QED
    BY <2>1, <2>2 DEF AgentInv, TracksMeet
<1>9. media' = media \cup ids /\ reported' = reported \cup ids /\ AddConnections(ids)
  BY <1>3 DEF AddTracks
<1>10. LinksAgree' /\ direction' \in [ConnectionIds -> Directions]
  BY <1>2, <1>3, <1>8, <1>9, LinksAfterAdding DEF AgentInv
<1>11. TracksMeet'
  <2>1. \A id \in Tracks : IF id \in ids THEN direction'[id] # "none" ELSE direction'[id] = direction[id]
    BY <1>2, <1>9 DEF AddConnections, ConnectionIds
  <2> QED
    BY <1>2, <1>9, <2>1 DEF AgentInv, TracksMeet
<1>12. completed \subseteq completed' /\ overtaken \subseteq overtaken' /\ ops \subseteq completed' \cup overtaken'
       /\ completed' \subseteq completed \cup ops
  BY <1>3
<1>13. Typed'
  <2>1. ops \subseteq Operations
    BY <1>7 DEF AgentInv, Typed
  <2> QED
    BY <1>2, <1>3, <1>5, <1>9, <1>10, <1>12, <2>1 DEF AgentInv, Typed
<1>14. SectionsAgree'
  <2>1. SUFFICES ASSUME NEW d \in Connections, NEW m \in Mids
                 PROVE  /\ peer'[d].op[m] # Unlinked => peer'[d].op[m] \in started
                        /\ m \in peer'[d].tracks <=> <<d, m>> \in media'
                        /\ m \in peer'[d].tracks =>
                             /\ peer'[d].there /\ m \in peer'[d].offered /\ peer'[d].op[m] \in started
                             /\ m \in peer'[d].enabled \/ <<d, m>> \in late' \cup closedFirst
                             /\ peer'[d].op[m] \in completed' \cup overtaken'
    BY <1>3 DEF SectionsAgree
  <2>2. /\ peer[d].op[m] # Unlinked => peer[d].op[m] \in started
        /\ m \in peer[d].tracks <=> <<d, m>> \in media
        /\ m \in peer[d].tracks =>
             /\ peer[d].there /\ m \in peer[d].offered /\ peer[d].op[m] \in started
             /\ m \in peer[d].enabled \/ <<d, m>> \in late \cup closedFirst
             /\ peer[d].op[m] \in completed \cup overtaken
    BY DEF AgentInv, SectionsAgree
  <2>3. <<d, m>> \in media' <=> <<d, m>> \in media \/ (d = c /\ m \in set)
    BY <1>9
  <2>4. late \subseteq late' /\ (d = c /\ m \in set /\ m \notin peer[c].enabled => <<d, m>> \in late')
    BY <1>3
  <2>5. m \in set => peer[c].op[m] \in completed' \cup overtaken'
    BY <1>12
  <2> HIDE DEF ops, ids
  <2>6. CASE d # c
    BY <1>5, <1>12, <2>2, <2>3, <2>4, <2>6
  <2>7. CASE d = c /\ m \in set
    BY <1>3, <1>5, <1>6, <1>7, <2>2, <2>3, <2>4, <2>5, <2>7
  <2>8. CASE d = c /\ m \notin set
    BY <1>5, <1>12, <2>2, <2>3, <2>4, <2>8
  <2> QED
    BY <2>6, <2>7, <2>8
<1> QED
  BY <1>10, <1>11, <1>13, <1>14 DEF AgentInv

\* Closing a section ends no track.
LEMMA CloseKeeps ==
  ASSUME AgentInv, NEW c \in Connections, NEW closed \in SUBSET Mids, Close(c, closed)
  PROVE  AgentInv'
<1>1. peer \in [Connections -> Peers] /\ peer[c] \in Peers
  BY DEF AgentInv, Typed
<1>2. peer' = [peer EXCEPT ![c].closed = peer[c].closed \cup closed]
  BY <1>1 DEF Close
<1>3. /\ peer' \in [Connections -> Peers]
      /\ \A d \in Connections :
           /\ peer'[d].there = peer[d].there /\ peer'[d].op = peer[d].op
           /\ peer'[d].enabled = peer[d].enabled /\ peer'[d].offered = peer[d].offered
           /\ peer'[d].tracks = peer[d].tracks
  BY <1>1, <1>2 DEF Peers
<1>4. UNCHANGED <<started, media, direction, source, fed, completed, reported, late, overtaken,
                  closedFirst, relinked>>
  BY DEF Close, routerVars
<1>5. Typed' /\ TracksMeet' /\ LinksAgree'
  BY <1>3, <1>4 DEF AgentInv, Typed, TracksMeet, LinksAgree, Exists
<1>6. SectionsAgree'
  BY <1>3, <1>4 DEF AgentInv, SectionsAgree
<1> QED
  BY <1>5, <1>6 DEF AgentInv

\* With a connection all its tracks go.
LEMMA DestroyKeeps ==
  ASSUME AgentInv, NEW c \in Connections, DestroyTransport(c)
  PROVE  AgentInv'
<1> DEFINE ids == {id \in media : id[1] = c}
<1>1. peer \in [Connections -> Peers] /\ ids \in SUBSET Tracks
  BY DEF AgentInv, Typed
<1>2. /\ peer' = [peer EXCEPT ![c] = NoPeer] /\ RemoveTracks(ids) /\ relinked' = relinked
      /\ UNCHANGED <<started, completed, late, overtaken, closedFirst>>
  BY DEF DestroyTransport
<1>3. /\ TracksMeet' /\ LinksAgree' /\ media' = media \ ids /\ media' \subseteq Tracks
      /\ direction' \in [ConnectionIds -> Directions]
      /\ source' \in [ConnectionIds -> ConnectionIds \cup {Unlinked}]
      /\ fed' \subseteq ConnectionIds \X ConnectionIds
  BY <1>1, <1>2, TracksRemoved
<1>4. NoPeer \in Peers /\ NoPeer.tracks = {} /\ \A m \in Mids : NoPeer.op[m] = Unlinked
  BY DEF NoPeer, Peers
<1>5. /\ peer' \in [Connections -> Peers] /\ peer'[c] = NoPeer
      /\ \A d \in Connections : d # c => peer'[d] = peer[d]
  BY <1>1, <1>2, <1>4
<1>6. \A d \in Connections, m \in Mids : <<d, m>> \in media' <=> <<d, m>> \in media /\ d # c
  BY <1>3
<1>7. Typed'
  BY <1>2, <1>3, <1>5 DEF AgentInv, Typed
<1>8. SectionsAgree'
  BY <1>2, <1>4, <1>5, <1>6 DEF AgentInv, SectionsAgree
<1> QED
  BY <1>3, <1>7, <1>8 DEF AgentInv

\* A destination is linked to its new source, and what fed it before is the exception.
LEMMA LinkupKeeps ==
  ASSUME AgentInv, NEW dst \in Tracks, NEW src \in ConnectionIds, Linkup(dst, src)
  PROVE  AgentInv'
<1>1. dst \in ConnectionIds /\ src # Unlinked /\ (src \in RemoteStreams => src \notin Tracks)
  BY NamesAssumption DEF ConnectionIds
<1>2. /\ direction \in [ConnectionIds -> Directions]
      /\ source \in [ConnectionIds -> ConnectionIds \cup {Unlinked}]
      /\ fed \subseteq ConnectionIds \X ConnectionIds
  BY DEF AgentInv, Typed
<1>3. /\ direction[src] # "out" /\ (src \in RemoteStreams \/ Exists(src))
      /\ direction' = [direction EXCEPT ![src] = IF direction[src] = "none" THEN "internal" ELSE direction[src]]
      /\ IF direction[dst] = "out" THEN LinkupConnection(dst, src) ELSE UNCHANGED <<source, fed, relinked>>
      /\ UNCHANGED <<peer, started, media, completed, reported, late, overtaken, closedFirst>>
  BY <1>1, <1>2 DEF Linkup
<1>4. /\ direction' \in [ConnectionIds -> Directions]
      /\ \A id \in ConnectionIds : direction'[id] = IF id = src /\ direction[id] = "none" THEN "internal"
                                                    ELSE direction[id]
  BY <1>2, <1>3 DEF Directions
<1>5. SectionsAgree'
  BY <1>3 DEF AgentInv, SectionsAgree
<1>6. TracksMeet'
  BY <1>1, <1>3, <1>4 DEF AgentInv, TracksMeet, Exists, ConnectionIds
<1>7. CASE direction[dst] # "out"
  <2>1. UNCHANGED <<source, fed, relinked>>
    BY <1>3, <1>7
  <2>2. LinksAgree'
    <3>1. \A l \in fed : l[1] \in ConnectionIds /\ l[2] \in ConnectionIds
      BY <1>2
    <3> QED
      BY <1>4, <2>1, <3>1 DEF AgentInv, LinksAgree, Exists
  <2> QED
    BY <1>3, <1>4, <1>5, <1>6, <2>1, <2>2 DEF AgentInv, Typed
<1>8. CASE direction[dst] = "out"
  <2>1. /\ source' = [source EXCEPT ![dst] = src] /\ fed' = fed \cup {<<src, dst>>}
        /\ relinked' = IF source[dst] \in {Unlinked, src} THEN relinked ELSE relinked \cup {<<source[dst], dst>>}
    BY <1>3, <1>8 DEF LinkupConnection
  <2>2. /\ source' \in [ConnectionIds -> ConnectionIds \cup {Unlinked}]
        /\ fed' \subseteq ConnectionIds \X ConnectionIds
        /\ \A id \in ConnectionIds : source'[id] = IF id = dst THEN src ELSE source[id]
    BY <1>1, <1>2, <2>1
  <2>3. ASSUME NEW l \in fed' \ relinked'
        PROVE  source'[l[2]] = l[1] /\ direction'[l[1]] # "none" /\ direction'[l[2]] = "out"
    <3>1. l[1] \in ConnectionIds /\ l[2] \in ConnectionIds /\ l = <<l[1], l[2]>>
      BY <2>2
    <3>2. CASE l = <<src, dst>>
      <4>1. direction'[src] # "none"
        BY <1>4
      <4> QED
        BY <1>1, <1>3, <1>4, <1>8, <2>2, <3>2, <4>1
    <3>3. CASE l # <<src, dst>>
      <4>1. l \in fed \ relinked
        BY <2>1, <3>3
      <4>2. source[l[2]] = l[1] /\ direction[l[1]] # "none" /\ direction[l[2]] = "out"
        BY <4>1 DEF AgentInv, LinksAgree, Exists
      <4>3. l[2] # dst
        <5> SUFFICES ASSUME l[2] = dst PROVE FALSE
          OBVIOUS
        <5>1. source[dst] = l[1] /\ l[1] # src /\ l[1] # Unlinked
          BY <3>1, <3>3, <4>2, NamesAssumption
        <5>2. l \in relinked'
          BY <2>1, <3>1, <5>1
        <5> QED
          BY <5>2
      <4> QED
        BY <1>4, <2>2, <3>1, <4>2, <4>3
    <3> QED
      BY <3>2, <3>3
  <2>4. ASSUME NEW id \in ConnectionIds, source'[id] # Unlinked
        PROVE  <<source'[id], id>> \in fed'
    <3>1. CASE id = dst
      BY <2>1, <2>2, <3>1
    <3>2. CASE id # dst
      BY <2>1, <2>2, <2>4, <3>2 DEF AgentInv, LinksAgree
    <3> QED
      BY <3>1, <3>2
  <2>5. LinksAgree'
    BY <2>3, <2>4 DEF LinksAgree, Exists
  <2> QED
    BY <1>3, <1>4, <1>5, <1>6, <2>2, <2>5 DEF AgentInv, Typed
<1> QED
  BY <1>7, <1>8

\* A destination that is cut off is not fed by its source any more.
LEMMA CutoffKeeps ==
  ASSUME AgentInv, NEW dst \in Tracks, Cutoff(dst)
  PROVE  AgentInv'
<1>1. dst \in ConnectionIds
  BY DEF ConnectionIds
<1>2. /\ source \in [ConnectionIds -> ConnectionIds \cup {Unlinked}]
      /\ fed \subseteq ConnectionIds \X ConnectionIds
  BY DEF AgentInv, Typed
<1>3. /\ fed' = fed \ CutOffTo({dst}) /\ source' = [source EXCEPT ![dst] = Unlinked]
      /\ UNCHANGED <<peer, started, media, direction, completed, reported, late, overtaken, closedFirst, relinked>>
  BY DEF Cutoff
<1>4. /\ source' \in [ConnectionIds -> ConnectionIds \cup {Unlinked}]
      /\ \A id \in ConnectionIds : source'[id] = IF id = dst THEN Unlinked ELSE source[id]
  BY <1>1, <1>2, <1>3
<1>5. ASSUME NEW l \in fed' \ relinked
      PROVE  source'[l[2]] = l[1] /\ direction[l[1]] # "none" /\ direction[l[2]] = "out"
  <2>1. l \in fed \ relinked /\ l \notin CutOffTo({dst}) /\ l[2] \in ConnectionIds
    BY <1>2, <1>3
  <2>2. source[l[2]] = l[1] /\ Exists(l[1]) /\ direction[l[2]] = "out"
    BY <2>1 DEF AgentInv, LinksAgree
  <2>3. l[2] # dst
    BY <2>1, <2>2 DEF CutOffTo
  <2> QED
    BY <1>4, <2>1, <2>2, <2>3 DEF Exists
<1>6. ASSUME NEW id \in ConnectionIds, source'[id] # Unlinked
      PROVE  <<source'[id], id>> \in fed'
  <2>1. id # dst /\ source'[id] = source[id] /\ <<source[id], id>> \in fed
    BY <1>4, <1>6 DEF AgentInv, LinksAgree
  <2>2. <<source[id], id>> \notin CutOffTo({dst})
    BY <2>1 DEF CutOffTo
  <2> QED
    BY <1>3, <2>1, <2>2
<1>7. LinksAgree'
  BY <1>3, <1>5, <1>6 DEF LinksAgree, Exists
<1>8. Typed' /\ TracksMeet'
  BY <1>2, <1>3, <1>4 DEF AgentInv, Typed, TracksMeet
<1>9. SectionsAgree'
  BY <1>3 DEF AgentInv, SectionsAgree
<1> QED
  BY <1>7, <1>8, <1>9 DEF AgentInv

\* A stream of another node is no track of this one.
LEMMA RemoteEndsKeeps ==
  ASSUME AgentInv, NEW src \in RemoteStreams, RemoteEnds(src)
  PROVE  AgentInv'
<1>1. {src} \in SUBSET ConnectionIds /\ src \notin Tracks
  BY NamesAssumption DEF ConnectionIds
<1>2. /\ RemoveConnections({src})
      /\ UNCHANGED <<peer, started, media, completed, reported, late, overtaken, closedFirst, relinked>>
  BY DEF RemoteEnds
<1>3. /\ LinksAgree'
      /\ direction' \in [ConnectionIds -> Directions]
      /\ source' \in [ConnectionIds -> ConnectionIds \cup {Unlinked}]
      /\ fed' \subseteq ConnectionIds \X ConnectionIds
  BY <1>1, <1>2, LinksAfterRemoval DEF AgentInv
<1>4. \A id \in Tracks : direction'[id] = direction[id]
  BY <1>1, <1>2 DEF RemoveConnections, ConnectionIds
<1>5. Typed' /\ TracksMeet'
  BY <1>2, <1>3, <1>4 DEF AgentInv, Typed, TracksMeet
<1>6. SectionsAgree'
  BY <1>2 DEF AgentInv, SectionsAgree
<1> QED
  BY <1>3, <1>5, <1>6 DEF AgentInv

LEMMA AgentStays == AgentInv /\ [AgentNext]_agentVars => AgentInv'
<1> SUFFICES ASSUME AgentInv, [AgentNext]_agentVars PROVE AgentInv'
  OBVIOUS
<1>1. ASSUME NEW op \in Operations, Publish(op) \/ Subscribe(op)
      PROVE  AgentInv'
  BY <1>1, StartKeeps DEF Publish, Subscribe
<1>2. ASSUME NEW op \in Operations, Unpublish(op) \/ Unsubscribe(op)
      PROVE  AgentInv'
  BY <1>2, StopKeeps DEF Unpublish, Unsubscribe
<1>3. CASE UNCHANGED agentVars
  <2>1. UNCHANGED <<peer, started, media, direction, source, fed, completed, reported, late,
                    overtaken, closedFirst, relinked>>
    BY <1>3 DEF agentVars
  <2>2. Typed' /\ TracksMeet' /\ LinksAgree'
    BY <2>1 DEF AgentInv, Typed, TracksMeet, LinksAgree, Exists
  <2>3. SectionsAgree'
    BY <2>1 DEF AgentInv, SectionsAgree
  <2> QED
    BY <2>2, <2>3 DEF AgentInv
<1> QED
  BY <1>1, <1>2, <1>3, DestroyKeeps, CloseKeeps, OfferKeeps, CutoffKeeps, LinkupKeeps, RemoteEndsKeeps
     DEF AgentNext

-----------------------------------------------------------------------------

LEMMA AgentInvHolds == AgentInv => WebrtcAgrees
<1> SUFFICES ASSUME AgentInv PROVE WebrtcAgrees
  OBVIOUS
<1>1. AgentTypeOK
  <2>1. \A c \in Connections : peer[c] \in Peers
    BY DEF AgentInv, Typed
  <2>2. \A c \in Connections :
          /\ peer[c].there \in BOOLEAN /\ peer[c].op \in [Mids -> Operations \cup {Unlinked}]
          /\ peer[c].enabled \subseteq Mids /\ peer[c].offered \subseteq Mids
          /\ peer[c].closed \subseteq Mids /\ peer[c].tracks \subseteq Mids
    BY <2>1 DEF Peers
  <2> QED
    BY <2>2 DEF AgentInv, Typed, TracksMeet, AgentTypeOK
<1>2. TracksAgree
  <2>1. media = {id \in Tracks : direction[id] # "none"} /\ reported = media
    BY DEF AgentInv, Typed, TracksMeet
  <2>2. ASSUME NEW id \in media
        PROVE  /\ peer[id[1]].there /\ peer[id[1]].op[id[2]] \in started
               /\ id[2] \in peer[id[1]].enabled \/ id \in late \cup closedFirst
               /\ peer[id[1]].op[id[2]] \in completed \cup overtaken
    <3>1. id[1] \in Connections /\ id[2] \in Mids /\ id = <<id[1], id[2]>>
      BY DEF AgentInv, Typed, Tracks
    <3>2. id[2] \in peer[id[1]].tracks
      BY <3>1 DEF AgentInv, SectionsAgree
    <3> QED
      BY <3>1, <3>2 DEF AgentInv, SectionsAgree
  <2>3. \A c \in Connections : {c} \X peer[c].tracks \subseteq media
    <3>1. \A c \in Connections : peer[c].tracks \subseteq Mids
      BY DEF AgentInv, Typed, Peers
    <3> QED
      BY <3>1 DEF AgentInv, SectionsAgree
  <2> QED
    BY <2>1, <2>2, <2>3 DEF TracksAgree
<1> QED
  BY <1>1, <1>2 DEF AgentInv, WebrtcAgrees, AgentConsistent

\* Whatever the clients offer, close and end, and in whatever order tracks are linked up and cut
\* off, a WebRTC node has a connection of its router for every track and for no other one, each
\* with an operation of the peer connection, and no media flows to or from what is gone.
THEOREM TracksAndLinksAgree == AgentSpec => []WebrtcAgrees
<1>1. AgentSpec => []AgentInv
  BY AgentStarts, AgentStays, PTL DEF AgentSpec
<1> QED
  BY <1>1, AgentInvHolds, PTL
=============================================================================
