----------------------------- MODULE NodeInputs -----------------------------
(***************************************************************************)
(* The inputs and outputs of the other nodes that process media: the audio  *)
(* mixer (source/agent/audio/index.js) with any number of inputs, and the   *)
(* video transcoder (source/agent/video/vtranscoder.js) with one.  A stream *)
(* is published with the address of its node, or under the name of a link   *)
(* for which linkup brings the stream and its address.                      *)
(***************************************************************************)
EXTENDS Integers, FiniteSets

CONSTANTS NodeStreams, NodeLinks, Formats,
          Nothing,     \* no input, no connection
          MaxFailed    \* bound: inputs and outputs an engine refuses

ASSUME NodeAssumption == Nothing \notin NodeStreams /\ MaxFailed \in Nat

VARIABLES
  service,  \* "mixing" or "transcoding"
  node,     \* the state of the node
  failed    \* counter

nodeVars == <<service, node, failed>>

NodeInit ==
  /\ service \in {"mixing", "transcoding"}
  /\ node = [engine |-> TRUE, inputs |-> {}, mixed |-> {}, remote |-> {}, unlinked |-> {},
             from |-> [l \in NodeLinks |-> Nothing], outputs |-> {}, sources |-> {},
             named |-> {}, orphans |-> {}]
  /\ failed = 0

Mixing == service = "mixing"
Fail(ok) == (ok \/ failed < MaxFailed) /\ failed' = failed + (IF ok THEN 0 ELSE 1)

\* A transcoder with an input that is not this stream.
Taken(s) == ~Mixing /\ node.inputs \notin {{}, {s}}

\* addInput of the mixer leaves the source it has got when the engine refuses.
AudioAddInput(n, s, ok) ==
  IF ok THEN [n EXCEPT !.remote = @ \cup {s}, !.inputs = @ \cup {s}, !.mixed = @ \cup {s}]
  ELSE [n EXCEPT !.remote = @ \cup {s}]

\* setInput of the transcoder; its engine has room for one.
SetInput(n, s, ok) ==
  IF ok THEN [n EXCEPT !.remote = @ \cup {s}, !.inputs = {s}, !.mixed = {s}]
  ELSE [n EXCEPT !.remote = @ \ {s}]
AddNodeInput(n, s, ok) == IF Mixing THEN AudioAddInput(n, s, ok) ELSE SetInput(n, s, ok)

\* removeInput of the mixer, unsetInput of the transcoder.
RemoveKeepingSource(n, s) == [n EXCEPT !.inputs = @ \ {s}, !.mixed = @ \ {s}]
AudioRemoveInput(n, s) ==
  IF s \notin n.inputs THEN n
  ELSE [n EXCEPT !.inputs = @ \ {s}, !.mixed = @ \ {s}, !.remote = @ \ {s}]
UnsetInput(n) == [n EXCEPT !.inputs = {}, !.mixed = {}, !.remote = @ \ n.inputs]
RemoveNodeInput(n, s) ==
  IF Mixing THEN AudioRemoveInput(n, s) ELSE IF s \in n.inputs THEN UnsetInput(n) ELSE n

AddOutput(n, f) == [n EXCEPT !.outputs = @ \cup {f}, !.sources = @ \cup {f}]
RemoveOutput(n, f) == [n EXCEPT !.outputs = @ \ {f}, !.sources = @ \ {f}]

-----------------------------------------------------------------------------

\* The mixer answers an error for an input that it has.
PublishStream(s) ==
  /\ node.engine
  /\ \E ok \in BOOLEAN :
       /\ Fail(ok)
       /\ IF s \in node.inputs \/ Taken(s) THEN ok /\ UNCHANGED node
          ELSE node' = [AddNodeInput(node, s, ok) EXCEPT !.named = IF ok THEN @ \cup {s} ELSE @]
  /\ UNCHANGED service

\* The transcoder keeps the last link only, and none while it has an input.
PublishLink(l) ==
  /\ node.engine /\ node.from[l] = Nothing
  /\ node' = IF Mixing THEN [node EXCEPT !.unlinked = @ \cup {l}]
             ELSE IF node.inputs = {} THEN [node EXCEPT !.unlinked = {l}] ELSE node
  /\ UNCHANGED <<service, failed>>

\* The transcoder has one link, inputConnId.
TranscoderLinked(n, l, s) == [n EXCEPT !.from = [k \in NodeLinks |-> IF k = l THEN s ELSE Nothing]]
TranscoderCutoff(n, l) ==
  [RemoveNodeInput(n, n.from[l]) EXCEPT !.from[l] = Nothing, !.named = @ \ {n.from[l]}]

\* A stream that is an input of the mixer already is read once; the engine of a transcoder refuses
\* a second input, and its first one loses its source if that is the same stream.
LinkupStream(l, s) ==
  /\ node.engine
  /\ \E ok \in BOOLEAN :
       /\ Fail(ok) /\ (~Mixing /\ l \in node.unlinked /\ node.inputs # {} => ~ok)
       /\ node' = IF l \notin node.unlinked THEN node
                  ELSE LET on == [AddNodeInput(node, s, ok) EXCEPT !.unlinked = @ \ {l}]
                       IN  IF ~ok THEN on
                           ELSE IF Mixing THEN [on EXCEPT !.from[l] = s] ELSE TranscoderLinked(on, l, s)
       /\ (ok \/ l \in node.unlinked)
  /\ UNCHANGED service

UnpublishStream(s) ==
  /\ node' = [RemoveNodeInput(node, s) EXCEPT
                !.named = @ \ {s}, !.orphans = @ \ {s},
                !.from = IF ~Mixing /\ s \in node.inputs THEN [l \in NodeLinks |-> Nothing] ELSE @]
  /\ UNCHANGED <<service, failed>>

\* By the name of the link; a link that is not linked up stays among the unlinked.
UnpublishLink(l) ==
  /\ node' = IF node.from[l] = Nothing THEN node
             ELSE [RemoveNodeInput(node, node.from[l]) EXCEPT
                     !.from[l] = Nothing, !.named = @ \ {node.from[l]},
                     !.orphans = @ \ {node.from[l]}]
  /\ UNCHANGED <<service, failed>>

\* cutoff of the mixer forgets the link and keeps the input; the transcoder ends the input.
CutoffLink(l) ==
  /\ node.from[l] # Nothing
  /\ node' = IF Mixing
               THEN [node EXCEPT !.from[l] = Nothing,
                                 !.orphans = IF node.from[l] \in node.inputs THEN @ \cup {node.from[l]} ELSE @]
               ELSE TranscoderCutoff(node, l)
  /\ UNCHANGED <<service, failed>>

\* generate: an output of the format that is there, or a new one.
GenerateOutput(f) ==
  /\ node.engine
  /\ \E ok \in BOOLEAN :
       /\ Fail(ok) /\ (ok \/ f \notin node.outputs)
       /\ node' = IF ok THEN AddOutput(node, f) ELSE node
  /\ UNCHANGED service

DegenerateOutput(f) ==
  /\ node' = RemoveOutput(node, f)
  /\ UNCHANGED <<service, failed>>

\* deinit: every output, every input, the engine.
DeinitNode ==
  /\ node.engine
  /\ node' = [node EXCEPT !.engine = FALSE, !.outputs = {}, !.sources = {}, !.inputs = {},
                          !.mixed = {}, !.remote = @ \ node.inputs, !.named = {}, !.orphans = {}]
  /\ UNCHANGED <<service, failed>>

NodeNext ==
  \/ \E s \in NodeStreams : PublishStream(s) \/ UnpublishStream(s) \/ \E l \in NodeLinks : LinkupStream(l, s)
  \/ \E l \in NodeLinks : PublishLink(l) \/ UnpublishLink(l) \/ CutoffLink(l)
  \/ \E f \in Formats : GenerateOutput(f) \/ DegenerateOutput(f)
  \/ DeinitNode

NodeSpec == NodeInit /\ [][NodeNext]_nodeVars

-----------------------------------------------------------------------------

\* Types of the variables of the node.
NodeTypeOK ==
  /\ service \in {"mixing", "transcoding"} /\ node.engine \in BOOLEAN
  /\ \A x \in {node.inputs, node.mixed, node.remote, node.named, node.orphans} : x \subseteq NodeStreams
  /\ node.unlinked \subseteq NodeLinks /\ node.from \in [NodeLinks -> NodeStreams \cup {Nothing}]
  /\ node.outputs \subseteq Formats /\ node.sources \subseteq Formats

\* Every input can still be named by somebody who may end it, unless a mixer was told to cut off
\* the link it came by.  The engine has the inputs of the node, each with its source; a source
\* is left, and a transcoder's lost, only when an engine has refused an input.
NodeAgrees ==
  /\ node.mixed = node.inputs
  /\ node.named \subseteq node.inputs
  /\ node.inputs \subseteq node.named \cup {node.from[l] : l \in NodeLinks} \cup node.orphans
  /\ Mixing => node.inputs \subseteq node.remote
  /\ failed = 0 => node.remote = node.inputs
  /\ ~Mixing => Cardinality(node.inputs) <= 1 /\ Cardinality(node.unlinked) <= 1
                /\ (node.engine => \A l \in NodeLinks : node.from[l] # Nothing => node.inputs = {node.from[l]})
  /\ node.outputs = node.sources
=============================================================================
