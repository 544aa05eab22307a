---------------------------- MODULE MediaInputs ----------------------------
(***************************************************************************)
(* The inputs of the nodes that process media: of the audio node that mixes *)
(* the loudest streams, and of the others.  They share no state.            *)
(***************************************************************************)
EXTENDS SelectiveMixer, NodeInputs

\* The nodes that process media have the inputs they were given, and nothing is left of the others:
\* their lists, their engines and the sources of other nodes agree.
MediaInputsAgree ==
  /\ SelectiveTypeOK /\ SelectiveAgrees
  /\ NodeTypeOK /\ NodeAgrees
=============================================================================
