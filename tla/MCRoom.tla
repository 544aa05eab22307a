------------------------------- MODULE MCRoom -------------------------------
(***************************************************************************)
(* Four parts of a room that do not share state, checked in one run: its     *)
(* terminals, the mixing video node, its server side sessions and the       *)
(* controls of media.  Which of them runs is chosen initially; the others    *)
(* rest.                                                                     *)
(*                                                                          *)
(* The terminals have one or two streams and up to two subscriptions, in     *)
(* scenarios in which they share or follow each other: two formats of one   *)
(* source, the same format twice, the video of the view, a recording of two *)
(* sources, and a stream that is mixed by two calls.                        *)
(***************************************************************************)
EXTENDS RoomTerminals, VideoMixer, ServerSessions, MediaControls, TLC

CONSTANTS s1, s2, u1, u2, m1, m2, i1, o1, d1, d2

Audio(w) == "audio" :> w
Video(w) == "video" :> w
From(s, f) == [from |-> s, format |-> f]
Wanted(w1, w2) == (u1 :> w1) @@ (u2 :> w2)

TwoFormats ==
  [tracks |-> (s1 :> Audio("a")), mixes |-> {},
   want |-> Wanted(Audio(From(s1, "b")), Audio(From(s1, "c")))]
MixedAndHeard ==
  [tracks |-> (s1 :> Audio("a")), mixes |-> {m1},
   want |-> Wanted(Audio(From(s1, "b")), NoFunction)]
SameFormat ==
  [tracks |-> (s1 :> Audio("a")), mixes |-> {},
   want |-> Wanted(Audio(From(s1, "b")), Audio(From(s1, "b")))]
TheView ==
  [tracks |-> (s1 :> Video("a")), mixes |-> {},
   want |-> Wanted(Audio(From(MixedStream, "b")) @@ Video(From(MixedStream, "b")),
                   Video(From(MixedStream, "b")))]
Recording ==
  [tracks |-> (s1 :> Audio("a")) @@ (s2 :> Video("a")), mixes |-> {},
   want |-> Wanted(Audio(From(s1, "b")) @@ Video(From(s2, "a")), NoFunction)]
BothTracks ==
  [tracks |-> (s1 :> (Audio("a") @@ Video("a"))), mixes |-> {},
   want |-> Wanted(Audio(From(s1, "b")) @@ Video(From(s1, "b")), NoFunction)]
MixedTwice ==
  [tracks |-> (s1 :> (Audio("a") @@ Video("a"))), mixes |-> {m1, m2},
   want |-> Wanted(NoFunction, NoFunction)]

MCScenarios ==
  {TwoFormats, SameFormat, MixedAndHeard, TheView, Recording, BothTracks, MixedTwice}

\* One stream is pulled in and one session takes it, on the same node or on two.
MCSource == o1 :> i1
MCPlacements == {(i1 :> d1) @@ (o1 :> d1), (i1 :> d1) @@ (o1 :> d2)}

VARIABLE system

roomSumVars == <<system, roomVars, mixerVars, serverVars, controlVars>>

\* What rests is in its initial state, in which nothing is due.  The controls are about streams
\* while no subscription is there, or about the subscription when those have been answered.
Resting ==
  /\ system # "terminals" => scenario = SameFormat
  /\ system # "sessions" => analytics = {} /\ placement[o1] = d1
  /\ system # "controls" => ~member
  /\ \A r \in Requests : request[r].step = (IF member THEN "answered" ELSE "new")

RoomSumInit ==
  /\ system \in {"terminals", "mixer", "sessions", "controls"}
  /\ RoomInit /\ MixerInit /\ ServerInit /\ ControlInit
  /\ Resting

RoomSumNext ==
  \/ system = "terminals" /\ RoomNext /\ UNCHANGED <<system, mixerVars, serverVars, controlVars>>
  \/ system = "mixer" /\ MixerNext /\ UNCHANGED <<system, roomVars, serverVars, controlVars>>
  \/ system = "sessions" /\ ServerNext /\ UNCHANGED <<system, roomVars, mixerVars, controlVars>>
  \/ system = "controls" /\ ControlNext /\ UNCHANGED <<system, roomVars, mixerVars, serverVars>>

RoomSumSpec == RoomSumInit /\ [][RoomSumNext]_roomSumVars /\ RoomFairness /\ ServerFairness

\* Every request for media is answered, and every call of the management API that starts or ends a
\* session of the room, however calls of nodes fail and whatever ends in between.
CallsAnswered == RoomAnswers /\ ServerCallsEnd
=============================================================================
