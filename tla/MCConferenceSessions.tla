------------------------ MODULE MCConferenceSessions ------------------------
(***************************************************************************)
(* Small rooms for TLC: p1 publishes s1, p2 subscribes to it with b1 and    *)
(* publishes s2 over the same transport, p3 only competes for a place.      *)
(***************************************************************************)
EXTENDS ConferenceSessions, TLC

CONSTANTS p1, p2, p3, s1, s2, b1, t1, t2, n1, n2

\* Two publishers, a subscriber and a third participant that competes for a place.
ThreeParticipants == {p1, p2, p3}
TwoParticipants == {p1, p2}
TwoStreams == {s1, s2}
OneStream == {s1}
OneSub == {b1}
TwoTransports == {t1, t2}
TwoNodes == {n1, n2}

OwnerOfThree == (s1 :> p1) @@ (s2 :> p2) @@ (b1 :> p2)
TransportOfThree == (s1 :> t1) @@ (s2 :> t2) @@ (b1 :> t2)
\* The publisher and the subscriber only.
OwnerOfTwo == (s1 :> p1) @@ (b1 :> p2)
TransportOfTwo == (s1 :> t1) @@ (b1 :> t2)
SourceOfSub == (b1 :> s1)

\* The transports of a room are on nodes of their own (several WebRTC agents) ...
ApartPlacement == (t1 :> {n1}) @@ (t2 :> {n2})
\* ... or may all be on one node, as nodeManager.js does for the tasks of a room.
SharedPlacement == (t1 :> {n1}) @@ (t2 :> {n1})

\* A behaviour in which an RPC fails is one in which s2 is not published: s2 competes for the
\* input limit, which is stated until an RPC fails.  Neither step is one that Fairness is about.
FailsOrPublishesTwo == rpcFaults' = 0 \/ request'[s2] = "new"

ApartSpec == Init /\ [][Next /\ FailsOrPublishesTwo]_vars /\ Fairness
=============================================================================
