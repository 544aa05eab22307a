-------------------------- MODULE MessageDelivery --------------------------
(***************************************************************************)
(* What the portal promises a client that reconnects: the notifications of  *)
(* the conference, numbered in the order they are sent, reach it without    *)
(* gaps, but for those that have become too old to be kept.                 *)
(***************************************************************************)
EXTENDS Naturals

VARIABLES sent,    \* how many notifications there have been
          got,     \* the notifications the client has processed
          expired  \* the notifications that are not kept any more

Init == sent = 0 /\ got = {} /\ expired = {}

\* A notification, after which older ones may not be kept any more.
Send ==
  /\ sent' = sent + 1
  /\ expired \subseteq expired' /\ expired' \subseteq 1..sent'
  /\ UNCHANGED got

\* The client processes one notification, or all it has missed: none it has already gone
\* past, and none is missed for good but those that have expired.
Deliver ==
  /\ got \subseteq got' /\ got' \subseteq 1..sent
  /\ \A new \in got' \ got, old \in got : new > old
  /\ \A missed \in (1..sent) \ got' : (\E m \in got' : m > missed) => missed \in expired
  /\ UNCHANGED <<sent, expired>>

Next == Send \/ Deliver

Spec == Init /\ [][Next]_<<sent, got, expired>>
=============================================================================
