------------------------ MODULE MCPortalConnections ------------------------
(***************************************************************************)
(* A small portal for TLC: two sockets, of two clients or of one that       *)
(* leaves the first for the second.                                         *)
(***************************************************************************)
EXTENDS PortalConnections, TLC

CONSTANTS c1, c2

TwoConnections == {c1, c2}

\* A client may leave and log in again on the first socket.
LoginsOfTwo == (c1 :> 2) @@ (c2 :> 1)
=============================================================================
