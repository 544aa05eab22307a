-------------------------- MODULE MCPortalMessages --------------------------
(***************************************************************************)
(* A few notifications to one client for TLC.                               *)
(***************************************************************************)
EXTENDS PortalMessages
=============================================================================
