----------------------------- MODULE MCPeerLink -----------------------------
(* Instances of PeerLink for TLC.  A unit of time is two minutes.           *)
EXTENDS PeerLink

=============================================================================
