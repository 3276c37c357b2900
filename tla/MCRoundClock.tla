---------------------------- MODULE MCRoundClock ----------------------------
(* Instances of RoundClock for TLC.  A unit of time is 1.25 s.              *)
EXTENDS RoundClock

=============================================================================
