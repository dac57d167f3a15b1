---------------------------- MODULE MCCandleFeed ----------------------------
(* Instances of CandleFeed for TLC. *)
EXTENDS CandleFeed
=============================================================================
