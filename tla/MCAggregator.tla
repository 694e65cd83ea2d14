---------------------------- MODULE MCAggregator ----------------------------
(* Instances of Aggregator for TLC: two ways to write one of two ballots.  *)
EXTENDS Aggregator

CONSTANTS Yes, yes, no, yesBallot, noBallot

MCNormal == (Yes :> yesBallot) @@ (yes :> yesBallot) @@ (no :> noBallot)
=============================================================================
