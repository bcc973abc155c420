------------------------------- MODULE MCGena -------------------------------
(* Instances of Gena for TLC.  SIDs are interchangeable.                   *)
EXTENDS Gena, TLC

Symmetry == Permutations(SIDs)
=============================================================================
