----------------------------- MODULE MCService -----------------------------
(* Instances of Service for TLC.  SIDs are interchangeable.                *)
EXTENDS Service, TLC

Symmetry == Permutations(SIDs)
=============================================================================
